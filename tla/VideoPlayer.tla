----------------------------- MODULE VideoPlayer -----------------------------
(***************************************************************************)
(* The packet queue of a video player (player/VideoPlayer.kt): threads     *)
(* that receive packets call addPacket, the player thread polls and        *)
(* decodes, and the thread that stops it drains what is left.  A packet    *)
(* owns native memory, which release frees once (model/NALPacket.kt).      *)
(*                                                                         *)
(* addPacket and the drain run under the monitor of the queue; the poll of *)
(* the player thread does not, and the first steps of addPacket for a      *)
(* codec-config packet (SPS/PPS) do not either.  Packets are numbered in   *)
(* the order of the calls.                                                 *)
(***************************************************************************)
EXTENDS Naturals, Sequences, FiniteSets, SequencesExt

CONSTANTS
    Adders,        \* threads that call addPacket
    MaxBuffered,   \* MAX_BUFFERED_FRAMES, the capacity of the queue (96)
    MaxQueued,     \* MAX_QUEUED_FRAMES, the length trimBacklog keeps below (72)
    MaxPackets     \* packets handed over (bound)

ASSUME BoundsAssumption ==
    /\ MaxQueued \in Nat \ {0}
    /\ MaxBuffered \in Nat /\ MaxBuffered > MaxQueued
    /\ MaxPackets \in Nat
    /\ "none" \notin Adders /\ "stop" \notin Adders

VARIABLES
    isStopped,
    packets,             \* the queue
    pendingCodecConfig,  \* a packet, or 0
    monitor,             \* who holds the monitor of the queue
    adder, packet,       \* by thread: where it is in addPacket, its argument
    other,               \* by thread: "old", or the packet its trim looks at
    player, decoding,    \* the player thread, and the packet it decodes or 0
    stopper,             \* stopDecode: "idle", "drain", "clear", "returned"
    released,            \* packets whose memory is free
    handed,              \* history: the packets handed over
    decoded              \* history: the packets decoded

adderVars == <<adder, packet, other>>
playerVars == <<player, decoding, decoded>>
vars == <<isStopped, packets, pendingCodecConfig, monitor, adderVars,
          playerVars, stopper, released, handed>>

Init ==
    /\ isStopped = FALSE
    /\ packets = <<>> /\ pendingCodecConfig = 0
    /\ monitor = "none"
    /\ adder = [t \in Adders |-> "idle"]
    /\ packet = [t \in Adders |-> 0] /\ other = [t \in Adders |-> 0]
    /\ player = "poll" /\ decoding = 0
    /\ stopper = "idle"
    /\ released = {} /\ handed = <<>> /\ decoded = {}

isCodecConfig(n) == handed[n].config
Frames == {i \in DOMAIN packets : ~isCodecConfig(packets[i])}   \* their places

Goto(t, pc) == adder' = [adder EXCEPT ![t] = pc]
Release(S) == released' = released \cup (S \ {0})

(***************************************************************************)
(* addPacket                                                               *)
(***************************************************************************)
Add(t) ==
    /\ adder[t] = "idle"
    /\ Len(handed) < MaxPackets
    /\ \E config \in BOOLEAN :
         /\ handed' = Append(handed, [by |-> t, config |-> config])
         /\ Goto(t, IF config THEN "old" ELSE "enter")
    /\ packet' = [packet EXCEPT ![t] = Len(handed) + 1]
    /\ UNCHANGED <<isStopped, packets, pendingCodecConfig, monitor, other,
                   playerVars, stopper, released>>

(* A codec config: the one that was pending is replaced and released. *)
ReadOld(t) ==
    /\ adder[t] = "old"
    /\ other' = [other EXCEPT ![t] = pendingCodecConfig]
    /\ Goto(t, "store")
    /\ UNCHANGED <<isStopped, packets, pendingCodecConfig, monitor, packet,
                   playerVars, stopper, released, handed>>

StorePending(t) ==
    /\ adder[t] = "store"
    /\ pendingCodecConfig' = packet[t]
    /\ Goto(t, "releaseOld")
    /\ UNCHANGED <<isStopped, packets, monitor, packet, other, playerVars,
                   stopper, released, handed>>

(* Mutant: it is replaced and forgotten. *)
ForgetOld(t) ==
    /\ adder[t] = "releaseOld"
    /\ Goto(t, "enter")
    /\ UNCHANGED <<isStopped, packets, pendingCodecConfig, monitor, packet, other,
                   playerVars, stopper, released, handed>>

ReleaseOld(t) ==
    /\ adder[t] = "releaseOld"
    /\ Release({other[t]})
    /\ Goto(t, "enter")
    /\ UNCHANGED <<isStopped, packets, pendingCodecConfig, monitor, packet, other,
                   playerVars, stopper, handed>>

Enter(t) ==
    /\ adder[t] = "enter"
    /\ monitor = "none"
    /\ monitor' = t
    /\ Goto(t, "offer")
    /\ UNCHANGED <<isStopped, packets, pendingCodecConfig, packet, other,
                   playerVars, stopper, released, handed>>

Leave(t) == monitor' = "none" /\ Goto(t, "idle")

(* offerPendingCodecConfigLocked: a queue that is full leaves it pending. *)
OfferPending(t) ==
    /\ adder[t] \in {"offer", "offerAgain"}
    /\ pendingCodecConfig # 0
    /\ Len(packets) < MaxBuffered
    /\ packets' = Append(packets, pendingCodecConfig)
    /\ Goto(t, IF adder[t] = "offer" THEN "clear" ELSE "clearAgain")
    /\ UNCHANGED <<isStopped, pendingCodecConfig, monitor, packet, other,
                   playerVars, stopper, released, handed>>

ClearPending(t) ==
    /\ adder[t] \in {"clear", "clearAgain"}
    /\ pendingCodecConfig' = 0
    /\ Goto(t, IF adder[t] = "clear" THEN "offered" ELSE "put")
    /\ UNCHANGED <<isStopped, packets, monitor, packet, other, playerVars,
                   stopper, released, handed>>

(* Mutant: a frame does not wait for the codec config that is pending. *)
FramesDoNotOffer(t) ==
    /\ adder[t] \in {"offer", "offerAgain"}
    /\ \/ pendingCodecConfig = 0 \/ Len(packets) >= MaxBuffered
       \/ ~isCodecConfig(packet[t])
    /\ Goto(t, IF adder[t] = "offer" THEN "offered" ELSE "put")
    /\ UNCHANGED <<isStopped, packets, pendingCodecConfig, monitor, packet, other,
                   playerVars, stopper, released, handed>>

NothingToOffer(t) ==
    /\ adder[t] \in {"offer", "offerAgain"}
    /\ pendingCodecConfig = 0 \/ Len(packets) >= MaxBuffered
    /\ Goto(t, IF adder[t] = "offer" THEN "offered" ELSE "put")
    /\ UNCHANGED <<isStopped, packets, pendingCodecConfig, monitor, packet, other,
                   playerVars, stopper, released, handed>>

(* A codec config is done; a frame goes on to trim the queue. *)
Offered(t) ==
    /\ adder[t] = "offered"
    /\ IF isCodecConfig(packet[t]) THEN Leave(t) ELSE Goto(t, "trim") /\ UNCHANGED monitor
    /\ UNCHANGED <<isStopped, packets, pendingCodecConfig, packet, other,
                   playerVars, stopper, released, handed>>

(***************************************************************************)
(* trimBacklog.  The iterator looks at the oldest frame; the player thread *)
(* may take that frame before iterator.remove, which then removes nothing; *)
(* the frame is released all the same.                                     *)
(***************************************************************************)
Look(t, n, pc) ==
    /\ adder[t] = "trim"
    /\ other' = [other EXCEPT ![t] = n] /\ Goto(t, pc)
    /\ UNCHANGED <<isStopped, packets, pendingCodecConfig, monitor, packet,
                   playerVars, stopper, released, handed>>

TrimIf(long, t) ==
    \/ ~long /\ Look(t, 0, "offerAgain")
    \/ long /\ Frames = {} /\ Look(t, 0, "remove")
    \/ long /\ \E i \in Frames : (\A j \in Frames : i <= j) /\ Look(t, packets[i], "remove")

(* Mutant: off by one. *)
TrimLate(t) == TrimIf(Len(packets) > MaxQueued, t)
TrimLook(t) == TrimIf(Len(packets) >= MaxQueued, t)

TrimRemove(t) ==
    /\ adder[t] = "remove"
    /\ \/ \E i \in DOMAIN packets : packets[i] = other[t] /\ packets' = RemoveAt(packets, i)
       \/ other[t] \notin ToSet(packets) /\ UNCHANGED packets
    /\ Release({other[t]})
    /\ Goto(t, "configs")
    /\ UNCHANGED <<isStopped, pendingCodecConfig, monitor, packet, other,
                   playerVars, stopper, handed>>

(* Mutant: codec configs are never given up. *)
TrimKeepsConfigs(t) ==
    /\ adder[t] = "configs"
    /\ Goto(t, "trim")
    /\ UNCHANGED <<isStopped, packets, pendingCodecConfig, monitor, packet, other,
                   playerVars, stopper, released, handed>>

(* A queue of nothing but codec configs gives up the oldest. *)
TrimConfigs(t) ==
    /\ adder[t] = "configs"
    /\ IF Len(packets) >= MaxQueued /\ Frames = {}
       THEN packets' = Tail(packets) /\ Release({Head(packets)})
       ELSE UNCHANGED <<packets, released>>
    /\ Goto(t, "trim")
    /\ UNCHANGED <<isStopped, pendingCodecConfig, monitor, packet, other,
                   playerVars, stopper, handed>>

PutFrame(t) ==
    /\ adder[t] = "put"
    /\ IF Len(packets) < MaxBuffered
       THEN packets' = Append(packets, packet[t]) /\ UNCHANGED released
       ELSE Release({packet[t]}) /\ UNCHANGED packets
    /\ Leave(t)
    /\ UNCHANGED <<isStopped, pendingCodecConfig, packet, other, playerVars,
                   stopper, handed>>

AddPacket(t) ==
    \/ ReadOld(t) \/ StorePending(t) \/ ReleaseOld(t)
    \/ Enter(t) \/ OfferPending(t) \/ ClearPending(t) \/ NothingToOffer(t)
    \/ Offered(t) \/ TrimLook(t) \/ TrimRemove(t) \/ TrimConfigs(t) \/ PutFrame(t)

(***************************************************************************)
(* The player thread.  A poll that finds nothing in 250 ms changes         *)
(* nothing; one that is interrupted ends the loop.  decode releases the    *)
(* packet whatever the codec does, also when there is none.                *)
(***************************************************************************)
Poll ==
    /\ player = "poll"
    /\ ~isStopped
    /\ packets # <<>>
    /\ decoding' = Head(packets)
    /\ packets' = Tail(packets)
    /\ player' = "decode"
    /\ UNCHANGED <<isStopped, pendingCodecConfig, monitor, adderVars, decoded,
                   stopper, released, handed>>

Decode ==
    /\ player = "decode"
    /\ Release({decoding})
    /\ decoded' = decoded \cup {decoding}
    /\ decoding' = 0
    /\ player' = "poll"
    /\ UNCHANGED <<isStopped, packets, pendingCodecConfig, monitor, adderVars,
                   stopper, handed>>

(* Mutant: the loop ends on an empty queue only. *)
ExitWhenEmpty ==
    /\ player = "poll"
    /\ isStopped /\ packets = <<>>
    /\ player' = "done"
    /\ UNCHANGED <<isStopped, packets, pendingCodecConfig, monitor, adderVars,
                   decoding, decoded, stopper, released, handed>>

Exit ==
    /\ player = "poll"
    /\ isStopped
    /\ player' = "done"
    /\ UNCHANGED <<isStopped, packets, pendingCodecConfig, monitor, adderVars,
                   decoding, decoded, stopper, released, handed>>

(***************************************************************************)
(* stopDecode: isStopped, interrupt, drainPackets                          *)
(***************************************************************************)
StopDecode ==
    /\ stopper = "idle"
    /\ isStopped' = TRUE
    /\ stopper' = "drain"
    /\ UNCHANGED <<packets, pendingCodecConfig, monitor, adderVars, playerVars,
                   released, handed>>

Drain ==
    /\ stopper = "drain"
    /\ monitor = "none"
    /\ monitor' = "stop"
    /\ packets' = <<>>
    /\ Release(ToSet(packets) \cup {pendingCodecConfig})
    /\ stopper' = "clear"
    /\ UNCHANGED <<isStopped, pendingCodecConfig, adderVars, playerVars, handed>>

DrainDone ==
    /\ stopper = "clear"
    /\ pendingCodecConfig' = 0
    /\ monitor' = "none"
    /\ stopper' = "returned"
    /\ UNCHANGED <<isStopped, packets, adderVars, playerVars, released, handed>>

PlayerThread == Poll \/ Decode \/ Exit
StopGoesOn == Drain \/ DrainDone

Next ==
    \/ \E t \in Adders : Add(t) \/ AddPacket(t)
    \/ PlayerThread
    \/ StopDecode \/ StopGoesOn

(***************************************************************************)
(* The threads run, and decode returns; nobody need call.  The monitor is  *)
(* held for a few steps and the calls are finitely many.                   *)
(***************************************************************************)
Spec ==
    /\ Init /\ [][Next]_vars
    /\ \A t \in Adders : WF_vars(AddPacket(t))
    /\ WF_vars(PlayerThread) /\ WF_vars(StopGoesOn)

-----------------------------------------------------------------------------
TypeOK ==
    /\ isStopped \in BOOLEAN
    /\ packets \in Seq(1..MaxPackets) /\ Len(packets) <= MaxBuffered
    /\ pendingCodecConfig \in 0..MaxPackets
    /\ monitor \in Adders \cup {"none", "stop"}
    /\ adder \in [Adders -> {"idle", "old", "store", "releaseOld", "enter", "offer",
                             "clear", "offered", "trim", "remove", "configs",
                             "offerAgain", "clearAgain", "put"}]
    /\ packet \in [Adders -> 0..MaxPackets] /\ other \in [Adders -> 0..MaxPackets]
    /\ player \in {"poll", "decode", "done"} /\ decoding \in 0..MaxPackets
    /\ stopper \in {"idle", "drain", "clear", "returned"}
    /\ released \subseteq 1..MaxPackets /\ decoded \subseteq 1..MaxPackets
    /\ handed \in Seq([by : Adders, config : BOOLEAN])

(***************************************************************************)
(* While the player is not stopped, no memory is lost: a packet that is    *)
(* not released is with its caller, pending, queued or being decoded, and  *)
(* what is queued or pending is not released (VideoPlayer.kt:48-76).       *)
(***************************************************************************)
OwnedInv ==
    /\ TypeOK
    /\ ~isStopped =>
         \A n \in 1..Len(handed) :
            /\ \/ n \in released \cup ToSet(packets) \cup {pendingCodecConfig, decoding}
               \/ \E t \in Adders :
                     \/ adder[t] # "idle" /\ packet[t] = n
                     \/ adder[t] = "releaseOld" /\ other[t] = n
            /\ n \in ToSet(packets) => n \notin released
    /\ pendingCodecConfig \in released =>
         \/ stopper = "clear"
         \/ \E t \in Adders : adder[t] \in {"clear", "clearAgain"}

(***************************************************************************)
(* Frames waiting for the decoder never exceed MaxQueued, whatever the     *)
(* player thread does meanwhile: latency stays bounded also when codec     *)
(* configs, which are not trimmed, share the queue (VideoPlayer.kt:290).   *)
(***************************************************************************)
BacklogInv == Cardinality(Frames) <= MaxQueued

(***************************************************************************)
(* "Dependent video frames are kept in order before decode"                *)
(* (docs/performance.md:76): what one thread hands over is decoded in the  *)
(* order of its calls, with gaps where packets were dropped, and a codec   *)
(* config that waited for room is not overtaken by a later frame.          *)
(***************************************************************************)
DecodedInOrder ==
    [][(player = "poll" /\ player' = "decode") =>
         \A m \in decoded : handed[m].by = handed[decoding'].by => m < decoding']_vars

(***************************************************************************)
(* addPacket returns: the trim loop ends, also on a queue of nothing but   *)
(* codec configs, with or without a player thread that takes from it.      *)
(***************************************************************************)
AddReturns == \A t \in Adders : adder[t] = "trim" ~> adder[t] = "idle"

(***************************************************************************)
(* stopDecode returns and the player thread ends, wherever they are.       *)
(***************************************************************************)
StopEnds == isStopped ~> player = "done" /\ stopper = "returned"

(***************************************************************************)
(* "Playback threads release native packet memory after write, decode, or  *)
(* drop" (docs/performance.md:66): never while the packet is decoded.      *)
(***************************************************************************)
ReleasedAfterDecode == decoding \notin released

(***************************************************************************)
(* The same sentence: once the player thread ended, stopDecode returned    *)
(* and nobody is in addPacket, every packet handed over has been released. *)
(***************************************************************************)
AllReleased ==
    (player = "done" /\ stopper = "returned" /\ \A t \in Adders : adder[t] = "idle")
        => 1..Len(handed) \subseteq released
=============================================================================
