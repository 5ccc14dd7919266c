----------------------------- MODULE AudioPlayer -----------------------------
(***************************************************************************)
(* The audio player (player/AudioPlayer.kt): the UDP threads of the native *)
(* code add packets and flush, the player thread takes them, waits for a   *)
(* prebuffer, applies the sync offset and writes to the AudioTrack, and    *)
(* the main thread changes the offset and stops the player.                *)
(*                                                                         *)
(* Bytes are counted in units, PacketSize to a packet.  A packet owns      *)
(* native memory that release frees (model/PCMPacket.kt).  lock is         *)
(* playbackLock; the queue is safe for threads by itself.                  *)
(***************************************************************************)
EXTENDS Integers, Sequences, FiniteSets

CONSTANTS
    Adders,        \* threads that call addPacket and flushPlayback
    MaxBuffered,   \* MAX_BUFFERED_PACKETS, the capacity of the queue (128)
    MaxQueued,     \* maxQueuedPackets (96, 112)
    Prebuffer,     \* prebufferPackets (24, 32)
    PacketSize,    \* bytes of a packet (1920)
    Offsets,       \* values of audioSyncMs, in units of bytes
    MaxPackets,    \* packets handed over (bound)
    MaxFlushes     \* calls of flushPlayback (bound)

ASSUME BoundsAssumption ==
    /\ MaxQueued \in Nat \ {0} /\ MaxBuffered \in Nat /\ MaxBuffered >= MaxQueued
    /\ Prebuffer \in Nat /\ PacketSize \in Nat \ {0}
    /\ Offsets \subseteq Int /\ 0 \in Offsets
    /\ MaxPackets \in Nat /\ MaxFlushes \in Nat
    /\ Adders \cap {"none", "main", "player"} = {}

Callers == Adders \cup {"main"}

VARIABLES
    isStopped,
    packets,             \* the queue
    lock,                \* who holds playbackLock
    caller, packet,      \* by thread: where it is, the packet it adds or 0
    player, playing,     \* the player thread, and the packet it plays or 0
    drop,                \* what consumeInitialDrop returned
    track,               \* "paused", "playing", "released"
    hasStartedPlayback, hasAudioFocus,
    audioFocusRequest,   \* a request is kept
    focus,               \* the system gave the focus to this player
    audioSyncMs, pendingSilence, pendingDrop,
    silenceCut,          \* history: since the last flush, a write of the silence
                         \*   failed and the packets went on without the rest
    released,            \* packets whose memory is free
    handed,              \* history: who added the packets
    flushes, stale,      \* history: calls of flush; packets that were before it
    content, dropped     \* history: since the last flush, what was written
                         \*   (packets, 0 for silence) and dropped

focusVars == <<hasAudioFocus, audioFocusRequest, focus>>
syncVars == <<audioSyncMs, pendingSilence, pendingDrop, silenceCut>>
playerVars == <<player, playing, drop>>
trackVars == <<lock, track, hasStartedPlayback, content, dropped>>
flushVars == <<flushes, stale>>
vars == <<isStopped, packets, caller, packet, playerVars, trackVars, focusVars,
          syncVars, released, handed, flushVars>>

Init ==
    /\ isStopped = FALSE
    /\ packets = <<>> /\ lock = "none"
    /\ caller = [t \in Callers |-> "idle"] /\ packet = [t \in Callers |-> 0]
    /\ player = "top" /\ playing = 0 /\ drop = 0
    /\ track = "paused" /\ hasStartedPlayback = FALSE
    /\ hasAudioFocus = FALSE /\ audioFocusRequest = FALSE /\ focus = FALSE
    /\ audioSyncMs \in Offsets
    /\ pendingSilence = IF audioSyncMs > 0 THEN audioSyncMs ELSE 0
    /\ pendingDrop = IF audioSyncMs < 0 THEN -audioSyncMs ELSE 0
    /\ silenceCut = FALSE
    /\ released = {} /\ handed = <<>>
    /\ flushes = 0 /\ stale = {}
    /\ content = <<>> /\ dropped = 0

Goto(t, pc) == caller' = [caller EXCEPT ![t] = pc]

(***************************************************************************)
(* addPacket                                                               *)
(***************************************************************************)
Add(t) ==
    /\ caller[t] = "idle" /\ t # "main"
    /\ Len(handed) < MaxPackets
    /\ handed' = Append(handed, t)
    /\ packet' = [packet EXCEPT ![t] = Len(handed) + 1]
    /\ Goto(t, "trim")
    /\ UNCHANGED <<isStopped, packets, playerVars, trackVars, focusVars, syncVars,
                   released, flushVars>>

DropHead ==
    /\ packets # <<>>
    /\ packets' = Tail(packets)
    /\ released' = released \cup {Head(packets)}

(* The size is read, then the head is polled: another thread may come between. *)
trimBacklog(t) ==
    /\ caller[t] = "trim"
    /\ Goto(t, IF Len(packets) >= MaxQueued THEN "trimPoll" ELSE "offer")
    /\ UNCHANGED <<isStopped, packets, packet, playerVars, trackVars, focusVars,
                   syncVars, released, handed, flushVars>>

TrimPoll(t) ==
    /\ caller[t] = "trimPoll"
    /\ IF packets # <<>>
         THEN DropHead /\ Goto(t, "trim")
         ELSE Goto(t, "offer") /\ UNCHANGED <<packets, released>>
    /\ UNCHANGED <<isStopped, packet, playerVars, trackVars, focusVars, syncVars,
                   handed, flushVars>>

Offered(t) ==
    /\ packets' = Append(packets, packet[t])
    /\ packet' = [packet EXCEPT ![t] = 0]
    /\ Goto(t, "idle")
    /\ UNCHANGED released

Offer(t) ==
    /\ caller[t] = "offer"
    /\ IF Len(packets) < MaxBuffered THEN Offered(t)
       ELSE Goto(t, "full") /\ UNCHANGED <<packets, packet, released>>
    /\ UNCHANGED <<isStopped, playerVars, trackVars, focusVars, syncVars, handed,
                   flushVars>>

OfferFull(t) ==
    /\ caller[t] = "full"
    /\ IF packets # <<>> THEN DropHead ELSE UNCHANGED <<packets, released>>
    /\ Goto(t, "again")
    /\ UNCHANGED <<isStopped, packet, playerVars, trackVars, focusVars, syncVars,
                   handed, flushVars>>

OfferAgain(t) ==
    /\ caller[t] = "again"
    /\ IF Len(packets) < MaxBuffered THEN Offered(t)
       ELSE /\ released' = released \cup {packet[t]}
            /\ packet' = [packet EXCEPT ![t] = 0]
            /\ Goto(t, "idle")
            /\ UNCHANGED packets
    /\ UNCHANGED <<isStopped, playerVars, trackVars, focusVars, syncVars, handed,
                   flushVars>>

addPacket(t) ==
    \/ Add(t) \/ trimBacklog(t) \/ TrimPoll(t)
    \/ Offer(t) \/ OfferFull(t) \/ OfferAgain(t)

(***************************************************************************)
(* flushPlayback and setAudioSyncMs                                        *)
(***************************************************************************)
FlushBegin(t) ==
    /\ flushes < MaxFlushes
    /\ flushes' = flushes + 1
    /\ stale' = DOMAIN handed \ {packet[u] : u \in Adders}
    /\ Goto(t, "drain")

flushPlayback(t) ==
    /\ caller[t] = "idle" /\ t # "main"
    /\ FlushBegin(t)
    /\ UNCHANGED <<isStopped, packets, packet, playerVars, trackVars, focusVars,
                   syncVars, released, handed>>

setAudioSyncMs ==
    /\ caller["main"] = "idle"
    /\ \E syncMs \in Offsets \ {audioSyncMs} : audioSyncMs' = syncMs
    /\ FlushBegin("main")
    /\ UNCHANGED <<isStopped, packets, packet, playerVars, trackVars, focusVars,
                   pendingSilence, pendingDrop, silenceCut, released, handed>>

DrainOne(t) ==
    /\ caller[t] \in {"drain", "stopDrain"}
    /\ DropHead
    /\ UNCHANGED <<isStopped, caller, packet, playerVars, trackVars, focusVars,
                   syncVars, handed, flushVars>>

DrainDone(t) ==
    /\ caller[t] \in {"drain", "stopDrain"}
    /\ packets = <<>>
    /\ Goto(t, IF caller[t] = "drain" THEN "flush" ELSE "release")
    /\ UNCHANGED <<isStopped, packets, packet, playerVars, trackVars, focusVars,
                   syncVars, released, handed, flushVars>>

Reset(t, silence, initialDrop) ==
    /\ caller[t] = "flush" /\ lock = "none"
    /\ track' = IF track = "playing" THEN "paused" ELSE track
    /\ hasStartedPlayback' = FALSE
    /\ pendingSilence' = silence /\ pendingDrop' = initialDrop /\ silenceCut' = FALSE
    /\ content' = <<>> /\ dropped' = 0
    /\ Goto(t, "idle")
    /\ UNCHANGED <<isStopped, packets, lock, packet, playerVars, focusVars,
                   audioSyncMs, released, handed, flushVars>>

resetSyncState(t) ==
    Reset(t, IF audioSyncMs > 0 THEN audioSyncMs ELSE 0,
             IF audioSyncMs < 0 THEN -audioSyncMs ELSE 0)

(***************************************************************************)
(* stopPlay                                                                *)
(***************************************************************************)
stopPlay ==
    /\ caller["main"] = "idle" /\ ~isStopped
    /\ isStopped' = TRUE
    /\ Goto("main", "stopDrain")
    /\ UNCHANGED <<packets, packet, playerVars, trackVars, focusVars, syncVars,
                   released, handed, flushVars>>

ReleaseTrack ==
    /\ caller["main"] = "release" /\ lock = "none"
    /\ track' = "released" /\ content' = <<>>
    /\ Goto("main", "abandon")
    /\ UNCHANGED <<isStopped, packets, lock, packet, playerVars, hasStartedPlayback,
                   dropped, focusVars, syncVars, released, handed, flushVars>>


abandonAudioFocus ==
    /\ focus' = (focus /\ ~audioFocusRequest)
    /\ audioFocusRequest' = FALSE /\ hasAudioFocus' = FALSE

StopReturns ==
    /\ caller["main"] = "abandon"
    /\ abandonAudioFocus
    /\ Goto("main", "stopped")
    /\ UNCHANGED <<isStopped, packets, packet, playerVars, trackVars, syncVars,
                   released, handed, flushVars>>

(***************************************************************************)
(* The player thread                                                       *)
(***************************************************************************)
TopIf(ready) ==
    /\ player = "top" /\ ready
    /\ player' = IF isStopped THEN "exit" ELSE "poll"
    /\ UNCHANGED <<isStopped, packets, caller, packet, playing, drop, trackVars,
                   focusVars, syncVars, released, handed, flushVars>>

Primed == hasStartedPlayback \/ Len(packets) >= Prebuffer
(* Mutant: the wait for the prebuffer does not look at isStopped. *)
TopUnlessPriming == TopIf(Primed)
(* The loop's test of isStopped, and the wait for the prebuffer. *)
Top == TopIf(isStopped \/ Primed)

Poll ==
    /\ player = "poll"
    /\ packets # <<>>
    /\ playing' = Head(packets) /\ packets' = Tail(packets)
    /\ player' = IF ~hasStartedPlayback /\ ~hasAudioFocus THEN "request" ELSE "offset"
    /\ UNCHANGED <<isStopped, caller, packet, drop, trackVars, focusVars, syncVars,
                   released, handed, flushVars>>

(* The poll times out, or is interrupted. *)
PollNothing ==
    /\ player = "poll"
    /\ packets = <<>> \/ isStopped
    /\ player' = "top"
    /\ UNCHANGED <<isStopped, packets, caller, packet, playing, drop, trackVars,
                   focusVars, syncVars, released, handed, flushVars>>

RequestFocus ==
    /\ player = "request"
    /\ audioFocusRequest' = TRUE
    /\ player' = "granted"
    /\ UNCHANGED <<isStopped, packets, caller, packet, playing, drop, trackVars,
                   hasAudioFocus, focus, syncVars, released, handed, flushVars>>

FocusAnswer ==
    /\ player = "granted"
    /\ \E granted \in BOOLEAN : hasAudioFocus' = granted /\ focus' = (focus \/ granted)
    /\ player' = "offset"
    /\ UNCHANGED <<isStopped, packets, caller, packet, playing, drop, trackVars,
                   audioFocusRequest, syncVars, released, handed, flushVars>>

(* consumeInitialDrop reads the field, and writes it without a lock. *)
ReadDrop ==
    /\ player = "offset"
    /\ drop' = IF pendingDrop <= 0 THEN 0
               ELSE IF pendingDrop < PacketSize THEN pendingDrop ELSE PacketSize
    /\ player' = IF pendingDrop <= 0 THEN "play" ELSE "consume"
    /\ UNCHANGED <<isStopped, packets, caller, packet, playing, trackVars, focusVars,
                   syncVars, released, handed, flushVars>>

ConsumeTo(pending) ==
    /\ player = "consume"
    /\ pendingDrop' = pending
    /\ dropped' = dropped + drop
    /\ player' = IF drop >= PacketSize THEN "free" ELSE "play"
    /\ UNCHANGED <<isStopped, packets, caller, packet, playing, drop, lock, track,
                   hasStartedPlayback, content, focusVars, audioSyncMs,
                   pendingSilence, silenceCut, released, handed, flushVars>>

(* Mutant: the drop ends with its first packet. *)
ConsumeOnce == ConsumeTo(0)
ConsumeDrop == ConsumeTo(pendingDrop - drop)

PlayNoTrack ==
    /\ player = "play" /\ lock = "none"
    /\ track = "released"
    /\ player' = "free"
    /\ UNCHANGED <<isStopped, packets, caller, packet, playing, drop, trackVars,
                   focusVars, syncVars, released, handed, flushVars>>

(* The silence of a positive offset goes first.  A write of it that fails,  *)
(* or the stop of the player, ends it: as playback has started, what is     *)
(* left of it is not written any more (AudioPlayer.kt:256-272).             *)
PlayBegin ==
    /\ player = "play" /\ lock = "none"
    /\ track # "released"
    /\ lock' = "player"
    /\ IF hasStartedPlayback
         THEN UNCHANGED <<track, hasStartedPlayback, content, pendingSilence, silenceCut>>
         ELSE /\ track' = "playing" /\ hasStartedPlayback' = TRUE
              /\ \E n \in 0 .. pendingSilence :
                   /\ content' = content \o [i \in 1 .. n |-> 0]
                   /\ pendingSilence' = pendingSilence - n
                   /\ silenceCut' = (silenceCut \/ n < pendingSilence)
    /\ player' = "writing"
    /\ UNCHANGED <<isStopped, packets, caller, packet, playing, drop, dropped,
                   focusVars, audioSyncMs, pendingDrop, released, handed, flushVars>>

PlayTo(next) ==
    /\ player = "writing"
    /\ lock' = "none"
    /\ content' = Append(content, playing)
    /\ player' = next
    /\ UNCHANGED <<isStopped, packets, caller, packet, playing, drop, track,
                   hasStartedPlayback, dropped, focusVars, syncVars, released,
                   handed, flushVars>>

(* Mutants: the packet is kept; the packet is written once more. *)
WriteKeeps == PlayTo("top")
WriteAgain == PlayTo("play") \/ PlayTo("free")
Write == PlayTo("free")

(* The blocking write fails, or writes nothing.  (A packet that is written  *)
(* in part counts as written: the code does not write the rest.)            *)
WriteFails ==
    /\ player = "writing"
    /\ lock' = "none"
    /\ player' \in {"free", "short"}
    /\ UNCHANGED <<isStopped, packets, caller, packet, playing, drop, track,
                   hasStartedPlayback, content, dropped, focusVars, syncVars,
                   released, handed, flushVars>>

handleShortWrite ==
    /\ player = "short" /\ lock = "none"
    /\ hasStartedPlayback' = (hasStartedPlayback /\ track = "playing")
    /\ player' = "free"
    /\ UNCHANGED <<isStopped, packets, caller, packet, playing, drop, lock, track,
                   content, dropped, focusVars, syncVars, released, handed, flushVars>>

PlayDone ==
    /\ player = "free"
    /\ released' = released \cup {playing}
    /\ playing' = 0 /\ drop' = 0
    /\ player' = "top"
    /\ UNCHANGED <<isStopped, packets, caller, packet, trackVars, focusVars, syncVars,
                   handed, flushVars>>

Exit ==
    /\ player = "exit"
    /\ abandonAudioFocus
    /\ player' = "ended"
    /\ UNCHANGED <<isStopped, packets, caller, packet, playing, drop, trackVars,
                   syncVars, released, handed, flushVars>>

PlayerThread ==
    \/ Top \/ Poll \/ PollNothing \/ RequestFocus \/ FocusAnswer \/ ReadDrop
    \/ ConsumeDrop \/ PlayNoTrack \/ PlayBegin \/ Write \/ WriteFails
    \/ handleShortWrite \/ PlayDone \/ Exit
Flush(t) == DrainOne(t) \/ DrainDone(t) \/ resetSyncState(t)
Stop == DrainOne("main") \/ DrainDone("main") \/ ReleaseTrack \/ StopReturns

Next ==
    \/ \E t \in Adders : addPacket(t) \/ flushPlayback(t)
    \/ setAudioSyncMs \/ stopPlay \/ \E t \in Callers : Flush(t)
    \/ Stop \/ PlayerThread

(* The threads are scheduled; nobody need add, flush or stop. *)
Fairness ==
    /\ WF_vars(PlayerThread) /\ WF_vars(Stop)
    /\ \A t \in Callers : WF_vars(Flush(t))

Spec == Init /\ [][Next]_vars /\ Fairness

-----------------------------------------------------------------------------
IsAdded == DOMAIN handed
InQueue == {packets[i] : i \in DOMAIN packets}
NobodyFlushes == \A t \in Callers : caller[t] \notin {"drain", "flush"}
InHand == ({packet[t] : t \in Adders} \cup {playing}) \ {0}

(* Types; playbackLock is held during a blocking write and only there; the  *)
(* silence that is due is never negative.                                   *)
AudioTypeOK ==
    /\ packets \in Seq(IsAdded) /\ Len(packets) <= MaxBuffered
    /\ released \subseteq IsAdded /\ stale \subseteq IsAdded
    /\ playing \in {0} \cup IsAdded /\ drop \in 0 .. PacketSize
    /\ audioSyncMs \in Offsets /\ pendingSilence \in Nat /\ pendingDrop \in Int
    /\ lock = "player" <=> player = "writing"
    /\ playing # 0 <=> player \notin {"top", "poll", "exit", "ended"}

(* Every packet has one owner and is released when it has none: it waits,   *)
(* or a thread has it in its hands, or its memory is free, and never two    *)
(* of them (PCMPacket.kt: the memory is native).                            *)
AudioOwned ==
    /\ AudioTypeOK
    /\ released = IsAdded \ (InQueue \cup InHand)
    /\ InQueue \cap InHand = {}
    /\ Cardinality(InQueue) = Len(packets)

(* What one thread added is heard in its order and once, across trims,      *)
(* flushes and failed writes.                                               *)
HeardInOrder ==
    \A i, j \in DOMAIN content :
        i < j /\ content[i] # 0 /\ content[j] # 0
            /\ handed[content[i]] = handed[content[j]] => content[i] < content[j]

(* A stopped player ends: its thread and the call of stopPlay, also while   *)
(* it waits for its prebuffer, for the focus or in a write.                 *)
StopEnds == isStopped ~> player = "ended" /\ caller["main"] = "stopped"

(* After a flush nothing is heard of what was there before                  *)
(* (docs/performance.md: re-primed, deterministic).                         *)
FlushedUnheard ==
    NobodyFlushes => \A i \in DOMAIN content : content[i] \notin stale

(* The packets that were added are all freed after the player has ended     *)
(* (docs/performance.md: release after write, decode, or drop).             *)
StoppedReleased ==
    player = "ended" /\ caller["main"] = "stopped"
        /\ (\A t \in Adders : caller[t] = "idle") => released = IsAdded

(* Whenever a packet is heard, the silence written and the PCM dropped      *)
(* before it are what the offset asks for (docs/architecture.md: the offset *)
(* takes effect deterministically after flush or start)...                  *)
OffsetApplied ==
    ~isStopped /\ NobodyFlushes /\ (\E i \in DOMAIN content : content[i] # 0) =>
        Cardinality({i \in DOMAIN content : content[i] = 0}) - dropped = audioSyncMs

(* ... after a start: the drop goes over as many packets as it takes, with  *)
(* whatever the queue loses meanwhile, and the silence goes first, unless   *)
(* the track did not take all of it (AudioPlayer.kt:243-272).               *)
OffsetAtStart == flushes = 0 /\ ~silenceCut => OffsetApplied
==============================================================================
