---------------------------- MODULE AudioPlayout ----------------------------
(***************************************************************************)
(* What the RAOP audio buffer (cpp/lib/raop_buffer.c) promises to its      *)
(* client, said without a ring, without slots and without 16-bit sequence  *)
(* numbers: packets are numbered by naturals that never wrap, and the      *)
(* buffer is the set of packets received and not yet played, all of them   *)
(* in a window of BufLen packets that starts at the next one to play.      *)
(* RaopBuffer implements this specification.                               *)
(***************************************************************************)
EXTENDS Integers

CONSTANTS
    BufLen,    \* packets the window spans (RAOP_BUFFER_LENGTH)
    SeqMod,    \* sequence numbers on the wire are modulo this (2^16)
    Packets    \* the packets of the stream, named by their place in it

VARIABLES
    started,   \* a packet has been received since the last full flush
    next,      \* the packet due to be played
    held,      \* packets received and not yet played
    ret        \* what the last call returned

vars == <<started, next, held, ret>>

Init ==
    /\ started = FALSE
    /\ next = 0
    /\ held = {}
    /\ ret = [call |-> "init"]

(***************************************************************************)
(* A packet arrives.  The first one sets the position; one that comes too  *)
(* late, or comes again, is ignored; one beyond the window restarts the    *)
(* window at itself and gives up what was waiting.                         *)
(***************************************************************************)
Receive(n) ==
    \/ /\ ~started
       /\ started' = TRUE
       /\ next' = n
       /\ held' = {n}
       /\ ret' = [call |-> "queue", val |-> 1]
    \/ /\ started
       /\ n < next \/ n \in held
       /\ ret' = [call |-> "queue", val |-> 0]
       /\ UNCHANGED <<started, next, held>>
    \/ /\ started
       /\ n >= next
       /\ n < next + BufLen
       /\ n \notin held
       /\ held' = held \cup {n}
       /\ ret' = [call |-> "queue", val |-> 1]
       /\ UNCHANGED <<started, next>>
    \/ /\ started
       /\ n >= next + BufLen
       /\ next' = n
       /\ held' = {n}
       /\ ret' = [call |-> "queue", val |-> 1]
       /\ UNCHANGED started

(* A packet without audio changes nothing. *)
Ignore(v) ==
    /\ ret' = [call |-> "queue", val |-> v]
    /\ UNCHANGED <<started, next, held>>

Playable(noResend) ==
    /\ started
    /\ held # {}
    /\ noResend \/ next \in held \/ next + BufLen - 1 \in held

(***************************************************************************)
(* The client asks for the next frame: the packet due, in stream order, or *)
(* silence in its place when it is missing and nothing can be gained by    *)
(* waiting for it, or nothing.                                             *)
(***************************************************************************)
Play(noResend) ==
    \/ /\ Playable(noResend)
       /\ ret' = [call |-> "dequeue",
                  audio |-> IF next \in held THEN {next} ELSE {}]
       /\ next' = next + 1
       /\ held' = held \ {next}
       /\ UNCHANGED started
    \/ /\ ~Playable(noResend)
       /\ ret' = [call |-> "none"]
       /\ UNCHANGED <<started, next, held>>

(***************************************************************************)
(* The packets to ask the sender for again: exactly the gap in front of    *)
(* the first packet held.  Before the first packet nothing is promised.    *)
(***************************************************************************)
AskResend ==
    /\ ret' \in [call : {"resend"}, from : 0..(SeqMod - 1), count : 0..BufLen]
    /\ started =>
         /\ ret'.count = 0 <=> held = {} \/ next \in held
         /\ ret'.count > 0 =>
              /\ ret'.from = next % SeqMod
              /\ next + ret'.count \in held
              /\ \A i \in 0..(ret'.count - 1) : next + i \notin held
    /\ UNCHANGED <<started, next, held>>

(* FLUSH with a sequence number: what is held is given up, play goes on there. *)
SkipTo(n) ==
    /\ next' = n
    /\ held' = {}
    /\ ret' = [call |-> "flush"]
    /\ UNCHANGED started

(* FLUSH without one: the next packet received sets the position. *)
Reset ==
    /\ started' = FALSE
    /\ held' = {}
    /\ ret' = [call |-> "flush"]
    /\ UNCHANGED next

Next ==
    \/ \E n \in Packets : Receive(n)
    \/ \E v \in {-1, 0} : Ignore(v)
    \/ \E noResend \in BOOLEAN : Play(noResend)
    \/ AskResend
    \/ \E n \in Packets : SkipTo(n)
    \/ Reset

Spec == Init /\ [][Next]_vars
=============================================================================
