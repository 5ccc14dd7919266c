------------------------------- MODULE RaopUdp -------------------------------
(***************************************************************************)
(* The UDP thread of an audio session (raop_rtp_thread_udp in              *)
(* cpp/lib/raop_rtp.c) over the jitter buffer: it serves the mailbox the   *)
(* HTTP thread writes, waits in select, queues what the data and control   *)
(* sockets bring, plays out all it can and asks for what is missing.       *)
(* The network may lose, repeat and reorder packets.                       *)
(***************************************************************************)
EXTENDS RaopBuffer

CONSTANT ControlPorts   \* values raop_rtp_start_audio may get for control_rport

NO_FLUSH == -42

VARIABLES
    pc,            \* where the thread is: "events", "select", "data", "drain",
                   \* "resends", "exit"
    rtp_running,   \* running of raop_rtp_s, which raop_rtp_stop clears
    flush,         \* mailbox: a packet to go on at, -1, or NO_FLUSH
    control_rport, \* the sender's control port, 0 if it is not known
    floor          \* history: the oldest packet that may still be played

udpVars == <<pc, rtp_running, flush, control_rport, floor>>
bufVars == <<is_empty, first_seqnum, last_seqnum, entries, first_abs, last_abs, ret>>
allVars == <<bufVars, udpVars>>

UdpInit ==
    /\ Init
    /\ pc = "events"
    /\ rtp_running = TRUE
    /\ flush = NO_FLUSH
    /\ control_rport \in ControlPorts
    /\ floor = 0

no_resend == control_rport = 0

(***************************************************************************)
(* raop_rtp_process_events: leave the loop, or take the mailbox and flush. *)
(* A flush of a buffer that is empty does not hold back older packets.     *)
(***************************************************************************)
EventsExit ==
    /\ pc = "events"
    /\ ~rtp_running
    /\ pc' = "exit"
    /\ UNCHANGED <<bufVars, rtp_running, flush, control_rport, floor>>

EventsNone ==
    /\ pc = "events"
    /\ rtp_running
    /\ flush = NO_FLUSH
    /\ pc' = "select"
    /\ UNCHANGED <<bufVars, rtp_running, flush, control_rport, floor>>

EventsFlush ==
    /\ pc = "events"
    /\ rtp_running
    /\ \/ /\ flush >= 0
          /\ FlushTo(flush)
          /\ floor' = IF is_empty THEN floor ELSE flush
       \/ /\ flush = -1
          /\ FlushAll
          /\ floor' = 0
    /\ flush' = NO_FLUSH
    /\ pc' = "select"
    /\ UNCHANGED <<rtp_running, control_rport>>

(* select times out after 5 ms, or fails and ends the thread. *)
SelectTimeout ==
    /\ pc = "select"
    /\ pc' = "events"
    /\ UNCHANGED <<bufVars, rtp_running, flush, control_rport, floor>>

SelectError ==
    /\ pc = "select"
    /\ pc' = "exit"
    /\ UNCHANGED <<bufVars, rtp_running, flush, control_rport, floor>>

(***************************************************************************)
(* The control socket: a retransmitted packet is queued, and nothing is    *)
(* played; anything else is ignored.  The data socket may be ready too.    *)
(***************************************************************************)
ControlPacket ==
    /\ pc = "select"
    /\ \/ \E n \in Packets : Queue(n)
       \/ QueueNoAudio(0)
       \/ UNCHANGED bufVars
    /\ pc' \in {"events", "data"}
    /\ UNCHANGED <<rtp_running, flush, control_rport, floor>>

DataPacket ==
    /\ pc \in {"select", "data"}
    /\ \/ \E n \in Packets : Queue(n)
       \/ QueueNoAudio(0)
    /\ pc' = "drain"
    /\ UNCHANGED <<rtp_running, flush, control_rport, floor>>

(* A datagram too short for a packet. *)
DataRunt ==
    /\ pc \in {"select", "data"}
    /\ pc' = "events"
    /\ UNCHANGED <<bufVars, rtp_running, flush, control_rport, floor>>

(* Play frames until the buffer has none to give. *)
DrainFrame ==
    /\ pc = "drain"
    /\ DequeueFrame(no_resend)
    /\ floor' = first_abs + 1
    /\ UNCHANGED <<pc, rtp_running, flush, control_rport>>

(* Mutant: the sockets are read until they are dry, then the mailbox. *)
DrainThenSelect ==
    /\ pc = "drain"
    /\ DequeueNothing(no_resend)
    /\ pc' = IF no_resend THEN "select" ELSE "resends"
    /\ UNCHANGED <<rtp_running, flush, control_rport, floor>>

DrainDone ==
    /\ pc = "drain"
    /\ DequeueNothing(no_resend)
    /\ pc' = IF no_resend THEN "events" ELSE "resends"
    /\ UNCHANGED <<rtp_running, flush, control_rport, floor>>

AskForResends ==
    /\ pc = "resends"
    /\ HandleResends
    /\ pc' = "events"
    /\ UNCHANGED <<rtp_running, flush, control_rport, floor>>

UdpThread ==
    \/ EventsExit \/ EventsNone \/ EventsFlush
    \/ SelectTimeout \/ SelectError \/ ControlPacket \/ DataPacket \/ DataRunt
    \/ DrainFrame \/ DrainDone \/ AskForResends

(***************************************************************************)
(* The HTTP thread: raop_rtp_flush writes the mailbox at any moment, and   *)
(* overwrites what is there; raop_rtp_stop clears rtp_running.             *)
(***************************************************************************)
RaopRtpFlush ==
    /\ \E next_seq \in Packets \cup {-1} : flush' = next_seq
    /\ UNCHANGED <<bufVars, pc, rtp_running, control_rport, floor>>

RaopRtpStop ==
    /\ rtp_running
    /\ rtp_running' = FALSE
    /\ UNCHANGED <<bufVars, pc, flush, control_rport, floor>>

UdpNext == UdpThread \/ RaopRtpFlush \/ RaopRtpStop

(* The thread is scheduled: it never stops where it could go on. *)
UdpSpec == UdpInit /\ [][UdpNext]_allVars /\ WF_allVars(UdpThread)

-----------------------------------------------------------------------------
(* A step in which the play-out loop hands a frame to audio_process. *)
FramePlayed == pc = "drain" /\ pc' = "drain" /\ ret'.call = "dequeue" /\ first_abs' # first_abs

(***************************************************************************)
(* What audio_process gets is in stream order and each packet at most      *)
(* once, whichever socket brought it and however often, between flushes;   *)
(* and after FLUSH with a sequence number nothing older is played, if the  *)
(* buffer had received anything (raop_rtp.c:304-309, 520-526).             *)
(***************************************************************************)
PlayedInOrder ==
    [][FramePlayed => \A n \in ret'.audio : n >= floor]_allVars

(***************************************************************************)
(* A FLUSH is served: neither a stream of packets nor the play-out loop    *)
(* keeps the running thread from its mailbox (raop_rtp.c:452, 520).        *)
(***************************************************************************)
FlushServed ==
    flush # NO_FLUSH ~> flush = NO_FLUSH \/ pc = "exit"

(***************************************************************************)
(* "Return nothing and hope resend gets on time" (raop_buffer.c:524): a    *)
(* packet is replaced by silence only when the ring is full.               *)
(***************************************************************************)
SilenceOnlyWhenFull ==
    [][(FramePlayed /\ ret'.audio = {}) => buflen >= BufLen]_allVars
=============================================================================
