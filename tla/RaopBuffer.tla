----------------------------- MODULE RaopBuffer -----------------------------
(***************************************************************************)
(* The RAOP audio jitter buffer, cpp/lib/raop_buffer.c: a ring of BufLen   *)
(* slots addressed by 16-bit RTP sequence numbers that wrap.  One action   *)
(* per function; the only client is the UDP thread of raop_rtp.c, whose    *)
(* order of calls is RaopUdp's business: here any call may follow any.     *)
(*                                                                         *)
(* A packet is named by its place n in the sender's stream, which does not *)
(* wrap; the program only ever sees n % SeqMod.  The payload of a packet,  *)
(* decrypted and decoded, is stood for by n.                               *)
(***************************************************************************)
EXTENDS Integers

CONSTANTS
    BufLen,    \* RAOP_BUFFER_LENGTH: slots in the ring (64)
    SeqMod,    \* values of an unsigned short (65536)
    Packets    \* the packets of the stream

Half == SeqMod \div 2

ASSUME BufLenAssumption ==
    /\ BufLen \in Nat \ {0}
    /\ SeqMod \in Nat \ {0}
    /\ SeqMod = 2 * Half
    /\ BufLen < Half
    /\ \E k \in 1..SeqMod : SeqMod = BufLen * k

ASSUME PacketsAssumption == Packets \subseteq Nat

VARIABLES
    is_empty,      \* no packet queued since the last full flush
    first_seqnum,  \* sequence number due to be played
    last_seqnum,   \* newest sequence number received
    entries,       \* the ring
    first_abs,     \* history: the packet first_seqnum stands for
    last_abs,      \* history: the packet last_seqnum stands for
    ret            \* what the last call returned to the client

vars == <<is_empty, first_seqnum, last_seqnum, entries, first_abs, last_abs, ret>>

Slots == 0..(BufLen - 1)
SeqNums == 0..(SeqMod - 1)
SeqNum(n) == n % SeqMod

(* Mutant: the difference is not brought back to 16 bits. *)
SeqnumCmpUnwrapped(s1, s2) == s1 - s2

(* seqnum_cmp: the difference of two unsigned shorts, read as a short. *)
seqnum_cmp(s1, s2) ==
    LET d == (s1 - s2) % SeqMod IN IF d < Half THEN d ELSE d - SeqMod

(* A slot that is not available; what it held before is never read again. *)
Blank == [available |-> FALSE, seqnum |-> 0, audio |-> 0]

Entry(n) == [available |-> TRUE, seqnum |-> SeqNum(n), audio |-> n]

Slot(s) == s % BufLen

EntryType == [available : BOOLEAN, seqnum : SeqNums, audio : Nat]

Init ==
    /\ is_empty = TRUE
    /\ first_seqnum = 0
    /\ last_seqnum = 0
    /\ entries = [i \in Slots |-> Blank]
    /\ first_abs = 0
    /\ last_abs = 0
    /\ ret = [call |-> "init"]

(***************************************************************************)
(* raop_buffer_queue                                                       *)
(***************************************************************************)

(***************************************************************************)
(* The network: a packet that arrives while the buffer runs is less than   *)
(* half the sequence space away from the packet due.  (32768 packets are   *)
(* some six minutes of audio.)                                             *)
(***************************************************************************)
InReach(n) ==
    is_empty \/ (first_abs - Half <= n /\ n < first_abs + Half)

Late(s) == ~is_empty /\ seqnum_cmp(s, first_seqnum) < 0

(* Mutant: off by one, a window of BufLen + 1 packets. *)
OverrunsLate(s) == seqnum_cmp(s, SeqNum(first_seqnum + BufLen)) > 0

Overruns(s) == seqnum_cmp(s, SeqNum(first_seqnum + BufLen)) >= 0

Duplicate(s) ==
    LET e == entries[Slot(s)] IN e.available /\ seqnum_cmp(e.seqnum, s) = 0

(* A packet that is too old, or that is here already, is dropped. *)
QueueDrop(n) ==
    LET s == SeqNum(n) IN
    /\ \/ Late(s)
       \/ ~Overruns(s) /\ Duplicate(s)
    /\ ret' = [call |-> "queue", val |-> 0]
    /\ UNCHANGED <<is_empty, first_seqnum, last_seqnum, entries, first_abs, last_abs>>

(* The packet fits between first_seqnum and the end of the ring. *)
QueueStore(n) ==
    LET s == SeqNum(n) IN
    /\ ~Late(s)
    /\ ~Overruns(s)
    /\ ~Duplicate(s)
    /\ entries' = [entries EXCEPT ![Slot(s)] = Entry(n)]
    /\ is_empty' = FALSE
    /\ first_seqnum' = IF is_empty THEN s ELSE first_seqnum
    /\ first_abs' = IF is_empty THEN n ELSE first_abs
    /\ LET newest == is_empty \/ seqnum_cmp(s, last_seqnum) > 0 IN
         /\ last_seqnum' = IF newest THEN s ELSE last_seqnum
         /\ last_abs' = IF newest THEN n ELSE last_abs
    /\ ret' = [call |-> "queue", val |-> 1]

(* The packet is beyond the ring: flush(seqnum) first, then store it. *)
QueueOverrun(n) ==
    LET s == SeqNum(n) IN
    /\ ~Late(s)
    /\ Overruns(s)
    /\ entries' = [i \in Slots |-> IF i = Slot(s) THEN Entry(n) ELSE Blank]
    /\ is_empty' = FALSE
    /\ first_seqnum' = s
    /\ last_seqnum' = s
    /\ first_abs' = n
    /\ last_abs' = n
    /\ ret' = [call |-> "queue", val |-> 1]

Queue(n) ==
    /\ InReach(n)
    /\ QueueDrop(n) \/ QueueStore(n) \/ QueueOverrun(n)

(* The sender's "no audio" marker (0) and a datagram of a bad length (-1). *)
QueueNoAudio(v) ==
    /\ ret' = [call |-> "queue", val |-> v]
    /\ UNCHANGED <<is_empty, first_seqnum, last_seqnum, entries, first_abs, last_abs>>

(***************************************************************************)
(* raop_buffer_dequeue                                                     *)
(***************************************************************************)
buflen == seqnum_cmp(last_seqnum, first_seqnum) + 1

FirstEntry == entries[Slot(first_seqnum)]

CanDequeue(no_resend) ==
    /\ ~is_empty
    /\ buflen > 0
    /\ no_resend \/ FirstEntry.available \/ buflen >= BufLen

DequeueNothing(no_resend) ==
    /\ ~CanDequeue(no_resend)
    /\ ret' = [call |-> "none"]
    /\ UNCHANGED <<is_empty, first_seqnum, last_seqnum, entries, first_abs, last_abs>>

(* The first frame, or silence in its place: a set of at most one packet. *)
DequeueFrame(no_resend) ==
    /\ CanDequeue(no_resend)
    /\ ret' = [call |-> "dequeue",
               audio |-> IF FirstEntry.available THEN {FirstEntry.audio} ELSE {}]
    /\ first_seqnum' = SeqNum(first_seqnum + 1)
    /\ first_abs' = first_abs + 1
    /\ entries' = [entries EXCEPT ![Slot(first_seqnum)] = Blank]
    /\ UNCHANGED <<is_empty, last_seqnum, last_abs>>

Dequeue(no_resend) == DequeueNothing(no_resend) \/ DequeueFrame(no_resend)

(***************************************************************************)
(* raop_buffer_handle_resends: scan from first_seqnum to the first entry   *)
(* available, or to last_seqnum, and ask for what was passed over.  The    *)
(* code looks at first_seqnum and last_seqnum only, never at is_empty.     *)
(***************************************************************************)
Gap ==
    LET span == seqnum_cmp(last_seqnum, first_seqnum)
        Stops == {i \in 0..span :
                    i = span \/ entries[Slot(SeqNum(first_seqnum + i))].available}
    IN  IF span <= 0 THEN 0
        ELSE CHOOSE i \in Stops : \A j \in Stops : i <= j

HandleResends ==
    /\ ret' = [call |-> "resend", from |-> first_seqnum, count |-> Gap]
    /\ UNCHANGED <<is_empty, first_seqnum, last_seqnum, entries, first_abs, last_abs>>

(***************************************************************************)
(* raop_buffer_flush                                                       *)
(***************************************************************************)

(* Mutant: the slots keep their packets. *)
FlushKeepsSlots(n) ==
    /\ first_seqnum' = SeqNum(n)
    /\ last_seqnum' = SeqNum(n - 1)
    /\ first_abs' = n
    /\ last_abs' = n - 1
    /\ ret' = [call |-> "flush"]
    /\ UNCHANGED <<is_empty, entries>>

(* next_seq is a sequence number: that of packet n. *)
FlushTo(n) ==
    /\ entries' = [i \in Slots |-> Blank]
    /\ first_seqnum' = SeqNum(n)
    /\ last_seqnum' = SeqNum(n - 1)
    /\ first_abs' = n
    /\ last_abs' = n - 1
    /\ ret' = [call |-> "flush"]
    /\ UNCHANGED is_empty

(* next_seq is -1 (no RTP-Info, configure, stop): the seqnums are left. *)
FlushAll ==
    /\ entries' = [i \in Slots |-> Blank]
    /\ is_empty' = TRUE
    /\ ret' = [call |-> "flush"]
    /\ UNCHANGED <<first_seqnum, last_seqnum, first_abs, last_abs>>

Next ==
    \/ \E n \in Packets : Queue(n)
    \/ \E v \in {-1, 0} : QueueNoAudio(v)
    \/ \E no_resend \in BOOLEAN : Dequeue(no_resend)
    \/ HandleResends
    \/ \E n \in Packets : FlushTo(n)
    \/ FlushAll

Spec == Init /\ [][Next]_vars

-----------------------------------------------------------------------------
RetType ==
    [call : {"init", "none", "flush"}]
      \cup [call : {"queue"}, val : {-1, 0, 1}]
      \cup [call : {"dequeue"}, audio : SUBSET Nat]
      \cup [call : {"resend"}, from : SeqNums, count : 0..BufLen]

(* Type invariant: every field of raop_buffer_s keeps its C range. *)
TypeOK ==
    /\ is_empty \in BOOLEAN
    /\ first_seqnum \in SeqNums
    /\ last_seqnum \in SeqNums
    /\ entries \in [Slots -> EntryType]
    /\ first_abs \in Nat
    /\ last_abs \in Int
    /\ ret \in RetType

(* The 16-bit fields name the packets the history says they name. *)
SeqNumsOK ==
    /\ first_seqnum = SeqNum(first_abs)
    /\ last_seqnum = SeqNum(last_abs)

(***************************************************************************)
(* The ring never spans more than BufLen packets, across wrap-around, and  *)
(* never fewer than none: the signed 16-bit buflen raop_buffer_dequeue     *)
(* computes (raop_buffer.c:511) is the true number.  The bound on the      *)
(* stale seqnums of a flushed buffer is what keeps handle_resends finite.  *)
(***************************************************************************)
WindowInv ==
    /\ first_abs - 1 <= last_abs
    /\ last_abs < first_abs + BufLen

(***************************************************************************)
(* A slot that is available holds a packet of the window, in the slot its  *)
(* sequence number selects: no packet of an earlier lap of the ring can be *)
(* mistaken for the one that is due.                                       *)
(***************************************************************************)
SlotInv ==
    \A i \in Slots : entries[i].available =>
        /\ ~is_empty
        /\ first_abs <= entries[i].audio
        /\ entries[i].audio <= last_abs
        /\ i = Slot(entries[i].audio)
        /\ entries[i].seqnum = SeqNum(entries[i].audio)

(* The newest packet of a window that is not played out is in its slot. *)
NewestInv ==
    ~is_empty /\ first_abs <= last_abs => entries[Slot(last_seqnum)].available

IInv == TypeOK /\ SeqNumsOK /\ WindowInv /\ SlotInv /\ NewestInv

(* The packets in the ring. *)
Held == {entries[i].audio : i \in {j \in Slots : entries[j].available}}

(***************************************************************************)
(* The buffer plays the stream in order, each packet at most once between  *)
(* flushes, silence only for a packet that is missing, and asks again for  *)
(* exactly the packets that are missing: AudioPlayout, with the packets    *)
(* held read off the ring.  16-bit wrap-around is invisible.               *)
(***************************************************************************)
Playout == INSTANCE AudioPlayout WITH
    started <- ~is_empty, next <- first_abs, held <- Held

PlayoutSpec == Playout!Spec
=============================================================================
