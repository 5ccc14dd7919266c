--------------------------- MODULE RaopUdp_proofs ----------------------------
(***************************************************************************)
(* Proofs about an audio session.  RaopBuffer: 16-bit arithmetic is exact  *)
(* inside the window, the ring invariants hold, and the buffer implements  *)
(* AudioPlayout.  RaopUdp: the thread calls the buffer as RaopBuffer       *)
(* allows, so it has both, and what it plays is in order and not older     *)
(* than a flush.  RaopRtp: the session outlives its threads and loses no   *)
(* update of its mailbox.                                                  *)
(***************************************************************************)
EXTENDS RaopUdp, RaopRtp, WellFoundedInduction, TLAPS

(***************************************************************************)
(* Arithmetic of wrapping sequence numbers and slots                       *)
(***************************************************************************)

(* Sizes are positive naturals and half the sequence space holds the ring. *)
LEMMA Sizes ==
    /\ BufLen \in Nat \ {0}
    /\ SeqMod \in Nat \ {0}
    /\ Half \in Nat \ {0}
    /\ SeqMod = 2 * Half
    /\ BufLen < Half
  BY BufLenAssumption DEF Half

(* The number of a packet on the wire is an unsigned 16-bit value. *)
LEMMA SeqNumRange == ASSUME NEW a \in Int PROVE SeqNum(a) \in SeqNums
  BY Sizes DEF SeqNum, SeqNums

(* The slot a sequence number selects is in the ring. *)
LEMMA SlotRange == ASSUME NEW a \in Int PROVE Slot(a) \in Slots
  BY Sizes DEF Slot, Slots

(* Quotient and remainder by a positive number. *)
LEMMA Division ==
    ASSUME NEW m \in Nat \ {0}, NEW a \in Int
    PROVE  /\ a \div m \in Int
           /\ a % m \in 0..(m - 1)
           /\ a = m * (a \div m) + (a % m)
  OBVIOUS

(* The remainder is the only number of its range that differs by a multiple. *)
LEMMA Remainder ==
    ASSUME NEW m \in Nat \ {0}, NEW q \in Int, NEW r \in 0..(m - 1)
    PROVE  (m * q + r) % m = r
  OBVIOUS

(* A multiple of the modulus may be added. *)
LEMMA ModShift ==
    ASSUME NEW m \in Nat \ {0}, NEW a \in Int, NEW k \in Int
    PROVE  (a + m * k) % m = a % m
  <1>1. a + m * k = m * ((a \div m) + k) + (a % m)
    BY Division
  <1>2. (m * ((a \div m) + k) + (a % m)) % m = a % m
    <2>1. (a \div m) + k \in Int /\ a % m \in 0..(m - 1)
      BY Division
    <2> QED
      BY <2>1, Remainder
  <1> QED
    BY <1>1, <1>2

(* Numbers that agree modulo m and differ by less than m are equal. *)
LEMMA ModInjective ==
    ASSUME NEW m \in Nat \ {0}, NEW a \in Int, NEW b \in Int,
           a % m = b % m, -m < a - b, a - b < m
    PROVE  a = b
  <1> DEFINE k == (a \div m) - (b \div m)
  <1>1. k \in Int /\ a - b = m * k
    BY Division
  <1>2. CASE k >= 1
    <2>1. m * k >= m
      BY <1>1, <1>2
    <2> QED
      BY <1>1, <2>1
  <1>3. CASE k <= -1
    <2>1. m * k <= -m
      BY <1>1, <1>3
    <2> QED
      BY <1>1, <2>1
  <1> QED
    BY <1>1, <1>2, <1>3

(* A number on the wire is the packet's place, some whole laps away. *)
LEMMA Laps ==
    ASSUME NEW a \in Int
    PROVE  \E q \in Int : SeqNum(a) = a + SeqMod * q
  <1>1. PICK d \in Int : a = SeqMod * d + (a % SeqMod)
    BY Sizes, Division
  <1>2. a % SeqMod \in Int
    BY Sizes, Division
  <1>3. SeqMod * d \in Int /\ SeqMod * (-d) = -(SeqMod * d)
    BY Sizes
  <1>4. a % SeqMod = a + SeqMod * (-d)
    BY <1>1, <1>2, <1>3
  <1> QED
    BY <1>4 DEF SeqNum

(* seqnum_cmp is the true distance of packets half the space apart or less. *)
LEMMA CmpExact ==
    ASSUME NEW a \in Int, NEW b \in Int, -Half <= a - b, a - b < Half
    PROVE  seqnum_cmp(SeqNum(a), SeqNum(b)) = a - b
  <1>1. PICK p \in Int : SeqNum(a) = a + SeqMod * p
    BY Laps
  <1>2. PICK q \in Int : SeqNum(b) = b + SeqMod * q
    BY Laps
  <1>3. SeqMod * p \in Int /\ SeqMod * q \in Int /\ SeqMod * (p - q) = SeqMod * p - SeqMod * q
    BY Sizes
  <1>4. SeqNum(a) - SeqNum(b) = (a - b) + SeqMod * (p - q)
    BY <1>1, <1>2, <1>3
  <1>5. (SeqNum(a) - SeqNum(b)) % SeqMod = (a - b) % SeqMod
    <2>1. p - q \in Int /\ a - b \in Int
      OBVIOUS
    <2>2. ((a - b) + SeqMod * (p - q)) % SeqMod = (a - b) % SeqMod
      BY <2>1, Sizes, ModShift, Zenon
    <2> QED
      BY <1>4, <2>2
  <1>6. CASE a - b >= 0
    <2>1. (SeqMod * 0 + (a - b)) % SeqMod = a - b
      BY <1>6, Sizes, Remainder
    <2> QED
      BY <1>5, <1>6, <2>1, Sizes DEF seqnum_cmp
  <1>7. CASE a - b < 0
    <2>1. a - b + SeqMod \in 0..(SeqMod - 1)
      BY <1>7, Sizes
    <2>2. (SeqMod * (-1) + (a - b + SeqMod)) % SeqMod = a - b + SeqMod
      BY <2>1, Sizes, Remainder
    <2> QED
      BY <1>5, <1>7, <2>2, Sizes DEF seqnum_cmp
  <1> QED
    BY <1>6, <1>7

(* Adding to a sequence number and wrapping is adding to the packet's place. *)
LEMMA SeqNumPlus ==
    ASSUME NEW a \in Int, NEW c \in Int
    PROVE  SeqNum(SeqNum(a) + c) = SeqNum(a + c)
  <1>1. PICK q \in Int : SeqNum(a) = a + SeqMod * q
    BY Laps
  <1>2. SeqNum(a) + c = (a + c) + SeqMod * q
    BY <1>1, Sizes
  <1>3. a + c \in Int
    OBVIOUS
  <1>4. ((a + c) + SeqMod * q) % SeqMod = (a + c) % SeqMod
    BY <1>3, Sizes, ModShift
  <1> QED
    BY <1>2, <1>4 DEF SeqNum

(* The slot of a packet does not depend on how often the numbers wrapped. *)
LEMMA SlotOfSeqNum ==
    ASSUME NEW a \in Int
    PROVE  Slot(SeqNum(a)) = Slot(a)
  <1>1. PICK m \in 1..SeqMod : SeqMod = BufLen * m
    BY BufLenAssumption
  <1>2. PICK q \in Int : SeqNum(a) = a + SeqMod * q
    BY Laps
  <1>3. m * q \in Int /\ SeqMod * q = BufLen * (m * q)
    BY <1>1, Sizes
  <1>4. SeqNum(a) = a + BufLen * (m * q)
    BY <1>2, <1>3
  <1>5. (a + BufLen * (m * q)) % BufLen = a % BufLen
    BY <1>3, Sizes, ModShift
  <1> QED
    BY <1>4, <1>5 DEF Slot

(* Two packets of one window are in different slots. *)
LEMMA SlotInjective ==
    ASSUME NEW a \in Int, NEW b \in Int,
           Slot(a) = Slot(b), -BufLen < a - b, a - b < BufLen
    PROVE  a = b
  BY Sizes, ModInjective DEF Slot

(***************************************************************************)
(* What the tests of raop_buffer_queue and raop_buffer_dequeue decide      *)
(***************************************************************************)

(* The 16-bit tests of the queue place a packet exactly as its number does. *)
LEMMA QueueTests ==
    ASSUME IInv, NEW n \in Packets, InReach(n)
    PROVE  /\ ~is_empty => (Late(SeqNum(n)) <=> n < first_abs)
           /\ ~is_empty /\ n >= first_abs =>
                (Overruns(SeqNum(n)) <=> n >= first_abs + BufLen)
           /\ is_empty => ~Late(SeqNum(n)) /\ ~Duplicate(SeqNum(n))
           /\ ~is_empty /\ n >= first_abs /\ n < first_abs + BufLen =>
                /\ Duplicate(SeqNum(n)) <=> entries[Slot(n)].available
                /\ entries[Slot(n)].available => entries[Slot(n)].audio = n
                /\ (seqnum_cmp(SeqNum(n), last_seqnum) > 0) <=> (n > last_abs)
  <1> DEFINE s == SeqNum(n)
             e == entries[Slot(n)]
  <1> USE Sizes
  <1>1. n \in Nat /\ first_abs \in Nat /\ last_abs \in Int /\ is_empty \in BOOLEAN
    BY PacketsAssumption DEF IInv, TypeOK
  <1>2. ~is_empty => (Late(s) <=> n < first_abs)
    <2>1. ~is_empty => seqnum_cmp(s, first_seqnum) = n - first_abs
      BY <1>1, CmpExact DEF IInv, SeqNumsOK, InReach
    <2> QED
      BY <1>1, <2>1 DEF Late
  <1>3. ~is_empty /\ n >= first_abs => (Overruns(s) <=> n >= first_abs + BufLen)
    <2>1. SeqNum(first_seqnum + BufLen) = SeqNum(first_abs + BufLen)
      BY <1>1, SeqNumPlus DEF IInv, SeqNumsOK
    <2>2. first_abs + BufLen \in Int
      BY <1>1
    <2>3. ~is_empty /\ n >= first_abs =>
            seqnum_cmp(s, SeqNum(first_abs + BufLen)) = n - (first_abs + BufLen)
      BY <1>1, <2>2, CmpExact DEF InReach
    <2> QED
      BY <1>1, <2>1, <2>3 DEF Overruns
  <1>4. Slot(n) \in Slots /\ Slot(s) = Slot(n)
    BY <1>1, SlotRange, SlotOfSeqNum
  <1>5. is_empty => ~Late(s) /\ ~Duplicate(s)
    BY <1>4 DEF Late, Duplicate, IInv, SlotInv
  <1>6. ASSUME ~is_empty, n >= first_abs, n < first_abs + BufLen
        PROVE  /\ Duplicate(s) <=> e.available
               /\ e.available => e.audio = n
               /\ (seqnum_cmp(s, last_seqnum) > 0) <=> (n > last_abs)
    <2>1. e.available => e.audio = n /\ e.seqnum = s
      <3> SUFFICES ASSUME e.available PROVE e.audio = n /\ e.seqnum = s
        OBVIOUS
      <3>1. /\ first_abs <= e.audio
            /\ e.audio <= last_abs
            /\ Slot(n) = Slot(e.audio)
            /\ e.seqnum = SeqNum(e.audio)
        BY <1>4 DEF IInv, SlotInv
      <3>2. e.audio \in Nat
        BY <1>4 DEF IInv, TypeOK, EntryType
      <3>3. -BufLen < e.audio - n /\ e.audio - n < BufLen
        BY <1>1, <1>6, <3>1, <3>2 DEF IInv, WindowInv
      <3>4. e.audio = n
        BY <1>1, <3>1, <3>2, <3>3, SlotInjective
      <3> QED
        BY <3>1, <3>4
    <2>2. e.available => seqnum_cmp(e.seqnum, s) = 0
      <3>1. seqnum_cmp(SeqNum(n), SeqNum(n)) = n - n
        BY <1>1, CmpExact
      <3> QED
        BY <1>1, <2>1, <3>1
    <2>3. seqnum_cmp(s, last_seqnum) = n - last_abs
      BY <1>1, <1>6, CmpExact DEF IInv, SeqNumsOK, WindowInv
    <2> QED
      BY <1>1, <1>4, <2>1, <2>2, <2>3 DEF Duplicate
  <1> QED
    BY <1>2, <1>3, <1>5, <1>6

(* buflen is the number of packets in the window; dequeue and resend look  *)
(* at the slots those packets have.                                        *)
LEMMA DequeueTests ==
    ASSUME IInv
    PROVE  /\ buflen = last_abs - first_abs + 1
           /\ Slot(first_seqnum) = Slot(first_abs)
           /\ Slot(last_seqnum) = Slot(last_abs)
           /\ \A i \in Int : Slot(SeqNum(first_seqnum + i)) = Slot(first_abs + i)
  <1> USE Sizes
  <1>1. first_abs \in Nat /\ last_abs \in Int
    BY DEF IInv, TypeOK
  <1>2. seqnum_cmp(last_seqnum, first_seqnum) = last_abs - first_abs
    BY <1>1, CmpExact DEF IInv, SeqNumsOK, WindowInv
  <1>3. ASSUME NEW i \in Int
        PROVE  Slot(SeqNum(first_seqnum + i)) = Slot(first_abs + i)
    <2>1. SeqNum(first_seqnum + i) = SeqNum(first_abs + i)
      BY <1>1, SeqNumPlus DEF IInv, SeqNumsOK
    <2>2. first_abs + i \in Int
      BY <1>1
    <2> QED
      BY <2>1, <2>2, SlotOfSeqNum
  <1> QED
    BY <1>1, <1>2, <1>3, SlotOfSeqNum DEF buflen, IInv, SeqNumsOK

(* A set of naturals that is not empty has a least element. *)
LEMMA Least ==
    ASSUME NEW T, T \subseteq Nat, T # {}
    PROVE  \E x \in T : \A y \in T : x <= y
  <1> DEFINE R == {ss \in Nat \X Nat : ss[1] < ss[2]}
  <1>1. IsWellFoundedOn(R, Nat)
    BY NatLessThanWellFounded, Zenon DEF OpToRel
  <1>2. \A x, y \in T : x \in Nat /\ (<<y, x>> \in R <=> y < x)
    OBVIOUS
  <1> HIDE DEF R
  <1>3. \E x \in T : \A y \in T : ~ (<<y, x>> \in R)
    BY <1>1, WFMin, Zenon
  <1>4. PICK x \in T : \A y \in T : ~ (<<y, x>> \in R)
    BY <1>3
  <1>5. ASSUME NEW y \in T PROVE x <= y
    <2>1. ~ (y < x)
      BY <1>2, <1>4, Zenon
    <2>2. x \in Nat /\ y \in Nat
      BY <1>2
    <2> QED
      BY <2>1, <2>2
  <1> QED
    BY <1>5

(* The scan of handle_resends stops at the first entry available. *)
LEMMA GapScan ==
    ASSUME IInv
    PROVE  /\ Gap \in 0..BufLen
           /\ last_abs <= first_abs => Gap = 0
           /\ last_abs > first_abs =>
                /\ Gap <= last_abs - first_abs
                /\ Gap = last_abs - first_abs \/ entries[Slot(first_abs + Gap)].available
                /\ \A i \in 0..(Gap - 1) : ~entries[Slot(first_abs + i)].available
  <1> DEFINE span == seqnum_cmp(last_seqnum, first_seqnum)
             Stops == {i \in 0..span :
                         i = span \/ entries[Slot(SeqNum(first_seqnum + i))].available}
  <1> USE Sizes
  <1>1. first_abs \in Nat /\ last_abs \in Int
    BY DEF IInv, TypeOK
  <1>2. span = last_abs - first_abs /\ span < BufLen
    BY <1>1, CmpExact DEF IInv, SeqNumsOK, WindowInv
  <1>3. CASE last_abs <= first_abs
    BY <1>1, <1>2, <1>3 DEF Gap
  <1>4. CASE last_abs > first_abs
    <2>1. Stops \subseteq Nat /\ span \in Stops
      BY <1>1, <1>2, <1>4
    <2>2. \E x \in Stops : \A y \in Stops : x <= y
      <3> HIDE DEF Stops
      <3> QED
        BY <2>1, Least
    <2>3. Gap = CHOOSE i \in Stops : \A j \in Stops : i <= j
      BY <1>1, <1>2, <1>4 DEF Gap
    <2>4. Gap \in Stops /\ \A j \in Stops : Gap <= j
      <3> HIDE DEF Stops
      <3> QED
        BY <2>2, <2>3, Zenon
    <2>5. \A i \in 0..(Gap - 1) : i \notin Stops
      BY <2>1, <2>4
    <2>6. \A i \in Int : Slot(SeqNum(first_seqnum + i)) = Slot(first_abs + i)
      BY DequeueTests
    <2> QED
      BY <1>1, <1>2, <1>4, <2>4, <2>5, <2>6
  <1> QED
    BY <1>1, <1>3, <1>4

(***************************************************************************)
(* The inductive invariant                                                 *)
(***************************************************************************)

(* Initially the ring is empty and both numbers are zero. *)
LEMMA InitIInv == Init => IInv
  <1> SUFFICES ASSUME Init PROVE IInv
    OBVIOUS
  <1> USE Sizes DEF Init
  <1>1. 0 \in SeqNums /\ SeqNum(0) = 0
    BY Remainder DEF SeqNums, SeqNum
  <1>2. TypeOK
    BY <1>1 DEF TypeOK, RetType, EntryType, Blank
  <1>3. SeqNumsOK /\ WindowInv
    BY <1>1 DEF SeqNumsOK, WindowInv
  <1>4. SlotInv /\ NewestInv
    BY DEF SlotInv, NewestInv, Blank
  <1> QED
    BY <1>2, <1>3, <1>4 DEF IInv

(* The entry of a packet has the type of an entry. *)
LEMMA EntryTyped == ASSUME NEW n \in Nat PROVE Entry(n) \in EntryType /\ Blank \in EntryType
  BY Sizes, SeqNumRange DEF Entry, EntryType, Blank, SeqNums

(* The answer to a packet that was stored has the type of an answer. *)
LEMMA StoredTyped == [call |-> "queue", val |-> 1] \in RetType
  BY DEF RetType

(* A packet that fits is stored in its slot and extends the window to it. *)
LEMMA StoreInductive ==
    ASSUME IInv, NEW n \in Packets, InReach(n), QueueStore(n)
    PROVE  IInv'
  <1> DEFINE s == SeqNum(n)
  <1> USE Sizes DEF QueueStore
  <1>1. /\ n \in Nat /\ first_abs \in Nat /\ last_abs \in Int
        /\ Slot(n) \in Slots /\ Slot(s) = Slot(n) /\ s \in SeqNums
    BY PacketsAssumption, SlotRange, SlotOfSeqNum, SeqNumRange DEF IInv, TypeOK
  <1>2. entries' = [entries EXCEPT ![Slot(n)] = Entry(n)]
    BY <1>1
  <1>3. TypeOK'
    <2>1. entries' \in [Slots -> EntryType]
      BY <1>1, <1>2, EntryTyped DEF TypeOK, IInv
    <2>2. ret' \in RetType /\ is_empty' \in BOOLEAN
      BY StoredTyped, Zenon
    <2>3. /\ first_seqnum' \in SeqNums /\ last_seqnum' \in SeqNums
          /\ first_abs' \in Nat /\ last_abs' \in Int
      BY <1>1 DEF TypeOK, IInv
    <2> QED
      BY <2>1, <2>2, <2>3, Zenon DEF TypeOK
  <1>4. CASE is_empty
    <2>1. /\ first_abs' = n /\ last_abs' = n
          /\ first_seqnum' = s /\ last_seqnum' = s /\ is_empty' = FALSE
      BY <1>4
    <2>2. \A i \in Slots : i # Slot(n) => ~entries'[i].available
      BY <1>2, <1>4 DEF IInv, SlotInv, TypeOK
    <2>3. entries'[Slot(n)] = Entry(n)
      BY <1>1, <1>2 DEF IInv, TypeOK
    <2>4. SlotInv' /\ NewestInv'
      BY <1>1, <2>1, <2>2, <2>3 DEF SlotInv, NewestInv, Entry
    <2>5. SeqNumsOK' /\ WindowInv'
      BY <1>1, <2>1 DEF SeqNumsOK, WindowInv
    <2> QED
      BY <1>3, <2>4, <2>5 DEF IInv
  <1>5. CASE ~is_empty
    <2>1. n >= first_abs /\ n < first_abs + BufLen
      BY <1>1, <1>5, QueueTests
    <2>2. /\ first_abs' = first_abs /\ first_seqnum' = first_seqnum
          /\ last_abs' = IF n > last_abs THEN n ELSE last_abs
          /\ last_seqnum' = IF n > last_abs THEN s ELSE last_seqnum
          /\ is_empty' = FALSE
      BY <1>1, <1>5, <2>1, QueueTests
    <2>3. SeqNumsOK' /\ WindowInv'
      BY <1>1, <2>1, <2>2 DEF IInv, SeqNumsOK, WindowInv
    <2>4. SlotInv'
      <3> SUFFICES ASSUME NEW i \in Slots, entries'[i].available
                   PROVE  /\ first_abs' <= entries'[i].audio
                          /\ entries'[i].audio <= last_abs'
                          /\ i = Slot(entries'[i].audio)
                          /\ entries'[i].seqnum = SeqNum(entries'[i].audio)
        BY <2>2 DEF SlotInv
      <3>1. CASE i = Slot(n)
        <4>1. entries'[i] = Entry(n)
          BY <1>2, <3>1 DEF IInv, TypeOK
        <4> QED
          BY <1>1, <2>1, <2>2, <3>1, <4>1 DEF Entry
      <3>2. CASE i # Slot(n)
        <4>1. entries'[i] = entries[i] /\ entries[i].audio \in Nat
          BY <1>2, <3>2 DEF IInv, TypeOK, EntryType
        <4> QED
          BY <1>1, <2>2, <4>1 DEF IInv, SlotInv
      <3> QED
        BY <3>1, <3>2
    <2>5. NewestInv'
      <3>1. entries'[Slot(n)].available
        BY <1>1, <1>2 DEF IInv, TypeOK, Entry
      <3>2. CASE n > last_abs
        BY <1>1, <2>2, <3>1, <3>2 DEF NewestInv
      <3>3. CASE ~(n > last_abs)
        <4>1. Slot(last_seqnum) \in Slots
          BY SlotRange DEF IInv, TypeOK, SeqNums
        <4>2. entries[Slot(last_seqnum)].available
          BY <1>1, <1>5, <2>1, <3>3 DEF IInv, NewestInv
        <4>3. entries'[Slot(last_seqnum)].available
          BY <1>2, <3>1, <4>1, <4>2 DEF IInv, TypeOK
        <4> QED
          BY <2>2, <3>3, <4>3 DEF NewestInv
      <3> QED
        BY <3>2, <3>3
    <2> QED
      BY <1>3, <2>3, <2>4, <2>5 DEF IInv
  <1>6. is_empty \in BOOLEAN
    BY DEF IInv, TypeOK
  <1> QED
    BY <1>4, <1>5, <1>6

(* A packet beyond the ring is alone in a window of its own. *)
LEMMA OverrunInductive ==
    ASSUME IInv, NEW n \in Packets, InReach(n), QueueOverrun(n)
    PROVE  IInv'
  <1> DEFINE s == SeqNum(n)
  <1> USE Sizes DEF QueueOverrun
  <1>1. /\ n \in Nat
        /\ Slot(n) \in Slots /\ Slot(s) = Slot(n) /\ s \in SeqNums
    BY PacketsAssumption, SlotRange, SlotOfSeqNum, SeqNumRange
  <1>2. TypeOK'
    <2>1. entries' \in [Slots -> EntryType]
      BY <1>1, EntryTyped
    <2>2. ret' \in RetType /\ is_empty' \in BOOLEAN
      BY StoredTyped, Zenon
    <2>3. /\ first_seqnum' \in SeqNums /\ last_seqnum' \in SeqNums
          /\ first_abs' \in Nat /\ last_abs' \in Int
      BY <1>1
    <2> QED
      BY <2>1, <2>2, <2>3, Zenon DEF TypeOK
  <1>3. SeqNumsOK' /\ WindowInv'
    BY <1>1 DEF SeqNumsOK, WindowInv
  <1>4. SlotInv' /\ NewestInv'
    BY <1>1 DEF SlotInv, NewestInv, Entry, Blank
  <1> QED
    BY <1>2, <1>3, <1>4 DEF IInv

(* Playing the first frame moves the window by one packet. *)
LEMMA DequeueInductive ==
    ASSUME IInv, NEW anyway \in BOOLEAN, DequeueFrame(anyway)
    PROVE  IInv'
  <1> USE Sizes DEF DequeueFrame
  <1>1. /\ first_abs \in Nat /\ last_abs \in Int
        /\ Slot(first_abs) \in Slots /\ Slot(first_seqnum) = Slot(first_abs)
        /\ ~is_empty /\ first_abs <= last_abs
    BY SlotRange, DequeueTests DEF IInv, TypeOK, CanDequeue
  <1>2. entries' = [entries EXCEPT ![Slot(first_abs)] = Blank]
    BY <1>1
  <1>3. first_seqnum' = SeqNum(first_abs')
    BY <1>1, SeqNumPlus DEF IInv, SeqNumsOK
  <1>4. TypeOK'
    <2>1. first_seqnum' \in SeqNums
      BY <1>1, <1>3, SeqNumRange
    <2>2. entries' \in [Slots -> EntryType]
      BY <1>1, <1>2, EntryTyped DEF IInv, TypeOK
    <2>3. ret' \in RetType
      <3>1. FirstEntry.audio \in Nat
        BY <1>1 DEF FirstEntry, IInv, TypeOK, EntryType
      <3> QED
        BY <3>1 DEF RetType
    <2> QED
      BY <1>1, <2>1, <2>2, <2>3 DEF IInv, TypeOK
  <1>5. SeqNumsOK' /\ WindowInv'
    BY <1>1, <1>3 DEF IInv, SeqNumsOK, WindowInv
  <1>6. SlotInv'
    <2> SUFFICES ASSUME NEW i \in Slots, entries'[i].available
                 PROVE  /\ ~is_empty'
                        /\ first_abs' <= entries'[i].audio
                        /\ entries'[i].audio <= last_abs'
                        /\ i = Slot(entries'[i].audio)
                        /\ entries'[i].seqnum = SeqNum(entries'[i].audio)
      BY DEF SlotInv
    <2>1. i # Slot(first_abs) /\ entries'[i] = entries[i]
      BY <1>1, <1>2 DEF IInv, TypeOK, Blank
    <2>2. /\ entries[i].audio \in Nat
          /\ first_abs <= entries[i].audio
          /\ entries[i].audio <= last_abs
          /\ i = Slot(entries[i].audio)
          /\ entries[i].seqnum = SeqNum(entries[i].audio)
      BY <2>1 DEF IInv, TypeOK, EntryType, SlotInv
    <2>3. entries[i].audio # first_abs
      BY <2>1, <2>2
    <2> QED
      BY <1>1, <2>1, <2>2, <2>3
  <1>7. NewestInv'
    <2> SUFFICES ASSUME first_abs' <= last_abs'
                 PROVE  entries'[Slot(last_seqnum)].available
      BY DEF NewestInv
    <2>1. Slot(last_seqnum) = Slot(last_abs) /\ Slot(last_abs) \in Slots
      BY <1>1, DequeueTests, SlotRange
    <2>2. entries[Slot(last_abs)].available
      BY <1>1, <2>1 DEF IInv, NewestInv
    <2>3. Slot(last_abs) # Slot(first_abs)
      <3>1. last_abs - first_abs < BufLen /\ -BufLen < last_abs - first_abs /\ last_abs # first_abs
        BY <1>1 DEF IInv, WindowInv
      <3> QED
        BY <1>1, <3>1, SlotInjective
    <2> QED
      BY <1>2, <2>1, <2>2, <2>3 DEF IInv, TypeOK
  <1> QED
    BY <1>4, <1>5, <1>6, <1>7 DEF IInv

(* A flush leaves nothing available; the window it leaves is empty. *)
LEMMA FlushInductive ==
    ASSUME IInv, FlushAll \/ \E n \in Packets : FlushTo(n)
    PROVE  IInv'
  <1> USE Sizes
  <1>1. CASE FlushAll
    <2>1. TypeOK'
      BY <1>1, EntryTyped DEF FlushAll, IInv, TypeOK, RetType
    <2> QED
      BY <1>1, <2>1 DEF FlushAll, IInv, SeqNumsOK, WindowInv, SlotInv, NewestInv, Blank
  <1>2. ASSUME NEW n \in Packets, FlushTo(n) PROVE IInv'
    <2>1. n \in Nat /\ n - 1 \in Int /\ SeqNum(n) \in SeqNums /\ SeqNum(n - 1) \in SeqNums
      BY PacketsAssumption, SeqNumRange
    <2>2. TypeOK'
      BY <1>2, <2>1, EntryTyped DEF FlushTo, IInv, TypeOK, RetType
    <2> QED
      BY <1>2, <2>1, <2>2 DEF FlushTo, IInv, SeqNumsOK, WindowInv, SlotInv, NewestInv, Blank
  <1> QED
    BY <1>1, <1>2

(* Calls that only look, and calls that drop their packet, change nothing. *)
LEMMA LookInductive ==
    ASSUME IInv,
           \/ \E n \in Packets : QueueDrop(n)
           \/ \E v \in {-1, 0} : QueueNoAudio(v)
           \/ \E anyway \in BOOLEAN : DequeueNothing(anyway)
           \/ HandleResends
    PROVE  IInv'
  <1>1. /\ ret' \in RetType
        /\ UNCHANGED <<is_empty, first_seqnum, last_seqnum, entries, first_abs, last_abs>>
    BY GapScan DEF QueueDrop, QueueNoAudio, DequeueNothing, HandleResends, RetType, IInv, TypeOK
  <1> QED
    BY <1>1 DEF IInv, TypeOK, SeqNumsOK, WindowInv, SlotInv, NewestInv

(* Every call, in any order, preserves the invariant. *)
LEMMA NextIInv == IInv /\ [Next]_vars => IInv'
  <1> SUFFICES ASSUME IInv, [Next]_vars PROVE IInv'
    OBVIOUS
  <1>1. ASSUME NEW n \in Packets, Queue(n) PROVE IInv'
    BY <1>1, StoreInductive, OverrunInductive, LookInductive DEF Queue
  <1>2. ASSUME NEW v \in {-1, 0}, QueueNoAudio(v) PROVE IInv'
    BY <1>2, LookInductive
  <1>3. ASSUME NEW anyway \in BOOLEAN, Dequeue(anyway) PROVE IInv'
    BY <1>3, DequeueInductive, LookInductive DEF Dequeue
  <1>4. CASE HandleResends
    BY <1>4, LookInductive
  <1>5. CASE FlushAll \/ \E n \in Packets : FlushTo(n)
    BY <1>5, FlushInductive
  <1>6. CASE UNCHANGED vars
    BY <1>6 DEF vars, IInv, TypeOK, SeqNumsOK, WindowInv, SlotInv, NewestInv
  <1> QED
    BY <1>1, <1>2, <1>3, <1>4, <1>5, <1>6 DEF Next

(* The ring invariants hold whatever the order of calls: every field keeps *)
(* its range, the window spans 0 to BufLen packets, and each slot holds a  *)
(* packet of the window or nothing (raop_buffer.c, all functions).         *)
THEOREM Invariance == Spec => []IInv
  <1>1. Init => IInv
    BY InitIInv
  <1>2. IInv /\ [Next]_vars => IInv'
    BY NextIInv
  <1> QED
    BY <1>1, <1>2, PTL DEF Spec

-----------------------------------------------------------------------------
(***************************************************************************)
(* RaopBuffer implements AudioPlayout                                      *)
(***************************************************************************)

(* A packet is held when its slot is available, for the window's packets;  *)
(* nothing else is held, and the newest packet of the window is.           *)
LEMMA HeldIff ==
    ASSUME IInv
    PROVE  /\ \A n \in Held : n \in Nat /\ first_abs <= n /\ n <= last_abs /\ ~is_empty
           /\ \A n \in Nat : first_abs <= n /\ n < first_abs + BufLen =>
                /\ n \in Held <=> entries[Slot(n)].available
                /\ n \in Held => entries[Slot(n)].audio = n
           /\ ~is_empty /\ first_abs <= last_abs => last_abs \in Held
  <1> USE Sizes
  <1>1. first_abs \in Nat /\ last_abs \in Int
    BY DEF IInv, TypeOK
  <1>2. \A i \in Slots : entries[i].audio \in Nat
    BY DEF IInv, TypeOK, EntryType
  <1>3. \A n \in Held : n \in Nat /\ first_abs <= n /\ n <= last_abs /\ ~is_empty
    BY <1>2 DEF Held, IInv, SlotInv
  <1>4. ASSUME NEW n \in Nat, first_abs <= n, n < first_abs + BufLen
        PROVE  /\ n \in Held <=> entries[Slot(n)].available
               /\ n \in Held => entries[Slot(n)].audio = n
    <2>1. Slot(n) \in Slots
      BY SlotRange
    <2>2. ASSUME entries[Slot(n)].available
          PROVE  entries[Slot(n)].audio = n
      <3> DEFINE m == entries[Slot(n)].audio
      <3>1. m \in Nat /\ first_abs <= m /\ m <= last_abs /\ Slot(n) = Slot(m)
        BY <1>2, <2>1, <2>2 DEF IInv, SlotInv
      <3>2. -BufLen < m - n /\ m - n < BufLen
        BY <1>1, <1>4, <3>1 DEF IInv, WindowInv
      <3> HIDE DEF m
      <3>3. m = n
        BY <3>1, <3>2, SlotInjective
      <3> QED
        BY <3>3 DEF m
    <2>3. ASSUME n \in Held
          PROVE  entries[Slot(n)].available
      <3>1. PICK i \in Slots : entries[i].available /\ entries[i].audio = n
        BY <2>3 DEF Held
      <3>2. i = Slot(n)
        BY <3>1 DEF IInv, SlotInv
      <3> QED
        BY <3>1, <3>2
    <2> QED
      BY <2>1, <2>2, <2>3 DEF Held
  <1>5. ~is_empty /\ first_abs <= last_abs => last_abs \in Held
    BY <1>1, <1>4, DequeueTests DEF IInv, NewestInv, WindowInv
  <1> QED
    BY <1>3, <1>4, <1>5

(* Storing in, clearing and emptying slots, as changes of the set held. *)
LEMMA HeldChange ==
    ASSUME IInv
    PROVE  /\ \A n \in Nat :
                /\ entries' = [i \in Slots |-> IF i = Slot(n) THEN Entry(n) ELSE Blank]
                => Held' = {n}
           /\ entries' = [i \in Slots |-> Blank] => Held' = {}
           /\ \A n \in Nat :
                /\ entries' = [entries EXCEPT ![Slot(n)] = Entry(n)]
                /\ ~entries[Slot(n)].available
                => Held' = Held \cup {n}
  <1> USE Sizes DEF IInv, TypeOK
  <1>1. ASSUME NEW n \in Nat,
               entries' = [i \in Slots |-> IF i = Slot(n) THEN Entry(n) ELSE Blank]
        PROVE  Held' = {n}
    <2>1. Slot(n) \in Slots
      BY SlotRange
    <2> QED
      BY <1>1, <2>1 DEF Held, Entry, Blank
  <1>2. ASSUME entries' = [i \in Slots |-> Blank] PROVE Held' = {}
    BY <1>2 DEF Held, Blank
  <1>3. ASSUME NEW n \in Nat,
               entries' = [entries EXCEPT ![Slot(n)] = Entry(n)],
               ~entries[Slot(n)].available
        PROVE  Held' = Held \cup {n}
    <2>1. Slot(n) \in Slots
      BY SlotRange
    <2>2. \A i \in Slots : entries'[i] = IF i = Slot(n) THEN Entry(n) ELSE entries[i]
      BY <1>3
    <2> QED
      BY <1>3, <2>1, <2>2 DEF Held, Entry
  <1> QED
    BY <1>1, <1>2, <1>3

(* raop_buffer_queue is Receive. *)
LEMMA QueueRefines ==
    ASSUME IInv, NEW n \in Packets, Queue(n)
    PROVE  Playout!Receive(n)
  <1> DEFINE s == SeqNum(n)
  <1> USE Sizes
  <1>1. /\ n \in Nat /\ first_abs \in Nat /\ is_empty \in BOOLEAN
        /\ Slot(s) = Slot(n) /\ InReach(n)
    BY PacketsAssumption, SlotOfSeqNum DEF IInv, TypeOK, Queue
  <1>2. CASE QueueDrop(n)
    <2>1. /\ ret' = [call |-> "queue", val |-> 0]
          /\ UNCHANGED <<is_empty, first_abs, Held>>
      BY <1>2 DEF QueueDrop, Held
    <2>2. ~is_empty /\ (n < first_abs \/ n \in Held)
      BY <1>1, <1>2, QueueTests, HeldIff DEF QueueDrop
    <2> QED
      BY <2>1, <2>2 DEF Playout!Receive
  <1>3. CASE QueueStore(n)
    <2>1. /\ ret' = [call |-> "queue", val |-> 1]
          /\ entries' = [entries EXCEPT ![Slot(n)] = Entry(n)]
          /\ is_empty' = FALSE
          /\ first_abs' = IF is_empty THEN n ELSE first_abs
      BY <1>1, <1>3 DEF QueueStore
    <2>2. CASE is_empty
      <3>1. ~entries[Slot(n)].available /\ Held = {}
        BY <1>1, <2>2, HeldIff, SlotRange DEF IInv, SlotInv
      <3>2. Held' = {n}
        BY <1>1, <2>1, <3>1, HeldChange
      <3> QED
        BY <2>1, <2>2, <3>2 DEF Playout!Receive
    <2>3. CASE ~is_empty
      <3>1. n >= first_abs /\ n < first_abs + BufLen /\ ~entries[Slot(n)].available
        BY <1>1, <1>3, <2>3, QueueTests DEF QueueStore
      <3>2. n \notin Held /\ Held' = Held \cup {n}
        BY <1>1, <2>1, <3>1, HeldIff, HeldChange
      <3> QED
        BY <1>1, <2>1, <2>3, <3>1, <3>2 DEF Playout!Receive
    <2> QED
      BY <2>2, <2>3
  <1>4. CASE QueueOverrun(n)
    <2>1. /\ ret' = [call |-> "queue", val |-> 1]
          /\ entries' = [i \in Slots |-> IF i = Slot(n) THEN Entry(n) ELSE Blank]
          /\ is_empty' = FALSE
          /\ first_abs' = n
      BY <1>1, <1>4 DEF QueueOverrun
    <2>2. Held' = {n}
      BY <1>1, <2>1, HeldChange
    <2>3. ~is_empty => n >= first_abs + BufLen
      BY <1>1, <1>4, QueueTests DEF QueueOverrun
    <2> QED
      BY <1>1, <2>1, <2>2, <2>3 DEF Playout!Receive
  <1> QED
    BY <1>2, <1>3, <1>4 DEF Queue

(* The tests of raop_buffer_dequeue are the abstract ones. *)
LEMMA CanDequeueIff ==
    ASSUME IInv, NEW anyway \in BOOLEAN
    PROVE  CanDequeue(anyway) <=> Playout!Playable(anyway)
  <1> USE Sizes
  <1>1. first_abs \in Nat /\ last_abs \in Int
    BY DEF IInv, TypeOK
  <1>2. CASE is_empty
    BY <1>2 DEF CanDequeue, Playout!Playable
  <1>3. CASE ~is_empty
    <2>1. buflen > 0 <=> Held # {}
      BY <1>1, <1>3, HeldIff, DequeueTests
    <2>2. FirstEntry.available <=> first_abs \in Held
      BY <1>1, HeldIff, DequeueTests DEF FirstEntry
    <2>3. buflen >= BufLen <=> first_abs + BufLen - 1 \in Held
      <3>1. buflen >= BufLen <=> last_abs = first_abs + BufLen - 1
        BY <1>1, DequeueTests DEF IInv, WindowInv
      <3>2. first_abs + BufLen - 1 \in Held => last_abs = first_abs + BufLen - 1
        BY <1>1, HeldIff DEF IInv, WindowInv
      <3>3. last_abs = first_abs + BufLen - 1 => last_abs \in Held
        BY <1>1, <1>3, HeldIff
      <3> QED
        BY <3>1, <3>2, <3>3
    <2> QED
      BY <1>3, <2>1, <2>2, <2>3 DEF CanDequeue, Playout!Playable
  <1> QED
    BY <1>2, <1>3

(* raop_buffer_dequeue is Play. *)
LEMMA DequeueRefines ==
    ASSUME IInv, NEW anyway \in BOOLEAN, Dequeue(anyway)
    PROVE  Playout!Play(anyway)
  <1> USE Sizes
  <1>1. CASE DequeueNothing(anyway)
    BY <1>1, CanDequeueIff DEF DequeueNothing, Playout!Play, Held
  <1>2. CASE DequeueFrame(anyway)
    <2>1. /\ Playout!Playable(anyway)
          /\ first_abs' = first_abs + 1
          /\ is_empty' = is_empty
          /\ entries' = [entries EXCEPT ![Slot(first_abs)] = Blank]
          /\ ret' = [call |-> "dequeue",
                     audio |-> IF FirstEntry.available THEN {FirstEntry.audio} ELSE {}]
      BY <1>2, CanDequeueIff, DequeueTests DEF DequeueFrame
    <2>2. first_abs \in Nat /\ Slot(first_abs) \in Slots
      BY SlotRange DEF IInv, TypeOK
    <2>3. /\ FirstEntry.available <=> first_abs \in Held
          /\ FirstEntry.available => FirstEntry.audio = first_abs
      BY <2>2, HeldIff, DequeueTests DEF FirstEntry
    <2>4. Held' = Held \ {first_abs}
      <3>1. \A i \in Slots : entries'[i] = IF i = Slot(first_abs) THEN Blank ELSE entries[i]
        BY <2>1 DEF IInv, TypeOK
      <3>2. ~Blank.available
        BY DEF Blank
      <3>3. \A i \in Slots : entries[i].available =>
               (i = Slot(first_abs) <=> entries[i].audio = first_abs)
        BY <2>2, <2>3, HeldIff DEF IInv, SlotInv
      <3> QED
        BY <3>1, <3>2, <3>3 DEF Held
    <2>5. ret' = [call |-> "dequeue",
                  audio |-> IF first_abs \in Held THEN {first_abs} ELSE {}]
      BY <2>1, <2>3
    <2> QED
      BY <2>1, <2>4, <2>5 DEF Playout!Play
  <1> QED
    BY <1>1, <1>2 DEF Dequeue

(* raop_buffer_handle_resends is AskResend. *)
LEMMA ResendRefines ==
    ASSUME IInv, HandleResends
    PROVE  Playout!AskResend
  <1> USE Sizes
  <1>1. /\ first_abs \in Nat /\ last_abs \in Int
        /\ first_seqnum \in SeqNums /\ first_seqnum = SeqNum(first_abs)
    BY DEF IInv, TypeOK, SeqNumsOK
  <1>2. /\ ret' = [call |-> "resend", from |-> first_seqnum, count |-> Gap]
        /\ UNCHANGED <<is_empty, first_abs, Held>>
    BY DEF HandleResends, Held
  <1>3. Gap \in 0..BufLen
    BY GapScan
  <1>4. ret' \in [call : {"resend"}, from : 0..(SeqMod - 1), count : 0..BufLen]
    BY <1>1, <1>2, <1>3 DEF SeqNums
  <1>5. ASSUME ~is_empty
        PROVE  /\ Gap = 0 <=> Held = {} \/ first_abs \in Held
               /\ Gap > 0 =>
                    /\ first_abs + Gap \in Held
                    /\ \A i \in 0..(Gap - 1) : first_abs + i \notin Held
    <2>1. CASE last_abs < first_abs
      <3>1. Gap = 0 /\ Held = {}
        BY <1>1, <2>1, GapScan, HeldIff
      <3> QED
        BY <3>1
    <2>2. CASE last_abs = first_abs
      <3>1. Gap = 0 /\ first_abs \in Held
        BY <1>1, <1>5, <2>2, GapScan, HeldIff
      <3> QED
        BY <3>1
    <2>3. CASE last_abs > first_abs
      <3>1. last_abs \in Held
        BY <1>1, <1>5, <2>3, HeldIff
      <3>2. Gap <= last_abs - first_abs /\ first_abs + Gap \in Nat
        BY <1>1, <1>3, <2>3, GapScan
      <3>3. first_abs + Gap < first_abs + BufLen
        BY <1>1, <1>3, <3>2 DEF IInv, WindowInv
      <3>4. first_abs + Gap \in Held
        <4>1. CASE Gap = last_abs - first_abs
          BY <1>1, <3>1, <4>1
        <4>2. CASE entries[Slot(first_abs + Gap)].available
          BY <1>1, <1>3, <3>2, <3>3, <4>2, HeldIff
        <4> QED
          BY <2>3, <4>1, <4>2, GapScan
      <3>5. ASSUME NEW i \in 0..(Gap - 1) PROVE first_abs + i \notin Held
        <4>1. first_abs + i \in Nat /\ first_abs + i < first_abs + BufLen
          BY <1>1, <1>3, <3>3
        <4>2. ~entries[Slot(first_abs + i)].available
          BY <2>3, GapScan
        <4> QED
          BY <1>1, <4>1, <4>2, HeldIff
      <3>6. Gap = 0 <=> first_abs \in Held
        <4>1. Gap = 0 => first_abs \in Held
          BY <1>1, <3>4
        <4>2. Gap > 0 => first_abs \notin Held
          <5>1. Gap > 0 => 0 \in 0..(Gap - 1)
            BY <1>3
          <5> QED
            BY <1>1, <3>5, <5>1
        <4> QED
          BY <1>3, <4>1, <4>2
      <3> QED
        BY <3>1, <3>4, <3>5, <3>6
    <2> QED
      BY <1>1, <2>1, <2>2, <2>3
  <1> QED
    BY <1>1, <1>2, <1>4, <1>5 DEF Playout!AskResend, SeqNum

(* Every step of the buffer is a step of the playout, or changes nothing. *)
LEMMA NextRefines == IInv /\ [Next]_vars => [Playout!Next]_(Playout!vars)
  <1> SUFFICES ASSUME IInv, [Next]_vars PROVE [Playout!Next]_(Playout!vars)
    OBVIOUS
  <1>1. ASSUME NEW n \in Packets, Queue(n) PROVE Playout!Next
    BY <1>1, QueueRefines DEF Playout!Next
  <1>2. ASSUME NEW v \in {-1, 0}, QueueNoAudio(v) PROVE Playout!Next
    BY <1>2 DEF QueueNoAudio, Held, Playout!Ignore, Playout!Next
  <1>3. ASSUME NEW anyway \in BOOLEAN, Dequeue(anyway) PROVE Playout!Next
    BY <1>3, DequeueRefines DEF Playout!Next
  <1>4. ASSUME HandleResends PROVE Playout!Next
    BY <1>4, ResendRefines DEF Playout!Next
  <1>5. ASSUME NEW n \in Packets, FlushTo(n) PROVE Playout!Next
    <2>1. Held' = {}
      BY <1>5, HeldChange DEF FlushTo
    <2>2. Playout!SkipTo(n)
      BY <1>5, <2>1 DEF FlushTo, Playout!SkipTo
    <2> QED
      BY <2>2 DEF Playout!Next
  <1>6. ASSUME FlushAll PROVE Playout!Next
    <2>1. Held' = {}
      BY <1>6, HeldChange DEF FlushAll
    <2>2. Playout!Reset
      BY <1>6, <2>1 DEF FlushAll, Playout!Reset
    <2> QED
      BY <2>2 DEF Playout!Next
  <1>7. CASE UNCHANGED vars
    BY <1>7 DEF vars, Held, Playout!vars
  <1> QED
    BY <1>1, <1>2, <1>3, <1>4, <1>5, <1>6, <1>7 DEF Next

(* For a ring of any size over sequence numbers of any width, the buffer   *)
(* plays the unbounded stream as AudioPlayout says (raop_buffer.c:359-588).*)
THEOREM Refinement == Spec => PlayoutSpec
  <1>1. Init => Playout!Init
    <2>1. Init => Held = {}
      BY DEF Init, Held, Blank
    <2> QED
      BY <2>1 DEF Init, Playout!Init
  <1>2. IInv /\ [Next]_vars => [Playout!Next]_(Playout!vars)
    BY NextRefines
  <1> QED
    BY <1>1, <1>2, Invariance, PTL DEF Spec, PlayoutSpec, Playout!Spec

-----------------------------------------------------------------------------
(***************************************************************************)
(* The UDP thread                                                          *)
(***************************************************************************)

(* The mailbox of raop_rtp_flush. *)
UdpTypeOK == flush \in Packets \cup {-1, NO_FLUSH}

(* Every step of the thread is a call of the buffer or leaves it alone. *)
LEMMA UdpStep ==
    ASSUME UdpTypeOK, [UdpNext]_allVars
    PROVE  [Next]_vars
  <1> USE DEF bufVars, vars
  <1>1. CASE EventsFlush
    <2>1. flush >= 0 => flush \in Packets
      BY DEF UdpTypeOK, NO_FLUSH
    <2> QED
      BY <1>1, <2>1 DEF EventsFlush, Next
  <1>2. CASE DrainFrame \/ DrainDone
    <2>1. \/ no_resend /\ Dequeue(TRUE)
          \/ ~no_resend /\ Dequeue(FALSE)
      BY <1>2 DEF DrainFrame, DrainDone, Dequeue, no_resend
    <2> QED
      BY <2>1 DEF Next
  <1>3. CASE ControlPacket \/ DataPacket
    BY <1>3 DEF ControlPacket, DataPacket, Next
  <1>4. CASE AskForResends
    BY <1>4 DEF AskForResends, Next
  <1>5. CASE EventsExit \/ EventsNone \/ SelectTimeout \/ SelectError \/ DataRunt
    BY <1>5 DEF EventsExit, EventsNone, SelectTimeout, SelectError, DataRunt
  <1>6. CASE RaopRtpFlush \/ RaopRtpStop \/ UNCHANGED allVars
    BY <1>6 DEF RaopRtpFlush, RaopRtpStop, allVars
  <1> QED
    BY <1>1, <1>2, <1>3, <1>4, <1>5, <1>6 DEF UdpNext, UdpThread

LEMMA UdpTypeStep ==
    ASSUME UdpTypeOK, [UdpNext]_allVars
    PROVE  UdpTypeOK'
  <1>1. \/ flush' \in {flush, NO_FLUSH}
        \/ \E next_seq \in Packets \cup {-1} : flush' = next_seq
    BY DEF UdpNext, UdpThread, EventsExit, EventsNone, EventsFlush, SelectTimeout,
       SelectError, ControlPacket, DataPacket, DataRunt, DrainFrame, DrainDone,
       AskForResends, RaopRtpFlush, RaopRtpStop, allVars, udpVars
  <1> QED
    BY <1>1 DEF UdpTypeOK

(***************************************************************************)
(* The thread uses the buffer as its module says, in which any call may    *)
(* follow any: what is proved of the buffer holds of the audio session     *)
(* (raop_rtp.c:428-588).                                                   *)
(***************************************************************************)
THEOREM UdpCallsBuffer == UdpSpec => Spec
  <1>1. UdpInit => Init /\ UdpTypeOK
    BY DEF UdpInit, UdpTypeOK
  <1>2. UdpTypeOK /\ [UdpNext]_allVars => [Next]_vars /\ UdpTypeOK'
    BY UdpStep, UdpTypeStep
  <1> QED
    BY <1>1, <1>2, PTL DEF UdpSpec, Spec

(* The ring invariants and the abstract play-out, for the UDP thread with  *)
(* the flushes and stops of the HTTP thread at any step: the mailbox is    *)
(* served between calls of the buffer only (raop_rtp.c:300-318, 504-540).  *)
THEOREM UdpPlayout == UdpSpec => []IInv /\ PlayoutSpec
  BY UdpCallsBuffer, Invariance, Refinement, PTL


(* What was played, and what a FLUSH ruled out, is behind the window; a    *)
(* buffer that got nothing since the last full flush rules nothing out.    *)
FloorInv == floor \in Nat /\ (IF is_empty THEN floor = 0 ELSE floor <= first_abs)

(* The window only moves on, except where the mailbox moves it. *)
LEMMA FloorStep ==
    ASSUME UdpTypeOK, IInv, FloorInv, [UdpNext]_allVars
    PROVE  FloorInv'
  <1> USE DEF FloorInv, bufVars
  <1>1. first_abs \in Nat /\ is_empty \in BOOLEAN /\ BufLen \in Nat \ {0}
    BY Sizes DEF IInv, TypeOK
  <1>2. CASE EventsFlush
    <2>1. CASE flush >= 0 /\ FlushTo(flush) /\ floor' = (IF is_empty THEN floor ELSE flush)
      BY <2>1 DEF FlushTo
    <2>2. CASE FlushAll /\ floor' = 0
      BY <2>2 DEF FlushAll
    <2> QED
      BY <1>2, <2>1, <2>2 DEF EventsFlush
  <1>3. CASE DrainFrame
    BY <1>1, <1>3 DEF DrainFrame, DequeueFrame, CanDequeue
  <1>4. ASSUME NEW n \in Packets, Queue(n), floor' = floor
        PROVE  FloorInv'
    <2>1. n \in Nat
      BY PacketsAssumption
    <2>2. CASE QueueDrop(n)
      BY <1>4, <2>2 DEF QueueDrop
    <2>3. CASE QueueStore(n)
      BY <1>1, <1>4, <2>1, <2>3 DEF QueueStore
    <2>4. CASE QueueOverrun(n)
      <3>1. ~is_empty => n >= first_abs
        BY <1>1, <1>4, <2>1, <2>4, QueueTests DEF Queue, QueueOverrun
      <3> QED
        BY <1>1, <1>4, <2>1, <2>4, <3>1 DEF QueueOverrun
    <2> QED
      BY <1>4, <2>2, <2>3, <2>4 DEF Queue
  <1>5. CASE ControlPacket \/ DataPacket
    <2>1. CASE \E n \in Packets : Queue(n)
      BY <1>4, <1>5, <2>1 DEF ControlPacket, DataPacket
    <2>2. CASE ~ \E n \in Packets : Queue(n)
      BY <1>5, <2>2 DEF ControlPacket, DataPacket, QueueNoAudio
    <2> QED
      BY <2>1, <2>2
  <1>6. CASE DrainDone \/ AskForResends
    BY <1>6 DEF DrainDone, DequeueNothing, AskForResends, HandleResends
  <1>7. CASE EventsExit \/ EventsNone \/ SelectTimeout \/ SelectError \/ DataRunt
    BY <1>7 DEF EventsExit, EventsNone, SelectTimeout, SelectError, DataRunt
  <1>8. CASE RaopRtpFlush \/ RaopRtpStop \/ UNCHANGED allVars
    BY <1>8 DEF RaopRtpFlush, RaopRtpStop, allVars, udpVars
  <1> QED
    BY <1>2, <1>3, <1>5, <1>6, <1>7, <1>8 DEF UdpNext, UdpThread

(* A frame that is played comes from a slot of the window. *)
LEMMA PlayedStep ==
    ASSUME IInv, FloorInv, [UdpNext]_allVars, FramePlayed
    PROVE  \A n \in ret'.audio : n >= floor
  <1>1. DrainFrame
    BY DEF FramePlayed, UdpNext, UdpThread, EventsExit, EventsNone, EventsFlush,
       SelectTimeout, SelectError, ControlPacket, DataPacket, DataRunt, DrainDone,
       AskForResends, RaopRtpFlush, RaopRtpStop, allVars, udpVars, bufVars
  <1>2. Slot(first_seqnum) \in Slots
    BY SlotRange DEF IInv, TypeOK, SeqNums
  <1>3. FirstEntry.available =>
            first_abs <= FirstEntry.audio /\ FirstEntry.audio \in Nat /\ ~is_empty
    BY <1>2 DEF IInv, SlotInv, FirstEntry, TypeOK, EntryType
  <1>4. ret'.audio \subseteq {FirstEntry.audio} /\ (ret'.audio # {} => FirstEntry.available)
    BY <1>1 DEF DrainFrame, DequeueFrame
  <1> QED
    BY <1>3, <1>4 DEF FloorInv, IInv, TypeOK

(***************************************************************************)
(* Whatever the network does and whenever FLUSH comes: audio_process gets  *)
(* the packets in stream order, each at most once between flushes, and     *)
(* none that a FLUSH ruled out (raop_rtp.c:304-309, 520-526).              *)
(***************************************************************************)
THEOREM UdpPlaysInOrder == UdpSpec => PlayedInOrder
  <1>1. UdpInit => UdpTypeOK /\ FloorInv
    BY DEF UdpInit, Init, UdpTypeOK, FloorInv
  <1>2. UdpTypeOK /\ IInv /\ FloorInv /\ [UdpNext]_allVars => UdpTypeOK' /\ FloorInv'
    BY UdpTypeStep, FloorStep
  <1>3. IInv /\ FloorInv /\ [UdpNext]_allVars
            => [FramePlayed => \A n \in ret'.audio : n >= floor]_allVars
    BY PlayedStep
  <1> QED
    BY <1>1, <1>2, <1>3, UdpPlayout, PTL DEF UdpSpec, PlayedInOrder

(***************************************************************************)
(* The audio session (RaopRtp)                                             *)
(***************************************************************************)
(* The initial state has the inductive invariant. *)
LEMMA RtpInitInv == RtpInit => RtpInv
  <1> SUFFICES ASSUME RtpInit PROVE RtpInv
    OBVIOUS
  <1> USE MailboxAssumption DEF RtpInit, None
  <1>1. JoinedInv
    <2>1. Len(Mailbox) \in Nat
      OBVIOUS
    <2>2. None \in [Kinds -> Values]
      BY DEF Values
    <2>3. turn \in 1..(Len(Mailbox) + 1)
      BY <2>1
    <2>4. RtpTypeOK
      BY <2>2, <2>3, Zenon DEF RtpTypeOK
    <2> QED
      BY <2>4 DEF JoinedInv, UdpAlive, TimeAlive
  <1>2. ThreadsInv
    BY DEF ThreadsInv, UdpAlive, TimeAlive
  <1>3. NoUpdateLost
    BY DEF NoUpdateLost
  <1>4. StopInv
    BY DEF StopInv, UdpAlive, TimeAlive
  <1>5. TakenInv
    BY DEF TakenInv
  <1> QED
    BY <1>1, <1>2, <1>3, <1>4, <1>5 DEF RtpInv, SessionInv

(* No step spoils the life of the session and of its threads. *)
LEMMA LifeStep ==
    ASSUME RtpInv, [RtpNext]_rtpVars
    PROVE  JoinedInv' /\ ThreadsInv' /\ StopInv'
  <1> USE MailboxAssumption
        DEF RtpInv, SessionInv, JoinedInv, ThreadsInv, StopInv, RtpTypeOK, UdpAlive, TimeAlive,
            Values, lifeVars, mailVars, None
  <1>1. CASE StartAudio BY <1>1 DEF StartAudio, CanStart
  <1>2. CASE DestroyIdle BY <1>2 DEF DestroyIdle
  <1>3. CASE StopBegin BY <1>3 DEF StopBegin
  <1>4. CASE JoinUdp BY <1>4 DEF JoinUdp
  <1>5. CASE SignalTime BY <1>5 DEF SignalTime
  <1>6. CASE JoinTime BY <1>6 DEF JoinTime
  <1>7. CASE CloseAndFree BY <1>7 DEF CloseAndFree
  <1>8. CASE \E k \in Kinds : Set(k) BY <1>8 DEF Set
  <1>9. CASE TakeMail BY <1>9 DEF TakeMail
  <1>10. CASE UdpExit BY <1>10 DEF UdpExit
  <1>11. CASE Callback BY <1>11 DEF Callback, Kinds
  <1>12. CASE CallbacksDone BY <1>12 DEF CallbacksDone
  <1>13. CASE Select \/ SelectFails BY <1>13 DEF Select, SelectFails
  <1>14. CASE TimeCheck \/ TimeAnswer \/ TimeWaited
    BY <1>14 DEF TimeCheck, TimeAnswer, TimeWaited
  <1>15. CASE UNCHANGED rtpVars BY <1>15 DEF rtpVars
  <1> QED
    BY <1>1, <1>2, <1>3, <1>4, <1>5, <1>6, <1>7, <1>8, <1>9, <1>10, <1>11,
       <1>12, <1>13, <1>14, <1>15 DEF RtpNext, Stop, RtpUdpThread

(* The setters and the callbacks keep track of the last value set: a value *)
(* leaves the mailbox for the thread's copy, and the copy for its callback. *)
LEMMA MailStep ==
    ASSUME RtpInv, [RtpNext]_rtpVars
    PROVE  NoUpdateLost' /\ TakenInv'
  <1> USE MailboxAssumption
        DEF RtpInv, SessionInv, NoUpdateLost, TakenInv, RtpTypeOK, JoinedInv, Values, lifeVars,
            mailVars, None
  <1>1. CASE StartAudio
    <2>1. \A k \in Kinds : taken[k] = 0
      BY <1>1 DEF StartAudio, CanStart, UdpAlive
    <2> QED
      BY <1>1, <2>1 DEF StartAudio
  <1>2. CASE DestroyIdle \/ StopBegin \/ JoinUdp \/ SignalTime \/ JoinTime \/ CloseAndFree
    BY <1>2 DEF DestroyIdle, StopBegin, JoinUdp, SignalTime, JoinTime, CloseAndFree
  <1>3. CASE \E k \in Kinds : Set(k)
    BY <1>3 DEF Set
  <1>4. CASE TakeMail
    <2>1. \A k \in Kinds : taken[k] = 0
      BY <1>4 DEF TakeMail
    <2>2. \A k \in Kinds : \E i \in 1..Len(Mailbox) : Mailbox[i] = k
      BY DEF Kinds
    <2> QED
      BY <1>4, <2>1, <2>2 DEF TakeMail
  <1>5. CASE Callback
    <2>1. PICK j \in 1..Len(Mailbox) : j = turn
      BY <1>5 DEF Callback
    <2>2. Mailbox[j] \in Kinds
      BY DEF Kinds
    <2>3. NoUpdateLost'
      BY <1>5, <2>1, <2>2 DEF Callback
    <2>4. TakenInv'
      BY <1>5, <2>1, <2>2 DEF Callback
    <2> QED
      BY <2>3, <2>4
  <1>6. CASE CallbacksDone
    <2>1. \A k \in Kinds : taken[k] = 0
      BY <1>6 DEF CallbacksDone
    <2> QED
      BY <1>6, <2>1 DEF CallbacksDone
  <1>7. CASE UdpExit \/ Select \/ SelectFails \/ TimeCheck \/ TimeAnswer \/ TimeWaited
    BY <1>7 DEF UdpExit, Select, SelectFails, TimeCheck, TimeAnswer, TimeWaited
  <1>8. CASE UNCHANGED rtpVars
    BY <1>8 DEF rtpVars
  <1> QED
    BY <1>1, <1>2, <1>3, <1>4, <1>5, <1>6, <1>7, <1>8 DEF RtpNext, Stop, RtpUdpThread

(***************************************************************************)
(* A session is never torn down under one of its threads, is joined only   *)
(* when it does not run, and loses no value that was set: for a mailbox of *)
(* any number of fields (raop_rtp.c:282-370, 680-715).                     *)
(***************************************************************************)
THEOREM SessionSafety == RtpSpec => []SessionInv
  <1>1. RtpInv /\ [RtpNext]_rtpVars => RtpInv'
    BY LifeStep, MailStep DEF RtpInv, SessionInv
  <1>2. RtpInv => SessionInv
    BY DEF RtpInv
  <1> QED
    BY <1>1, <1>2, RtpInitInv, PTL DEF RtpSpec
==============================================================================
