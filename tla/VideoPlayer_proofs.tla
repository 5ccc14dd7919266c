------------------------- MODULE VideoPlayer_proofs -------------------------
(***************************************************************************)
(* Proofs about the packet queue of a video player (VideoPlayer).          *)
(* For any number of threads that add packets: the frames that wait stay   *)
(* within their bound, and what a thread hands over is decoded in order.   *)
(* For one such thread: no packet's memory is lost before a stop, and none *)
(* that waits is free.                                                     *)
(***************************************************************************)
EXTENDS VideoPlayer, FiniteSetTheorems, SequenceTheorems, TLAPS

(***************************************************************************)
(* Operators on queues                                                     *)
(***************************************************************************)
(* The places of a queue that hold a member of F. *)
Places(q, F) == {i \in 1 .. Len(q) : q[i] \in F}

LEMMA Widened ==
  ASSUME NEW S, NEW T, S \subseteq T, NEW q \in Seq(S)
  PROVE  q \in Seq(T)
  <1>1. Len(q) \in Nat /\ q \in [1 .. Len(q) -> S]
    BY LenProperties
  <1>2. q \in [1 .. Len(q) -> T]
    BY <1>1
  <1> QED BY <1>1, <1>2, SeqDef

(* What RemoveAt returns. *)
LEMMA RemovedAt ==
  ASSUME NEW S, NEW q \in Seq(S), NEW k \in 1 .. Len(q)
  PROVE  /\ RemoveAt(q, k) \in Seq(S) /\ Len(RemoveAt(q, k)) = Len(q) - 1
         /\ \A i \in 1 .. Len(q) - 1 : RemoveAt(q, k)[i] = IF i < k THEN q[i] ELSE q[i + 1]
  <1> DEFINE n == Len(q)
             p == SubSeq(q, 1, k - 1)
             r == SubSeq(q, k + 1, n)
  <1>1. n \in Nat /\ k \in Int /\ \A i \in 1 .. n : q[i] \in S
    BY LenProperties, ElementOfSeq
  <1>2. /\ p \in Seq(S) /\ Len(p) = k - 1
        /\ \A i \in 1 .. k - 1 : p[i] = q[i]
    <2>1. \A i \in 1 .. k - 1 : q[i] \in S
      BY <1>1
    <2>2. /\ p \in Seq(S) /\ Len(p) = IF 1 <= k - 1 THEN (k - 1) - 1 + 1 ELSE 0
          /\ \A i \in 1 .. (k - 1) - 1 + 1 : p[i] = q[1 + i - 1]
      BY <1>1, <2>1, SubSeqProperties
    <2> QED BY <1>1, <2>2
  <1>3. /\ r \in Seq(S) /\ Len(r) = n - k
        /\ \A i \in 1 .. n - k : r[i] = q[k + i]
    <2>1. \A i \in k + 1 .. n : q[i] \in S
      BY <1>1
    <2>2. /\ r \in Seq(S) /\ Len(r) = IF k + 1 <= n THEN n - (k + 1) + 1 ELSE 0
          /\ \A i \in 1 .. n - (k + 1) + 1 : r[i] = q[(k + 1) + i - 1]
      BY <1>1, <2>1, SubSeqProperties
    <2> QED BY <1>1, <2>2
  <1> HIDE DEF p, r
  <1>4. /\ p \o r \in Seq(S) /\ Len(p \o r) = Len(p) + Len(r)
        /\ \A i \in 1 .. Len(p) + Len(r) :
             (p \o r)[i] = IF i <= Len(p) THEN p[i] ELSE r[i - Len(p)]
    BY <1>2, <1>3, ConcatProperties
  <1>5. RemoveAt(q, k) = p \o r
    BY DEF RemoveAt, p, r
  <1>6. ASSUME NEW i \in 1 .. n - 1
        PROVE  (p \o r)[i] = IF i < k THEN q[i] ELSE q[i + 1]
    <2>1. CASE i < k
      BY <2>1, <1>1, <1>2, <1>3, <1>4
    <2>2. CASE i >= k
      <3>1. i - (k - 1) \in 1 .. n - k /\ i \in 1 .. Len(p) + Len(r)
        BY <2>2, <1>1, <1>2, <1>3
      <3>2. (p \o r)[i] = r[i - (k - 1)]
        BY <2>2, <3>1, <1>1, <1>2, <1>4
      <3>3. r[i - (k - 1)] = q[k + (i - (k - 1))] /\ k + (i - (k - 1)) = i + 1
        BY <3>1, <1>1, <1>3
      <3> QED BY <2>2, <3>2, <3>3
    <2>3. i < k \/ i >= k
      BY <1>1
    <2> QED BY <2>1, <2>2, <2>3
  <1>7. Len(p \o r) = n - 1 /\ p \o r \in Seq(S)
    BY <1>1, <1>2, <1>3, <1>4
  <1> HIDE DEF n
  <1>8. \A i \in 1 .. n - 1 : (p \o r)[i] = IF i < k THEN q[i] ELSE q[i + 1]
    BY <1>6
  <1> QED BY <1>5, <1>7, <1>8 DEF n

LEMMA PlacesFinite ==
  ASSUME NEW S, NEW q \in Seq(S), NEW F
  PROVE  IsFiniteSet(Places(q, F)) /\ Cardinality(Places(q, F)) \in Nat
           /\ Cardinality(Places(q, F)) <= Len(q)
  <1>1. Len(q) \in Nat
    BY LenProperties
  <1>2. IsFiniteSet(1 .. Len(q)) /\ Cardinality(1 .. Len(q)) = Len(q)
    BY <1>1, FS_Interval
  <1>3. Places(q, F) \in SUBSET (1 .. Len(q))
    BY DEF Places
  <1> QED BY <1>2, <1>3, FS_Subset, FS_CardinalityType

LEMMA PlacesAppend ==
  ASSUME NEW S, NEW q \in Seq(S), NEW n \in S, NEW F
  PROVE  Cardinality(Places(Append(q, n), F)) =
           Cardinality(Places(q, F)) + (IF n \in F THEN 1 ELSE 0)
  <1>1. Len(q) \in Nat /\ Len(Append(q, n)) = Len(q) + 1
        /\ (\A i \in 1 .. Len(q) : Append(q, n)[i] = q[i]) /\ Append(q, n)[Len(q) + 1] = n
    BY LenProperties, AppendProperties
  <1>2. CASE n \in F
    <2>1. Places(Append(q, n), F) = Places(q, F) \cup {Len(q) + 1}
      BY <1>1, <1>2 DEF Places
    <2>2. Len(q) + 1 \notin Places(q, F)
      BY <1>1 DEF Places
    <2> QED BY <1>2, <2>1, <2>2, PlacesFinite, FS_AddElement
  <1>3. CASE n \notin F
    <2>1. Places(Append(q, n), F) = Places(q, F)
      BY <1>1, <1>3 DEF Places
    <2> QED BY <1>3, <2>1, PlacesFinite
  <1> QED BY <1>2, <1>3

(* p is q with some of its places taken out. *)
Thins(q, p) ==
    \E g \in [1 .. Len(p) -> 1 .. Len(q)] :
        /\ \A i, j \in 1 .. Len(p) : i < j => g[i] < g[j]
        /\ \A i \in 1 .. Len(p) : p[i] = q[g[i]]

LEMMA PlacesThinned ==
  ASSUME NEW S, NEW T, NEW q \in Seq(S), NEW p \in Seq(T), NEW F, Thins(q, p)
  PROVE  Cardinality(Places(p, F)) <= Cardinality(Places(q, F))
  <1>1. PICK g \in [1 .. Len(p) -> 1 .. Len(q)] :
          /\ \A i, j \in 1 .. Len(p) : i < j => g[i] < g[j]
          /\ \A i \in 1 .. Len(p) : p[i] = q[g[i]]
    BY DEF Thins
  <1>2. Len(p) \in Nat /\ Len(q) \in Nat
    BY LenProperties
  <1> DEFINE f == [i \in Places(p, F) |-> g[i]]
  <1>3. f \in [Places(p, F) -> Places(q, F)]
    BY <1>1 DEF Places
  <1>4. \A i, j \in 1 .. Len(p) : g[i] = g[j] => i = j
    <2> SUFFICES ASSUME NEW i \in 1 .. Len(p), NEW j \in 1 .. Len(p), g[i] = g[j], i # j
                 PROVE  FALSE
      OBVIOUS
    <2>1. (i < j \/ j < i) /\ g[i] \in Int /\ g[j] \in Int
      BY <1>1, <1>2
    <2> QED BY <2>1, <1>1
  <1>5. \A i, j \in Places(p, F) : f[i] = f[j] => i = j
    BY <1>4 DEF Places
  <1> HIDE DEF f
  <1>6. f \in Injection(Places(p, F), Places(q, F))
    BY <1>3, <1>5 DEF Injection, IsInjective
  <1> QED BY <1>6, PlacesFinite, FS_Injection

(* What Tail returns: the queue without its first place. *)
LEMMA TailOf ==
  ASSUME NEW S, NEW q \in Seq(S), q # <<>>
  PROVE  /\ Tail(q) \in Seq(S) /\ Len(q) \in Nat /\ Len(q) >= 1 /\ Len(Tail(q)) = Len(q) - 1
         /\ \A i \in 1 .. Len(q) - 1 : Tail(q)[i] = q[i + 1]
         /\ Head(q) = q[1] /\ q[1] \in S
  BY EmptySeq, HeadTailProperties, LenProperties, ElementOfSeq

LEMMA ThinsTail ==
  ASSUME NEW S, NEW q \in Seq(S), q # <<>>
  PROVE  Thins(q, Tail(q))
  <1> DEFINE p == Tail(q) g == [i \in 1 .. Len(p) |-> i + 1]
  <1>1. Len(q) \in Nat /\ Len(p) = Len(q) - 1 /\ \A i \in 1 .. Len(q) - 1 : p[i] = q[i + 1]
    BY TailOf
  <1> HIDE DEF p
  <1>2. g \in [1 .. Len(p) -> 1 .. Len(q)]
    BY <1>1
  <1>3. (\A i, j \in 1 .. Len(p) : i < j => g[i] < g[j]) /\ \A i \in 1 .. Len(p) : p[i] = q[g[i]]
    BY <1>1
  <1> HIDE DEF g
  <1>4. Thins(q, p)
    BY <1>2, <1>3 DEF Thins
  <1> QED BY <1>4 DEF p

LEMMA ThinsRemoved ==
  ASSUME NEW S, NEW q \in Seq(S), NEW k \in 1 .. Len(q)
  PROVE  Thins(q, RemoveAt(q, k))
  <1> DEFINE p == RemoveAt(q, k) g == [i \in 1 .. Len(p) |-> IF i < k THEN i ELSE i + 1]
  <1>1. /\ Len(q) \in Nat /\ k \in Nat /\ Len(p) = Len(q) - 1
        /\ \A i \in 1 .. Len(q) - 1 : p[i] = IF i < k THEN q[i] ELSE q[i + 1]
    BY RemovedAt, LenProperties
  <1> HIDE DEF p
  <1>2. g \in [1 .. Len(p) -> 1 .. Len(q)]
    BY <1>1
  <1>3. (\A i, j \in 1 .. Len(p) : i < j => g[i] < g[j]) /\ \A i \in 1 .. Len(p) : p[i] = q[g[i]]
    BY <1>1
  <1> HIDE DEF g
  <1>4. Thins(q, p)
    BY <1>2, <1>3 DEF Thins
  <1> QED BY <1>4 DEF p

LEMMA ThinsLeft ==
  ASSUME NEW S, NEW q \in Seq(S)
  PROVE  Thins(q, q) /\ Thins(q, <<>>)
  <1>1. Len(q) \in Nat /\ Len(<<>>) = 0
    BY LenProperties
  <1> DEFINE g == [i \in 1 .. Len(q) |-> i] h == [i \in 1 .. 0 |-> i]
  <1>2. g \in [1 .. Len(q) -> 1 .. Len(q)] /\ h \in [1 .. 0 -> 1 .. Len(q)]
    BY <1>1
  <1>3. \A i \in 1 .. Len(q) : g[i] = i
    OBVIOUS
  <1> HIDE DEF g, h
  <1>4. Thins(q, q)
    BY <1>2, <1>3 DEF Thins
  <1> DEFINE e == <<>>
  <1>5. Len(e) = 0
    OBVIOUS
  <1> HIDE DEF e
  <1>6. Thins(q, e)
    <2>1. h \in [1 .. Len(e) -> 1 .. Len(q)] /\ \A i \in 1 .. Len(e) : FALSE
      BY <1>2, <1>5
    <2> QED BY <2>1 DEF Thins
  <1> QED BY <1>4, <1>6 DEF e

(***************************************************************************)
(* The invariant                                                           *)
(***************************************************************************)
Locked == {"offer", "clear", "offered", "trim", "remove", "configs", "offerAgain", "clearAgain", "put"}

PlacesOK ==
    /\ isStopped \in BOOLEAN
    /\ monitor \in Adders \cup {"none", "stop"}
    /\ adder \in [Adders -> Locked \cup {"idle", "old", "store", "releaseOld", "enter"}]
    /\ player \in {"poll", "decode", "done"}
    /\ stopper \in {"idle", "drain", "clear", "returned"}

(* Every number stands for a packet that was handed over. *)
HandedOK == handed \in Seq([by : Adders, config : BOOLEAN]) /\ Len(handed) <= MaxPackets
QueueOK == packets \in Seq(1 .. Len(handed)) /\ Len(packets) <= MaxBuffered
MemoryOK == released \subseteq 1 .. Len(handed) /\ decoded \subseteq 1 .. Len(handed)
NumbersOK ==
    /\ pendingCodecConfig \in 0 .. Len(handed) /\ decoding \in 0 .. Len(handed)
    /\ packet \in [Adders -> 0 .. Len(handed)] /\ other \in [Adders -> 0 .. Len(handed)]
    /\ player = "decode" <=> decoding # 0
    /\ \A t \in Adders : adder[t] # "idle" => packet[t] # 0 /\ handed[packet[t]].by = t

(* The monitor is held where addPacket and the drain are synchronized. *)
LockInv ==
    /\ \A t \in Adders : adder[t] \in Locked <=> monitor = t
    /\ stopper = "clear" <=> monitor = "stop"
    /\ stopper # "idle" <=> isStopped

(* Which packets are codec configs. *)
ConfigInv ==
    /\ pendingCodecConfig # 0 => isCodecConfig(pendingCodecConfig)
    /\ \A t \in Adders :
         /\ adder[t] \in {"old", "store", "releaseOld"} => isCodecConfig(packet[t])
         /\ adder[t] \in {"trim", "remove", "configs", "offerAgain", "clearAgain", "put"}
              => ~isCodecConfig(packet[t])
         /\ adder[t] = "remove" /\ other[t] # 0 => ~isCodecConfig(other[t])

QueueBase == PlacesOK /\ HandedOK /\ QueueOK /\ MemoryOK /\ NumbersOK /\ LockInv /\ ConfigInv

LEMMA QueueTyped == QueueBase => TypeOK
  <1> SUFFICES ASSUME QueueBase
               PROVE  TypeOK
    OBVIOUS
  <1> USE DEF QueueBase
  <1>1. Len(handed) \in Nat /\ 1 .. Len(handed) \subseteq 1 .. MaxPackets
        /\ 0 .. Len(handed) \subseteq 0 .. MaxPackets
    BY LenProperties, BoundsAssumption DEF HandedOK
  <1>2. packets \in Seq(1 .. MaxPackets)
    BY <1>1, Widened DEF QueueOK
  <1>3. /\ packet \in [Adders -> 0 .. MaxPackets] /\ other \in [Adders -> 0 .. MaxPackets]
        /\ pendingCodecConfig \in 0 .. MaxPackets /\ decoding \in 0 .. MaxPackets
    BY <1>1 DEF NumbersOK
  <1>4. released \subseteq 1 .. MaxPackets /\ decoded \subseteq 1 .. MaxPackets
    BY <1>1 DEF MemoryOK
  <1>5. adder \in [Adders -> {"idle", "old", "store", "releaseOld", "enter", "offer",
                             "clear", "offered", "trim", "remove", "configs",
                             "offerAgain", "clearAgain", "put"}]
    BY DEF PlacesOK, Locked
  <1> QED BY <1>2, <1>3, <1>4, <1>5 DEF TypeOK, PlacesOK, HandedOK, QueueOK

LEMMA QueueInit == Init => QueueBase
  <1> SUFFICES ASSUME Init
               PROVE  QueueBase
    OBVIOUS
  <1>1. Len(handed) = 0 /\ Len(packets) = 0 /\ 0 \in 0 .. 0
    BY DEF Init
  <1>2. HandedOK /\ QueueOK
    BY <1>1, BoundsAssumption DEF Init, HandedOK, QueueOK
  <1>3. MemoryOK /\ NumbersOK
    BY <1>1 DEF Init, MemoryOK, NumbersOK
  <1>4. LockInv /\ PlacesOK
    BY BoundsAssumption DEF Init, LockInv, PlacesOK, Locked
  <1>5. ConfigInv
    BY DEF Init, ConfigInv
  <1> QED BY <1>2, <1>3, <1>4, <1>5 DEF QueueBase

LEMMA QueueStep == QueueBase /\ Next => QueueBase'
  <1> SUFFICES ASSUME QueueBase, Next
               PROVE  QueueBase'
    OBVIOUS
  <1> USE DEF QueueBase, isCodecConfig
  <1>a. /\ Len(handed) \in Nat /\ Len(packets) \in Nat
        /\ MaxPackets \in Nat /\ MaxBuffered \in Nat /\ DOMAIN packets = 1 .. Len(packets)
    BY LenProperties, BoundsAssumption DEF HandedOK, QueueOK
  <1>b. ASSUME NEW n \in 1 .. Len(handed), packets' = Append(packets, n),
               Len(packets) < MaxBuffered, handed' = handed
        PROVE  QueueOK'
    <2>1. Append(packets, n) \in Seq(1 .. Len(handed)) /\ Len(Append(packets, n)) = Len(packets) + 1
      BY AppendProperties DEF QueueOK
    <2>2. Len(packets') <= MaxBuffered
      BY <1>a, <1>b, <2>1
    <2> QED BY <1>b, <2>1, <2>2 DEF QueueOK
  <1>c. ASSUME packets # <<>>, packets' = Tail(packets), handed' = handed
        PROVE  QueueOK'
    <2>1. Tail(packets) \in Seq(1 .. Len(handed)) /\ Len(Tail(packets)) = Len(packets) - 1
      BY <1>c, TailOf DEF QueueOK
    <2>2. Len(packets') <= MaxBuffered
      BY <1>a, <1>c, <2>1 DEF QueueOK
    <2> QED BY <1>c, <2>1, <2>2 DEF QueueOK
  <1>d. ASSUME NEW i \in DOMAIN packets, packets' = RemoveAt(packets, i), handed' = handed
        PROVE  QueueOK'
    <2>1. /\ RemoveAt(packets, i) \in Seq(1 .. Len(handed))
          /\ Len(RemoveAt(packets, i)) = Len(packets) - 1
      BY <1>a, RemovedAt DEF QueueOK
    <2>2. Len(packets') <= MaxBuffered
      BY <1>a, <1>d, <2>1 DEF QueueOK
    <2> QED BY <1>d, <2>1, <2>2 DEF QueueOK
  <1>h. ASSUME packets' = packets \/ packets' = <<>>, handed' = handed
        PROVE  QueueOK'
    <2>1. CASE packets' = packets
      BY <2>1, <1>h DEF QueueOK
    <2>2. CASE packets' = <<>>
      <3>1. <<>> \in Seq(1 .. Len(handed)) /\ Len(<<>>) <= MaxBuffered
        BY <1>a
      <3> QED BY <2>2, <3>1, <1>h DEF QueueOK
    <2> QED BY <2>1, <2>2, <1>h
  <1>i. packets # <<>> => Head(packets) \in 1 .. Len(handed)
    BY TailOf DEF QueueOK
  <1>e. \A i \in 1 .. Len(packets) : packets[i] \in 1 .. Len(handed)
    BY ElementOfSeq DEF QueueOK
  <1>f. ASSUME NEW t \in Adders
        PROVE  packet[t] \in 0 .. Len(handed) /\ other[t] \in 0 .. Len(handed)
    BY DEF NumbersOK
  <1>g. \A x \in 0 .. Len(handed) : {x} \ {0} \subseteq 1 .. Len(handed)
    BY <1>a
  <1>1. ASSUME NEW t \in Adders, Add(t)
        PROVE  QueueBase'
    <2>1. PlacesOK'
      BY <1>1, BoundsAssumption DEF Add, adderVars, playerVars, Goto, Leave, Release, PlacesOK, Locked
    <2>2. HandedOK'
      BY <1>1, <1>a DEF Add, adderVars, playerVars, Goto, Leave, Release, HandedOK
    <2>3. QueueOK'
      <3>1. packets' = packets /\ Len(handed') = Len(handed) + 1
        BY <1>1, <1>a DEF Add, adderVars, playerVars, Goto, Leave, Release, HandedOK
      <3>2. 1 .. Len(handed) \subseteq 1 .. Len(handed')
        BY <3>1, <1>a
      <3>3. packets \in Seq(1 .. Len(handed'))
        BY <3>2, Widened DEF QueueOK
      <3> QED BY <3>1, <3>3 DEF QueueOK
    <2>4. MemoryOK'
      BY <1>1, <1>a, <1>f, <1>g, <1>i DEF Add, adderVars, playerVars, Goto, Leave, Release, MemoryOK, NumbersOK
    <2>5. NumbersOK'
      <3>1. PICK config \in BOOLEAN :
              /\ handed' = Append(handed, [by |-> t, config |-> config])
              /\ adder' = [adder EXCEPT ![t] = IF config THEN "old" ELSE "enter"]
        BY <1>1 DEF Add, Goto
      <3>2. /\ Len(handed') = Len(handed) + 1
            /\ handed'[Len(handed) + 1] = [by |-> t, config |-> config]
            /\ \A n \in 1 .. Len(handed) : handed'[n] = handed[n]
        BY <3>1, <1>a DEF HandedOK
      <3>3. packet' = [packet EXCEPT ![t] = Len(handed) + 1]
            /\ UNCHANGED <<pendingCodecConfig, decoding, player, other>>
        BY <1>1 DEF Add, playerVars
      <3>4. \A u \in Adders : adder'[u] # "idle" => packet'[u] # 0 /\ handed'[packet'[u]].by = u
        BY <3>1, <3>2, <3>3, <1>a DEF NumbersOK, PlacesOK
      <3> QED BY <3>2, <3>3, <3>4, <1>a DEF NumbersOK
    <2>6. LockInv'
      BY <1>1, BoundsAssumption DEF Add, adderVars, playerVars, Goto, Leave, Release, PlacesOK, LockInv, Locked
    <2>7. ConfigInv'
      BY <1>1 DEF Add, adderVars, playerVars, Goto, Leave, Release, PlacesOK, NumbersOK, ConfigInv
    <2> QED BY <2>1, <2>2, <2>3, <2>4, <2>5, <2>6, <2>7
  <1>2. ASSUME NEW t \in Adders, ReadOld(t)
        PROVE  QueueBase'
    <2>1. PlacesOK'
      BY <1>2, BoundsAssumption DEF ReadOld, adderVars, playerVars, Goto, Leave, Release, PlacesOK, Locked
    <2>2. HandedOK'
      BY <1>2, <1>a DEF ReadOld, adderVars, playerVars, Goto, Leave, Release, HandedOK
    <2>3. QueueOK'
      BY <1>2, <1>a, <1>h DEF ReadOld, adderVars, playerVars, Goto, Leave, Release
    <2>4. MemoryOK'
      BY <1>2, <1>a, <1>f, <1>g, <1>i DEF ReadOld, adderVars, playerVars, Goto, Leave, Release, MemoryOK, NumbersOK
    <2>5. NumbersOK'
      BY <1>2, <1>a, <1>e, <1>i DEF ReadOld, adderVars, playerVars, Goto, Leave, Release, PlacesOK, NumbersOK, HandedOK
    <2>6. LockInv'
      BY <1>2, BoundsAssumption DEF ReadOld, adderVars, playerVars, Goto, Leave, Release, PlacesOK, LockInv, Locked
    <2>7. ConfigInv'
      BY <1>2 DEF ReadOld, adderVars, playerVars, Goto, Leave, Release, PlacesOK, NumbersOK, ConfigInv
    <2> QED BY <2>1, <2>2, <2>3, <2>4, <2>5, <2>6, <2>7
  <1>3. ASSUME NEW t \in Adders, StorePending(t)
        PROVE  QueueBase'
    <2>1. PlacesOK'
      BY <1>3, BoundsAssumption DEF StorePending, adderVars, playerVars, Goto, Leave, Release, PlacesOK, Locked
    <2>2. HandedOK'
      BY <1>3, <1>a DEF StorePending, adderVars, playerVars, Goto, Leave, Release, HandedOK
    <2>3. QueueOK'
      BY <1>3, <1>a, <1>h DEF StorePending, adderVars, playerVars, Goto, Leave, Release
    <2>4. MemoryOK'
      BY <1>3, <1>a, <1>f, <1>g, <1>i DEF StorePending, adderVars, playerVars, Goto, Leave, Release, MemoryOK, NumbersOK
    <2>5. NumbersOK'
      BY <1>3, <1>a, <1>e, <1>i DEF StorePending, adderVars, playerVars, Goto, Leave, Release, PlacesOK, NumbersOK, HandedOK
    <2>6. LockInv'
      BY <1>3, BoundsAssumption DEF StorePending, adderVars, playerVars, Goto, Leave, Release, PlacesOK, LockInv, Locked
    <2>7. ConfigInv'
      BY <1>3 DEF StorePending, adderVars, playerVars, Goto, Leave, Release, PlacesOK, NumbersOK, ConfigInv
    <2> QED BY <2>1, <2>2, <2>3, <2>4, <2>5, <2>6, <2>7
  <1>4. ASSUME NEW t \in Adders, ReleaseOld(t)
        PROVE  QueueBase'
    <2>1. PlacesOK'
      BY <1>4, BoundsAssumption DEF ReleaseOld, adderVars, playerVars, Goto, Leave, Release, PlacesOK, Locked
    <2>2. HandedOK'
      BY <1>4, <1>a DEF ReleaseOld, adderVars, playerVars, Goto, Leave, Release, HandedOK
    <2>3. QueueOK'
      BY <1>4, <1>a, <1>h DEF ReleaseOld, adderVars, playerVars, Goto, Leave, Release
    <2>4. MemoryOK'
      BY <1>4, <1>a, <1>f, <1>g, <1>i DEF ReleaseOld, adderVars, playerVars, Goto, Leave, Release, MemoryOK, NumbersOK
    <2>5. NumbersOK'
      BY <1>4, <1>a, <1>e, <1>i DEF ReleaseOld, adderVars, playerVars, Goto, Leave, Release, PlacesOK, NumbersOK, HandedOK
    <2>6. LockInv'
      BY <1>4, BoundsAssumption DEF ReleaseOld, adderVars, playerVars, Goto, Leave, Release, PlacesOK, LockInv, Locked
    <2>7. ConfigInv'
      BY <1>4 DEF ReleaseOld, adderVars, playerVars, Goto, Leave, Release, PlacesOK, NumbersOK, ConfigInv
    <2> QED BY <2>1, <2>2, <2>3, <2>4, <2>5, <2>6, <2>7
  <1>5. ASSUME NEW t \in Adders, Enter(t)
        PROVE  QueueBase'
    <2>1. PlacesOK'
      BY <1>5, BoundsAssumption DEF Enter, adderVars, playerVars, Goto, Leave, Release, PlacesOK, Locked
    <2>2. HandedOK'
      BY <1>5, <1>a DEF Enter, adderVars, playerVars, Goto, Leave, Release, HandedOK
    <2>3. QueueOK'
      BY <1>5, <1>a, <1>h DEF Enter, adderVars, playerVars, Goto, Leave, Release
    <2>4. MemoryOK'
      BY <1>5, <1>a, <1>f, <1>g, <1>i DEF Enter, adderVars, playerVars, Goto, Leave, Release, MemoryOK, NumbersOK
    <2>5. NumbersOK'
      BY <1>5, <1>a, <1>e, <1>i DEF Enter, adderVars, playerVars, Goto, Leave, Release, PlacesOK, NumbersOK, HandedOK
    <2>6. LockInv'
      BY <1>5, BoundsAssumption DEF Enter, adderVars, playerVars, Goto, Leave, Release, PlacesOK, LockInv, Locked
    <2>7. ConfigInv'
      BY <1>5 DEF Enter, adderVars, playerVars, Goto, Leave, Release, PlacesOK, NumbersOK, ConfigInv
    <2> QED BY <2>1, <2>2, <2>3, <2>4, <2>5, <2>6, <2>7
  <1>6. ASSUME NEW t \in Adders, OfferPending(t)
        PROVE  QueueBase'
    <2>1. PlacesOK'
      BY <1>6, BoundsAssumption DEF OfferPending, adderVars, playerVars, Goto, Leave, Release, PlacesOK, Locked
    <2>2. HandedOK'
      BY <1>6, <1>a DEF OfferPending, adderVars, playerVars, Goto, Leave, Release, HandedOK
    <2>3. QueueOK'
      BY <1>6, <1>a, <1>b DEF OfferPending, adderVars, playerVars, Goto, Leave, Release, NumbersOK
    <2>4. MemoryOK'
      BY <1>6, <1>a, <1>f, <1>g, <1>i DEF OfferPending, adderVars, playerVars, Goto, Leave, Release, MemoryOK, NumbersOK
    <2>5. NumbersOK'
      BY <1>6, <1>a, <1>e, <1>i DEF OfferPending, adderVars, playerVars, Goto, Leave, Release, PlacesOK, NumbersOK, HandedOK
    <2>6. LockInv'
      BY <1>6, BoundsAssumption DEF OfferPending, adderVars, playerVars, Goto, Leave, Release, PlacesOK, LockInv, Locked
    <2>7. ConfigInv'
      BY <1>6 DEF OfferPending, adderVars, playerVars, Goto, Leave, Release, PlacesOK, NumbersOK, ConfigInv
    <2> QED BY <2>1, <2>2, <2>3, <2>4, <2>5, <2>6, <2>7
  <1>7. ASSUME NEW t \in Adders, ClearPending(t)
        PROVE  QueueBase'
    <2>1. PlacesOK'
      BY <1>7, BoundsAssumption DEF ClearPending, adderVars, playerVars, Goto, Leave, Release, PlacesOK, Locked
    <2>2. HandedOK'
      BY <1>7, <1>a DEF ClearPending, adderVars, playerVars, Goto, Leave, Release, HandedOK
    <2>3. QueueOK'
      BY <1>7, <1>a, <1>h DEF ClearPending, adderVars, playerVars, Goto, Leave, Release
    <2>4. MemoryOK'
      BY <1>7, <1>a, <1>f, <1>g, <1>i DEF ClearPending, adderVars, playerVars, Goto, Leave, Release, MemoryOK, NumbersOK
    <2>5. NumbersOK'
      BY <1>7, <1>a, <1>e, <1>i DEF ClearPending, adderVars, playerVars, Goto, Leave, Release, PlacesOK, NumbersOK, HandedOK
    <2>6. LockInv'
      BY <1>7, BoundsAssumption DEF ClearPending, adderVars, playerVars, Goto, Leave, Release, PlacesOK, LockInv, Locked
    <2>7. ConfigInv'
      BY <1>7 DEF ClearPending, adderVars, playerVars, Goto, Leave, Release, PlacesOK, NumbersOK, ConfigInv
    <2> QED BY <2>1, <2>2, <2>3, <2>4, <2>5, <2>6, <2>7
  <1>8. ASSUME NEW t \in Adders, NothingToOffer(t)
        PROVE  QueueBase'
    <2>1. PlacesOK'
      BY <1>8, BoundsAssumption DEF NothingToOffer, adderVars, playerVars, Goto, Leave, Release, PlacesOK, Locked
    <2>2. HandedOK'
      BY <1>8, <1>a DEF NothingToOffer, adderVars, playerVars, Goto, Leave, Release, HandedOK
    <2>3. QueueOK'
      BY <1>8, <1>a, <1>h DEF NothingToOffer, adderVars, playerVars, Goto, Leave, Release
    <2>4. MemoryOK'
      BY <1>8, <1>a, <1>f, <1>g, <1>i DEF NothingToOffer, adderVars, playerVars, Goto, Leave, Release, MemoryOK, NumbersOK
    <2>5. NumbersOK'
      BY <1>8, <1>a, <1>e, <1>i DEF NothingToOffer, adderVars, playerVars, Goto, Leave, Release, PlacesOK, NumbersOK, HandedOK
    <2>6. LockInv'
      BY <1>8, BoundsAssumption DEF NothingToOffer, adderVars, playerVars, Goto, Leave, Release, PlacesOK, LockInv, Locked
    <2>7. ConfigInv'
      BY <1>8 DEF NothingToOffer, adderVars, playerVars, Goto, Leave, Release, PlacesOK, NumbersOK, ConfigInv
    <2> QED BY <2>1, <2>2, <2>3, <2>4, <2>5, <2>6, <2>7
  <1>9. ASSUME NEW t \in Adders, Offered(t)
        PROVE  QueueBase'
    <2>1. PlacesOK'
      BY <1>9, BoundsAssumption DEF Offered, adderVars, playerVars, Goto, Leave, Release, PlacesOK, Locked
    <2>2. HandedOK'
      BY <1>9, <1>a DEF Offered, adderVars, playerVars, Goto, Leave, Release, HandedOK
    <2>3. QueueOK'
      BY <1>9, <1>a, <1>h DEF Offered, adderVars, playerVars, Goto, Leave, Release
    <2>4. MemoryOK'
      BY <1>9, <1>a, <1>f, <1>g, <1>i DEF Offered, adderVars, playerVars, Goto, Leave, Release, MemoryOK, NumbersOK
    <2>5. NumbersOK'
      BY <1>9, <1>a, <1>e, <1>i DEF Offered, adderVars, playerVars, Goto, Leave, Release, PlacesOK, NumbersOK, HandedOK
    <2>6. LockInv'
      BY <1>9, BoundsAssumption DEF Offered, adderVars, playerVars, Goto, Leave, Release, PlacesOK, LockInv, Locked
    <2>7. ConfigInv'
      BY <1>9 DEF Offered, adderVars, playerVars, Goto, Leave, Release, PlacesOK, NumbersOK, ConfigInv
    <2> QED BY <2>1, <2>2, <2>3, <2>4, <2>5, <2>6, <2>7
  <1>10. ASSUME NEW t \in Adders, TrimLook(t)
        PROVE  QueueBase'
    <2>1. PlacesOK'
      BY <1>10, BoundsAssumption DEF TrimLook, adderVars, playerVars, Goto, Leave, Release, TrimIf, Look, Frames, PlacesOK, Locked
    <2>2. HandedOK'
      BY <1>10, <1>a DEF TrimLook, adderVars, playerVars, Goto, Leave, Release, TrimIf, Look, Frames, HandedOK
    <2>3. QueueOK'
      BY <1>10, <1>a, <1>h DEF TrimLook, adderVars, playerVars, Goto, Leave, Release, TrimIf, Look, Frames
    <2>4. MemoryOK'
      BY <1>10, <1>a, <1>f, <1>g, <1>i DEF TrimLook, adderVars, playerVars, Goto, Leave, Release, TrimIf, Look, Frames, MemoryOK, NumbersOK
    <2>5. NumbersOK'
      <3>1. PICK n \in 0 .. Len(handed) : other' = [other EXCEPT ![t] = n]
        BY <1>10, <1>a, <1>e DEF TrimLook, TrimIf, Look, Frames
      <3>2. adder' = [adder EXCEPT ![t] = "remove"] \/ adder' = [adder EXCEPT ![t] = "offerAgain"]
        BY <1>10 DEF TrimLook, TrimIf, Look, Goto
      <3>3. adder[t] = "trim" /\ UNCHANGED <<packet, pendingCodecConfig, decoding, player, handed>>
        BY <1>10 DEF TrimLook, TrimIf, Look, playerVars
      <3> QED BY <3>1, <3>2, <3>3 DEF NumbersOK, PlacesOK
    <2>6. LockInv'
      BY <1>10, BoundsAssumption DEF TrimLook, adderVars, playerVars, Goto, Leave, Release, TrimIf, Look, Frames, PlacesOK, LockInv, Locked
    <2>7. ConfigInv'
      BY <1>10 DEF TrimLook, adderVars, playerVars, Goto, Leave, Release, TrimIf, Look, Frames, PlacesOK, NumbersOK, ConfigInv
    <2> QED BY <2>1, <2>2, <2>3, <2>4, <2>5, <2>6, <2>7
  <1>11. ASSUME NEW t \in Adders, TrimRemove(t)
        PROVE  QueueBase'
    <2>1. PlacesOK'
      BY <1>11, BoundsAssumption DEF TrimRemove, adderVars, playerVars, Goto, Leave, Release, PlacesOK, Locked
    <2>2. HandedOK'
      BY <1>11, <1>a DEF TrimRemove, adderVars, playerVars, Goto, Leave, Release, HandedOK
    <2>3. QueueOK'
      BY <1>11, <1>d, <1>h DEF TrimRemove, adderVars, playerVars, Goto, Leave, Release
    <2>4. MemoryOK'
      BY <1>11, <1>a, <1>f, <1>g, <1>i DEF TrimRemove, adderVars, playerVars, Goto, Leave, Release, MemoryOK, NumbersOK
    <2>5. NumbersOK'
      BY <1>11, <1>a, <1>e, <1>i DEF TrimRemove, adderVars, playerVars, Goto, Leave, Release, PlacesOK, NumbersOK, HandedOK
    <2>6. LockInv'
      BY <1>11, BoundsAssumption DEF TrimRemove, adderVars, playerVars, Goto, Leave, Release, PlacesOK, LockInv, Locked
    <2>7. ConfigInv'
      BY <1>11 DEF TrimRemove, adderVars, playerVars, Goto, Leave, Release, PlacesOK, NumbersOK, ConfigInv
    <2> QED BY <2>1, <2>2, <2>3, <2>4, <2>5, <2>6, <2>7
  <1>12. ASSUME NEW t \in Adders, TrimConfigs(t)
        PROVE  QueueBase'
    <2>1. PlacesOK'
      BY <1>12, BoundsAssumption DEF TrimConfigs, adderVars, playerVars, Goto, Leave, Release, Frames, PlacesOK, Locked
    <2>2. HandedOK'
      BY <1>12, <1>a DEF TrimConfigs, adderVars, playerVars, Goto, Leave, Release, Frames, HandedOK
    <2>3. QueueOK'
      <3>1. Len(packets) >= MaxQueued => packets # <<>>
        BY BoundsAssumption
      <3> QED BY <1>12, <3>1, <1>c, <1>h DEF TrimConfigs, adderVars, playerVars, Goto, Leave, Release, Frames
    <2>4. MemoryOK'
      <3>1. packets # <<>> => {Head(packets)} \ {0} \subseteq 1 .. Len(handed)
        BY <1>i
      <3>2. Len(packets) >= MaxQueued => packets # <<>>
        BY BoundsAssumption
      <3>3. released' = released \/ (packets # <<>> /\ released' = released \cup ({Head(packets)} \ {0}))
        BY <1>12, <3>2 DEF TrimConfigs, Release
      <3> QED BY <1>12, <3>1, <3>3 DEF TrimConfigs, playerVars, MemoryOK
    <2>5. NumbersOK'
      BY <1>12, <1>a, <1>e, <1>i DEF TrimConfigs, adderVars, playerVars, Goto, Leave, Release, Frames, PlacesOK, NumbersOK, HandedOK
    <2>6. LockInv'
      BY <1>12, BoundsAssumption DEF TrimConfigs, adderVars, playerVars, Goto, Leave, Release, Frames, PlacesOK, LockInv, Locked
    <2>7. ConfigInv'
      BY <1>12 DEF TrimConfigs, adderVars, playerVars, Goto, Leave, Release, Frames, PlacesOK, NumbersOK, ConfigInv
    <2> QED BY <2>1, <2>2, <2>3, <2>4, <2>5, <2>6, <2>7
  <1>13. ASSUME NEW t \in Adders, PutFrame(t)
        PROVE  QueueBase'
    <2>1. PlacesOK'
      BY <1>13, BoundsAssumption DEF PutFrame, adderVars, playerVars, Goto, Leave, Release, PlacesOK, Locked
    <2>2. HandedOK'
      BY <1>13, <1>a DEF PutFrame, adderVars, playerVars, Goto, Leave, Release, HandedOK
    <2>3. QueueOK'
      BY <1>13, <1>b, <1>h, <1>f DEF PutFrame, adderVars, playerVars, Goto, Leave, Release, NumbersOK
    <2>4. MemoryOK'
      BY <1>13, <1>a, <1>f, <1>g, <1>i DEF PutFrame, adderVars, playerVars, Goto, Leave, Release, MemoryOK, NumbersOK
    <2>5. NumbersOK'
      BY <1>13, <1>a, <1>e, <1>i DEF PutFrame, adderVars, playerVars, Goto, Leave, Release, PlacesOK, NumbersOK, HandedOK
    <2>6. LockInv'
      BY <1>13, BoundsAssumption DEF PutFrame, adderVars, playerVars, Goto, Leave, Release, PlacesOK, LockInv, Locked
    <2>7. ConfigInv'
      BY <1>13 DEF PutFrame, adderVars, playerVars, Goto, Leave, Release, PlacesOK, NumbersOK, ConfigInv
    <2> QED BY <2>1, <2>2, <2>3, <2>4, <2>5, <2>6, <2>7
  <1>14. CASE Poll
    <2>1. PlacesOK'
      BY <1>14, BoundsAssumption DEF Poll, adderVars, playerVars, Goto, Leave, Release, PlacesOK, Locked
    <2>2. HandedOK'
      BY <1>14, <1>a DEF Poll, adderVars, playerVars, Goto, Leave, Release, HandedOK
    <2>3. QueueOK'
      BY <1>14, <1>c DEF Poll, adderVars, playerVars, Goto, Leave, Release
    <2>4. MemoryOK'
      BY <1>14, <1>a, <1>f, <1>g, <1>i DEF Poll, adderVars, playerVars, Goto, Leave, Release, MemoryOK, NumbersOK
    <2>5. NumbersOK'
      BY <1>14, <1>a, <1>e, <1>i DEF Poll, adderVars, playerVars, Goto, Leave, Release, PlacesOK, NumbersOK, HandedOK
    <2>6. LockInv'
      BY <1>14, BoundsAssumption DEF Poll, adderVars, playerVars, Goto, Leave, Release, PlacesOK, LockInv, Locked
    <2>7. ConfigInv'
      BY <1>14 DEF Poll, adderVars, playerVars, Goto, Leave, Release, PlacesOK, NumbersOK, ConfigInv
    <2> QED BY <2>1, <2>2, <2>3, <2>4, <2>5, <2>6, <2>7
  <1>15. CASE Decode
    <2>1. PlacesOK'
      BY <1>15, BoundsAssumption DEF Decode, adderVars, playerVars, Goto, Leave, Release, PlacesOK, Locked
    <2>2. HandedOK'
      BY <1>15, <1>a DEF Decode, adderVars, playerVars, Goto, Leave, Release, HandedOK
    <2>3. QueueOK'
      BY <1>15, <1>a, <1>h DEF Decode, adderVars, playerVars, Goto, Leave, Release
    <2>4. MemoryOK'
      BY <1>15, <1>a, <1>f, <1>g, <1>i DEF Decode, adderVars, playerVars, Goto, Leave, Release, MemoryOK, NumbersOK
    <2>5. NumbersOK'
      BY <1>15, <1>a, <1>e, <1>i DEF Decode, adderVars, playerVars, Goto, Leave, Release, PlacesOK, NumbersOK, HandedOK
    <2>6. LockInv'
      BY <1>15, BoundsAssumption DEF Decode, adderVars, playerVars, Goto, Leave, Release, PlacesOK, LockInv, Locked
    <2>7. ConfigInv'
      BY <1>15 DEF Decode, adderVars, playerVars, Goto, Leave, Release, PlacesOK, NumbersOK, ConfigInv
    <2> QED BY <2>1, <2>2, <2>3, <2>4, <2>5, <2>6, <2>7
  <1>16. CASE Exit
    <2>1. PlacesOK'
      BY <1>16, BoundsAssumption DEF Exit, adderVars, playerVars, Goto, Leave, Release, PlacesOK, Locked
    <2>2. HandedOK'
      BY <1>16, <1>a DEF Exit, adderVars, playerVars, Goto, Leave, Release, HandedOK
    <2>3. QueueOK'
      BY <1>16, <1>a, <1>h DEF Exit, adderVars, playerVars, Goto, Leave, Release
    <2>4. MemoryOK'
      BY <1>16, <1>a, <1>f, <1>g, <1>i DEF Exit, adderVars, playerVars, Goto, Leave, Release, MemoryOK, NumbersOK
    <2>5. NumbersOK'
      BY <1>16, <1>a, <1>e, <1>i DEF Exit, adderVars, playerVars, Goto, Leave, Release, PlacesOK, NumbersOK, HandedOK
    <2>6. LockInv'
      BY <1>16, BoundsAssumption DEF Exit, adderVars, playerVars, Goto, Leave, Release, PlacesOK, LockInv, Locked
    <2>7. ConfigInv'
      BY <1>16 DEF Exit, adderVars, playerVars, Goto, Leave, Release, PlacesOK, NumbersOK, ConfigInv
    <2> QED BY <2>1, <2>2, <2>3, <2>4, <2>5, <2>6, <2>7
  <1>17. CASE StopDecode
    <2>1. PlacesOK'
      BY <1>17, BoundsAssumption DEF StopDecode, adderVars, playerVars, Goto, Leave, Release, PlacesOK, Locked
    <2>2. HandedOK'
      BY <1>17, <1>a DEF StopDecode, adderVars, playerVars, Goto, Leave, Release, HandedOK
    <2>3. QueueOK'
      BY <1>17, <1>a, <1>h DEF StopDecode, adderVars, playerVars, Goto, Leave, Release
    <2>4. MemoryOK'
      BY <1>17, <1>a, <1>f, <1>g, <1>i DEF StopDecode, adderVars, playerVars, Goto, Leave, Release, MemoryOK, NumbersOK
    <2>5. NumbersOK'
      BY <1>17, <1>a, <1>e, <1>i DEF StopDecode, adderVars, playerVars, Goto, Leave, Release, PlacesOK, NumbersOK, HandedOK
    <2>6. LockInv'
      BY <1>17, BoundsAssumption DEF StopDecode, adderVars, playerVars, Goto, Leave, Release, PlacesOK, LockInv, Locked
    <2>7. ConfigInv'
      BY <1>17 DEF StopDecode, adderVars, playerVars, Goto, Leave, Release, PlacesOK, NumbersOK, ConfigInv
    <2> QED BY <2>1, <2>2, <2>3, <2>4, <2>5, <2>6, <2>7
  <1>18. CASE Drain
    <2>1. PlacesOK'
      BY <1>18, BoundsAssumption DEF Drain, adderVars, playerVars, Goto, Leave, Release, PlacesOK, Locked
    <2>2. HandedOK'
      BY <1>18, <1>a DEF Drain, adderVars, playerVars, Goto, Leave, Release, HandedOK
    <2>3. QueueOK'
      BY <1>18, <1>a, <1>h DEF Drain, adderVars, playerVars, Goto, Leave, Release
    <2>4. MemoryOK'
      <3>1. (ToSet(packets) \cup {pendingCodecConfig}) \ {0} \subseteq 1 .. Len(handed)
        BY <1>a, <1>e DEF ToSet, NumbersOK
      <3> QED BY <1>18, <3>1 DEF Drain, Release, playerVars, MemoryOK
    <2>5. NumbersOK'
      BY <1>18, <1>a, <1>e, <1>i DEF Drain, adderVars, playerVars, Goto, Leave, Release, PlacesOK, NumbersOK, HandedOK
    <2>6. LockInv'
      BY <1>18, BoundsAssumption DEF Drain, adderVars, playerVars, Goto, Leave, Release, PlacesOK, LockInv, Locked
    <2>7. ConfigInv'
      BY <1>18 DEF Drain, adderVars, playerVars, Goto, Leave, Release, PlacesOK, NumbersOK, ConfigInv
    <2> QED BY <2>1, <2>2, <2>3, <2>4, <2>5, <2>6, <2>7
  <1>19. CASE DrainDone
    <2>1. PlacesOK'
      BY <1>19, BoundsAssumption DEF DrainDone, adderVars, playerVars, Goto, Leave, Release, PlacesOK, Locked
    <2>2. HandedOK'
      BY <1>19, <1>a DEF DrainDone, adderVars, playerVars, Goto, Leave, Release, HandedOK
    <2>3. QueueOK'
      BY <1>19, <1>a, <1>h DEF DrainDone, adderVars, playerVars, Goto, Leave, Release
    <2>4. MemoryOK'
      BY <1>19, <1>a, <1>f, <1>g, <1>i DEF DrainDone, adderVars, playerVars, Goto, Leave, Release, MemoryOK, NumbersOK
    <2>5. NumbersOK'
      BY <1>19, <1>a, <1>e, <1>i DEF DrainDone, adderVars, playerVars, Goto, Leave, Release, PlacesOK, NumbersOK, HandedOK
    <2>6. LockInv'
      BY <1>19, BoundsAssumption DEF DrainDone, adderVars, playerVars, Goto, Leave, Release, PlacesOK, LockInv, Locked
    <2>7. ConfigInv'
      BY <1>19 DEF DrainDone, adderVars, playerVars, Goto, Leave, Release, PlacesOK, NumbersOK, ConfigInv
    <2> QED BY <2>1, <2>2, <2>3, <2>4, <2>5, <2>6, <2>7
  <1> QED BY <1>1, <1>2, <1>3, <1>4, <1>5, <1>6, <1>7, <1>8, <1>9, <1>10, <1>11, <1>12, <1>13, <1>14, <1>15, <1>16, <1>17, <1>18, <1>19 DEF Next, AddPacket, PlayerThread, StopGoesOn

(* What a step does to the queue: it takes some places out, or adds one packet. *)
LEMMA QueueMoves ==
  ASSUME QueueBase, Next
  PROVE  \/ Thins(packets, packets')
         \/ \E t \in Adders : OfferPending(t)
         \/ \E t \in Adders : PutFrame(t) /\ packets' = Append(packets, packet[t])
  <1>1. packets \in Seq(1 .. Len(handed)) /\ DOMAIN packets = 1 .. Len(packets)
    BY LenProperties DEF QueueBase, QueueOK
  <1>2. CASE packets' = packets \/ packets' = <<>>
    BY <1>1, <1>2, ThinsLeft
  <1>3. ASSUME NEW t \in Adders, TrimRemove(t)
        PROVE  Thins(packets, packets')
    BY <1>1, <1>3, ThinsLeft, ThinsRemoved DEF TrimRemove
  <1>4. ASSUME packets # <<>>, packets' = Tail(packets)
        PROVE  Thins(packets, packets')
    BY <1>1, <1>4, ThinsTail
  <1>5. ASSUME NEW t \in Adders, TrimConfigs(t)
        PROVE  packets' = packets \/ (packets # <<>> /\ packets' = Tail(packets))
    <2>1. Len(packets) >= MaxQueued => packets # <<>>
      BY BoundsAssumption
    <2> QED BY <1>5, <2>1 DEF TrimConfigs
  <1>6. ASSUME NEW t \in Adders, PutFrame(t)
        PROVE  packets' = packets \/ packets' = Append(packets, packet[t])
    BY <1>6 DEF PutFrame
  <1>7. ASSUME NEW t \in Adders,
               Add(t) \/ ReadOld(t) \/ StorePending(t) \/ ReleaseOld(t) \/ Enter(t)
                 \/ ClearPending(t) \/ NothingToOffer(t) \/ Offered(t) \/ TrimLook(t)
        PROVE  packets' = packets
    BY <1>7 DEF Add, ReadOld, StorePending, ReleaseOld, Enter, ClearPending, NothingToOffer,
                Offered, TrimLook, TrimIf, Look
  <1>8. CASE Poll
    BY <1>4, <1>8 DEF Poll
  <1>9. CASE Decode \/ Exit \/ StopDecode \/ DrainDone \/ Drain
    BY <1>2, <1>9 DEF Decode, Exit, StopDecode, DrainDone, Drain
  <1> QED BY <1>2, <1>3, <1>4, <1>5, <1>6, <1>7, <1>8, <1>9
          DEF Next, AddPacket, PlayerThread, StopGoesOn

(***************************************************************************)
(* The backlog                                                             *)
(***************************************************************************)
FrameNumbers == {n \in 1 .. Len(handed) : ~isCodecConfig(n)}

(* Room was made for the frame that is about to be put. *)
Backlog ==
    /\ Cardinality(Frames) <= MaxQueued
    /\ \A t \in Adders :
         adder[t] \in {"offerAgain", "clearAgain", "put"} => Cardinality(Frames) < MaxQueued
BacklogIInv == QueueBase /\ Backlog

LEMMA FramePlaces ==
  ASSUME QueueBase
  PROVE  /\ Frames = Places(packets, FrameNumbers)
         /\ Cardinality(Frames) \in Nat /\ Cardinality(Frames) <= Len(packets)
  <1>1. packets \in Seq(1 .. Len(handed)) /\ DOMAIN packets = 1 .. Len(packets)
    BY LenProperties DEF QueueBase, QueueOK
  <1>2. \A i \in 1 .. Len(packets) : packets[i] \in 1 .. Len(handed)
    BY <1>1, ElementOfSeq
  <1>3. Frames = Places(packets, FrameNumbers)
    BY <1>1, <1>2 DEF Frames, Places, FrameNumbers
  <1> QED BY <1>1, <1>3, PlacesFinite

LEMMA FramesMove ==
  ASSUME QueueBase, Next
  PROVE  /\ Cardinality(Frames') \in Nat
         /\ \/ Cardinality(Frames') <= Cardinality(Frames)
            \/ \E t \in Adders : PutFrame(t) /\ Cardinality(Frames') = Cardinality(Frames) + 1
  <1>1. QueueBase'
    BY QueueStep
  <1>2. /\ packets \in Seq(1 .. Len(handed)) /\ packets' \in Seq(1 .. Len(handed'))
        /\ Len(handed) \in Nat
    BY <1>1, LenProperties DEF QueueBase, QueueOK, HandedOK
  <1>3. Cardinality(Frames) = Cardinality(Places(packets, FrameNumbers)) /\ Cardinality(Frames) \in Nat
    BY FramePlaces
  <1>4. Frames' = Places(packets', FrameNumbers')
    <2>1. DOMAIN packets' = 1 .. Len(packets')
      BY <1>2, LenProperties
    <2>2. \A i \in 1 .. Len(packets') : packets'[i] \in 1 .. Len(handed')
      BY <1>2, ElementOfSeq
    <2> QED BY <2>1, <2>2 DEF Frames, Places, FrameNumbers, isCodecConfig
  <1>8. Cardinality(Frames') \in Nat
    BY <1>2, <1>4, PlacesFinite
  <1>5. ASSUME NEW t \in Adders, Add(t)
        PROVE  Frames' = Frames
    <2>1. packets' = packets /\ \A n \in 1 .. Len(handed) : handed'[n] = handed[n]
      BY <1>5, <1>2 DEF Add, QueueBase, HandedOK
    <2>2. \A i \in DOMAIN packets : packets[i] \in 1 .. Len(handed)
      BY <1>2, LenProperties, ElementOfSeq
    <2> QED BY <2>1, <2>2 DEF Frames, isCodecConfig
  <1>6. CASE handed' = handed
    <2>1. FrameNumbers' = FrameNumbers
      BY <1>6 DEF FrameNumbers, isCodecConfig
    <2>2. CASE Thins(packets, packets')
      <3>1. Cardinality(Places(packets', FrameNumbers)) <= Cardinality(Places(packets, FrameNumbers))
        BY <1>2, <2>2, PlacesThinned
      <3> QED BY <3>1, <2>1, <1>3, <1>4, <1>8
    <2>3. ASSUME NEW n \in 1 .. Len(handed), packets' = Append(packets, n)
          PROVE  Cardinality(Frames') = Cardinality(Frames) + IF n \in FrameNumbers THEN 1 ELSE 0
      <3>1. Cardinality(Places(Append(packets, n), FrameNumbers)) =
              Cardinality(Places(packets, FrameNumbers)) + IF n \in FrameNumbers THEN 1 ELSE 0
        BY <1>2, PlacesAppend
      <3>2. Frames' = Places(packets', FrameNumbers)
        BY <2>1, <1>4
      <3> QED BY <3>1, <3>2, <2>3, <1>3
    <2>4. ASSUME NEW t \in Adders, OfferPending(t)
          PROVE  Cardinality(Frames') <= Cardinality(Frames)
      <3>1. /\ pendingCodecConfig \in 1 .. Len(handed) /\ pendingCodecConfig \notin FrameNumbers
            /\ packets' = Append(packets, pendingCodecConfig)
        BY <2>4, <1>2 DEF OfferPending, QueueBase, NumbersOK, ConfigInv, FrameNumbers
      <3> QED BY <3>1, <2>3, <1>3
    <2>5. ASSUME NEW t \in Adders, PutFrame(t), packets' = Append(packets, packet[t])
          PROVE  Cardinality(Frames') = Cardinality(Frames) + 1
      <3>1. packet[t] \in 1 .. Len(handed) /\ packet[t] \in FrameNumbers
        BY <2>5, <1>2 DEF PutFrame, QueueBase, NumbersOK, ConfigInv, FrameNumbers
      <3> QED BY <3>1, <2>5, <2>3, <1>3
    <2>6. CASE \E t \in Adders : OfferPending(t)
      BY <2>4, <2>6, <1>8
    <2>7. CASE \E t \in Adders : PutFrame(t) /\ packets' = Append(packets, packet[t])
      BY <2>5, <2>7, <1>8
    <2> QED BY <2>2, <2>6, <2>7, QueueMoves
  <1>7. handed' = handed \/ \E t \in Adders : Add(t)
    BY DEF Next, AddPacket, PlayerThread, StopGoesOn, ReadOld, StorePending, ReleaseOld, Enter,
           OfferPending, ClearPending, NothingToOffer, Offered, TrimLook, TrimIf, Look, TrimRemove,
           TrimConfigs, PutFrame, Poll, Decode, Exit, StopDecode, Drain, DrainDone
  <1> QED BY <1>3, <1>5, <1>6, <1>7, <1>8

LEMMA BacklogStep == BacklogIInv /\ Next => BacklogIInv'
  <1> SUFFICES ASSUME QueueBase, Backlog, Next
               PROVE  Backlog'
    BY QueueStep DEF BacklogIInv
  <1> DEFINE Late == {"offerAgain", "clearAgain", "put"}
  <1>1. /\ Cardinality(Frames) \in Nat /\ Cardinality(Frames) <= Len(packets)
        /\ Cardinality(Frames') \in Nat /\ Len(packets) \in Nat /\ MaxQueued \in Nat
    BY FramePlaces, FramesMove, LenProperties, BoundsAssumption DEF QueueBase, QueueOK
  <1>2. ASSUME NEW t \in Adders, adder'[t] \in Late, adder[t] \notin Late
        PROVE  Len(packets) < MaxQueued
    <2>1. ASSUME NEW u \in Adders, TrimLook(u)
          PROVE  Len(packets) < MaxQueued
      BY <2>1, <1>1, <1>2 DEF TrimLook, TrimIf, Look, Goto, QueueBase, PlacesOK
    <2>2. ASSUME NEW u \in Adders,
                 \/ ReadOld(u) \/ StorePending(u) \/ ReleaseOld(u) \/ Enter(u) \/ Offered(u)
                 \/ Add(u) \/ TrimRemove(u) \/ TrimConfigs(u) \/ PutFrame(u)
          PROVE  FALSE
      BY <2>2, <1>2 DEF ReadOld, StorePending, ReleaseOld, Enter, Offered, Add, TrimRemove,
                        TrimConfigs, PutFrame, Goto, Leave, QueueBase, PlacesOK
    <2>3. ASSUME NEW u \in Adders, OfferPending(u) \/ ClearPending(u) \/ NothingToOffer(u)
          PROVE  FALSE
      BY <2>3, <1>2 DEF OfferPending, ClearPending, NothingToOffer, Goto, QueueBase, PlacesOK
    <2>4. CASE PlayerThread \/ StopDecode \/ StopGoesOn
      BY <2>4, <1>2 DEF PlayerThread, StopGoesOn, Poll, Decode, Exit, StopDecode, Drain, DrainDone,
                        adderVars
    <2> QED BY <2>1, <2>2, <2>3, <2>4 DEF Next, AddPacket
  <1>3. CASE Cardinality(Frames') <= Cardinality(Frames)
    BY <1>1, <1>2, <1>3 DEF Backlog
  <1>4. ASSUME NEW t \in Adders, PutFrame(t), Cardinality(Frames') = Cardinality(Frames) + 1
        PROVE  Backlog'
    <2>1. Cardinality(Frames) < MaxQueued
      BY <1>4 DEF Backlog, PutFrame
    <2>2. \A u \in Adders : adder'[u] \notin Late
      BY <1>4 DEF PutFrame, Leave, Goto, QueueBase, LockInv, PlacesOK, Locked
    <2> QED BY <1>1, <1>4, <2>1, <2>2 DEF Backlog
  <1> QED BY <1>3, <1>4, FramesMove

LEMMA BacklogInit == Init => BacklogIInv
  <1> SUFFICES ASSUME Init
               PROVE  Backlog
    BY QueueInit DEF BacklogIInv
  <1>1. Frames = {}
    BY DEF Init, Frames
  <1> QED BY <1>1, FS_EmptySet, BoundsAssumption DEF Init, Backlog

LEMMA QueueStutter == QueueBase /\ UNCHANGED vars => QueueBase'
  BY DEF QueueBase, PlacesOK, HandedOK, QueueOK, MemoryOK, NumbersOK, LockInv, ConfigInv,
         isCodecConfig, vars, adderVars, playerVars

(***************************************************************************)
(* Frames that wait for the decoder never exceed MaxQueued, for any number *)
(* of threads that add packets and any lengths: trimBacklog makes room     *)
(* before a frame is put (VideoPlayer.kt:290), and between the two nothing *)
(* but a codec config joins the queue.                                     *)
(***************************************************************************)
THEOREM BacklogBounded == Spec => []BacklogInv
  <1>1. BacklogIInv => BacklogInv
    BY DEF BacklogIInv, Backlog, BacklogInv
  <1>2. BacklogIInv /\ UNCHANGED vars => BacklogIInv'
    BY QueueStutter DEF BacklogIInv, Backlog, Frames, isCodecConfig, vars, adderVars
  <1>3. BacklogIInv /\ [Next]_vars => BacklogIInv'
    BY <1>2, BacklogStep
  <1> QED BY <1>1, <1>3, BacklogInit, PTL DEF Spec

(***************************************************************************)
(* The order                                                               *)
(***************************************************************************)
By(n) == handed[n].by
Out == decoded \cup ({decoding} \ {0})
Waiting == {packets[i] : i \in 1 .. Len(packets)}
Ahead == Out \cup Waiting

(* The packet that t hands over is not pending and not in the queue yet. *)
Fresh(t) == adder[t] \in {"old", "store"} \/ (adder[t] # "idle" /\ ~isCodecConfig(packet[t]))
Clearing == \E t \in Adders : adder[t] \in {"clear", "clearAgain"}

QueueOrdered ==
    \A i, j \in 1 .. Len(packets) :
        i < j /\ By(packets[i]) = By(packets[j]) => packets[i] < packets[j]
OutFirst ==
    \A m \in Out : \A j \in 1 .. Len(packets) : By(m) = By(packets[j]) => m < packets[j]
(* A config that is pending came after all that its thread got through; it  *)
(* is itself in the queue only until it is cleared.                        *)
PendingLater ==
    pendingCodecConfig # 0 =>
        \A m \in Ahead : By(m) = By(pendingCodecConfig) =>
            m <= pendingCodecConfig /\ (m = pendingCodecConfig => Clearing)
FreshLater ==
    \A t \in Adders : Fresh(t) =>
        \A m \in Ahead \cup ({pendingCodecConfig} \ {0}) : By(m) = t => m < packet[t]
(* A frame is put when no config of its thread is pending. *)
PutLast ==
    \A t \in Adders :
        /\ adder[t] = "put" /\ pendingCodecConfig # 0 => By(pendingCodecConfig) # t
        /\ adder[t] = "offerAgain" => Len(packets) < MaxBuffered

OrderInv == QueueOrdered /\ OutFirst /\ PendingLater /\ FreshLater /\ PutLast
OrderIInv == QueueBase /\ OrderInv

(* The numbers the order speaks of. *)
LEMMA Numbers ==
  ASSUME QueueBase
  PROVE  /\ Len(handed) \in Nat /\ Len(packets) \in Nat
         /\ \A i \in 1 .. Len(packets) : packets[i] \in 1 .. Len(handed)
         /\ Ahead \subseteq 1 .. Len(handed)
         /\ pendingCodecConfig \in 0 .. Len(handed)
         /\ \A t \in Adders : packet[t] \in 0 .. Len(handed)
  <1>1. Len(handed) \in Nat /\ Len(packets) \in Nat
    BY LenProperties DEF QueueBase, QueueOK, HandedOK
  <1>2. \A i \in 1 .. Len(packets) : packets[i] \in 1 .. Len(handed)
    BY ElementOfSeq DEF QueueBase, QueueOK
  <1>3. Out \subseteq 1 .. Len(handed)
    BY <1>1 DEF QueueBase, MemoryOK, NumbersOK, Out
  <1>4. Waiting \subseteq 1 .. Len(handed)
    BY <1>2 DEF Waiting
  <1> QED BY <1>1, <1>2, <1>3, <1>4 DEF QueueBase, NumbersOK, Ahead

(* Steps other than those of the player leave what is out as it is. *)
LEMMA OutMoves ==
  ASSUME QueueBase, Next
  PROVE  Out' = Out \/ (Poll /\ Out' = Out \cup {Head(packets)})
  <1>1. CASE Poll
    BY <1>1 DEF Poll, Out, QueueBase, NumbersOK
  <1>2. CASE Decode
    BY <1>2 DEF Decode, Out, QueueBase, NumbersOK
  <1>3. CASE decoded' = decoded /\ decoding' = decoding
    BY <1>3 DEF Out
  <1>4. Poll \/ Decode \/ (decoded' = decoded /\ decoding' = decoding)
    <2>1. ASSUME NEW t \in Adders, Add(t) \/ AddPacket(t)
          PROVE  decoded' = decoded /\ decoding' = decoding
      BY <2>1 DEF Add, AddPacket, ReadOld, StorePending, ReleaseOld, Enter, OfferPending,
                  ClearPending, NothingToOffer, Offered, TrimLook, TrimIf, Look, TrimRemove,
                  TrimConfigs, PutFrame, playerVars
    <2>2. CASE Exit \/ StopDecode \/ StopGoesOn
      BY <2>2 DEF Exit, StopDecode, StopGoesOn, Drain, DrainDone, playerVars
    <2> QED BY <2>1, <2>2 DEF Next, PlayerThread
  <1> QED BY <1>1, <1>2, <1>3, <1>4

(* What may come to be ahead of others. *)
LEMMA AheadMoves ==
  ASSUME QueueBase, Next
  PROVE  \/ Ahead' \subseteq Ahead
         \/ \E t \in Adders : OfferPending(t) /\ Ahead' \subseteq Ahead \cup {pendingCodecConfig}
         \/ \E t \in Adders : PutFrame(t) /\ Ahead' \subseteq Ahead \cup {packet[t]}
  <1>1. Len(packets) \in Nat
    BY Numbers
  <1>2. CASE Thins(packets, packets')
    <2>1. Waiting' \subseteq Waiting
      BY <1>2 DEF Thins, Waiting
    <2>2. CASE Out' = Out
      BY <2>1, <2>2 DEF Ahead
    <2>3. CASE Poll /\ Out' = Out \cup {Head(packets)}
      <3>1. Len(packets) >= 1 /\ Head(packets) = packets[1]
        BY <2>3, TailOf DEF Poll, QueueBase, QueueOK
      <3>2. Head(packets) \in Waiting
        BY <3>1, <1>1 DEF Waiting
      <3> QED BY <2>1, <2>3, <3>2 DEF Ahead
    <2> QED BY <2>2, <2>3, OutMoves
  <1>3. ASSUME NEW n \in 1 .. Len(handed), packets' = Append(packets, n), ~Poll
        PROVE  Ahead' \subseteq Ahead \cup {n}
    <2>1. packets \in Seq(1 .. Len(handed))
      BY DEF QueueBase, QueueOK
    <2>2. /\ Len(packets') = Len(packets) + 1 /\ packets'[Len(packets) + 1] = n
          /\ \A i \in 1 .. Len(packets) : packets'[i] = packets[i]
      BY <1>3, <2>1, AppendProperties
    <2>3. Waiting' \subseteq Waiting \cup {n}
      BY <2>2, <1>1 DEF Waiting
    <2> QED BY <2>3, <1>3, OutMoves DEF Ahead
  <1>4. ASSUME NEW t \in Adders, OfferPending(t)
        PROVE  Ahead' \subseteq Ahead \cup {pendingCodecConfig}
    <2>1. pendingCodecConfig \in 1 .. Len(handed) /\ packets' = Append(packets, pendingCodecConfig)
      BY <1>4, Numbers DEF OfferPending
    <2>2. ~Poll
      BY <1>4 DEF OfferPending, Poll, playerVars
    <2> QED BY <2>1, <2>2, <1>3
  <1>5. ASSUME NEW t \in Adders, PutFrame(t), packets' = Append(packets, packet[t])
        PROVE  Ahead' \subseteq Ahead \cup {packet[t]}
    <2>1. packet[t] \in 1 .. Len(handed)
      BY <1>5, Numbers DEF PutFrame, QueueBase, NumbersOK
    <2>2. ~Poll
      BY <1>5 DEF PutFrame, Poll, playerVars
    <2> QED BY <2>1, <2>2, <1>3, <1>5
  <1>6. CASE \E t \in Adders : OfferPending(t)
    BY <1>4, <1>6
  <1>7. CASE \E t \in Adders : PutFrame(t) /\ packets' = Append(packets, packet[t])
    BY <1>5, <1>7
  <1> QED BY <1>2, <1>6, <1>7, QueueMoves

LEMMA HandedMoves ==
  ASSUME Next
  PROVE  (handed' = handed /\ packet' = packet) \/ \E t \in Adders : Add(t)
  BY DEF Next, AddPacket, PlayerThread, StopGoesOn, ReadOld, StorePending, ReleaseOld, Enter,
         OfferPending, ClearPending, NothingToOffer, Offered, TrimLook, TrimIf, Look, TrimRemove,
         TrimConfigs, PutFrame, Poll, Decode, Exit, StopDecode, Drain, DrainDone, adderVars

LEMMA HandedGrows ==
  ASSUME QueueBase, handed' = handed
  PROVE  ~\E t \in Adders : Add(t)
  <1> SUFFICES ASSUME NEW t \in Adders, Add(t)
               PROVE  FALSE
    OBVIOUS
  <1>1. PICK r \in [by : Adders, config : BOOLEAN] : handed' = Append(handed, r)
    BY DEF Add
  <1>2. Len(handed') = Len(handed) + 1 /\ Len(handed) \in Nat
    BY <1>1, AppendProperties, LenProperties DEF QueueBase, HandedOK
  <1> QED BY <1>2

LEMMA PendingMoves ==
  ASSUME Next
  PROVE  \/ pendingCodecConfig' = 0
         \/ pendingCodecConfig' = pendingCodecConfig
         \/ \E t \in Adders : StorePending(t)
  BY DEF Next, AddPacket, PlayerThread, StopGoesOn, Add, ReadOld, ReleaseOld, Enter,
         OfferPending, ClearPending, NothingToOffer, Offered, TrimLook, TrimIf, Look, TrimRemove,
         TrimConfigs, PutFrame, Poll, Decode, Exit, StopDecode, Drain, DrainDone

(* A thread goes on by its own steps. *)
LEMMA AdderMoves ==
  ASSUME QueueBase, Next, NEW t \in Adders
  PROVE  adder'[t] = adder[t] \/ Add(t) \/ AddPacket(t)
  <1>1. ASSUME NEW u \in Adders, u # t, Add(u) \/ AddPacket(u)
        PROVE  adder'[t] = adder[t]
    <2>1. PICK pc : adder' = [adder EXCEPT ![u] = pc]
      BY <1>1 DEF Add, AddPacket, ReadOld, StorePending, ReleaseOld, Enter, OfferPending,
                  ClearPending, NothingToOffer, Offered, TrimLook, TrimIf, Look, TrimRemove,
                  TrimConfigs, PutFrame, Leave, Goto
    <2> QED BY <1>1, <2>1 DEF QueueBase, PlacesOK
  <1>2. CASE PlayerThread \/ StopDecode \/ StopGoesOn
    BY <1>2 DEF PlayerThread, StopGoesOn, Poll, Decode, Exit, StopDecode, Drain, DrainDone, adderVars
  <1> QED BY <1>1, <1>2 DEF Next

LEMMA ClearingStays ==
  ASSUME QueueBase, Next, Clearing
  PROVE  Clearing' \/ \E t \in Adders : ClearPending(t)
  <1>1. PICK t \in Adders : adder[t] \in {"clear", "clearAgain"}
    BY DEF Clearing
  <1>2. ASSUME Add(t) \/ AddPacket(t)
        PROVE  ClearPending(t)
    BY <1>1, <1>2 DEF Add, AddPacket, ReadOld, StorePending, ReleaseOld, Enter, OfferPending,
                  NothingToOffer, Offered, TrimLook, TrimIf, Look, TrimRemove, TrimConfigs, PutFrame
  <1> QED BY <1>1, <1>2, AdderMoves DEF Clearing

LEMMA FreshStays ==
  ASSUME QueueBase, Next, handed' = handed, NEW u \in Adders, Fresh(u)'
  PROVE  Fresh(u) /\ packet'[u] = packet[u] /\ adder'[u] # "idle" /\ ~StorePending(u)
  <1>1. ~\E t \in Adders : Add(t)
    BY HandedGrows
  <1>2. packet' = packet
    BY <1>1, HandedMoves
  <1>3. adder'[u] # "idle"
    BY DEF Fresh
  <1>4. CASE adder'[u] = adder[u]
    BY <1>2, <1>3, <1>4 DEF Fresh, isCodecConfig, StorePending, Goto, QueueBase, PlacesOK
  <1>5. CASE AddPacket(u)
    <2>1. ~StorePending(u)
      BY <1>2 DEF StorePending, Goto, Fresh, QueueBase, PlacesOK, ConfigInv, isCodecConfig
    <2>2. adder[u] # "idle"
      BY <1>5 DEF AddPacket, ReadOld, StorePending, ReleaseOld, Enter, OfferPending, ClearPending,
                  NothingToOffer, Offered, TrimLook, TrimIf, Look, TrimRemove, TrimConfigs, PutFrame
    <2>3. adder'[u] \in {"old", "store"} => ReadOld(u)
      BY <1>5 DEF AddPacket, StorePending, ReleaseOld, Enter, OfferPending, ClearPending, Leave,
                  NothingToOffer, Offered, TrimLook, TrimIf, Look, TrimRemove, TrimConfigs, PutFrame,
                  Goto, QueueBase, PlacesOK
    <2>4. Fresh(u)
      BY <1>2, <2>2, <2>3 DEF Fresh, ReadOld, isCodecConfig
    <2> QED BY <1>2, <1>3, <2>1, <2>4
  <1> QED BY <1>1, <1>4, <1>5, AdderMoves

LEMMA PutStays ==
  ASSUME QueueBase, OrderInv, Next, handed' = handed
  PROVE  PutLast'
  <1>1. ~\E t \in Adders : Add(t)
    BY HandedGrows
  <1>2. \A n : By(n)' = By(n)
    BY DEF By
  <1>3. ASSUME NEW t \in Adders, adder'[t] = "put", pendingCodecConfig' # 0
        PROVE  By(pendingCodecConfig') # t
    <2>1. CASE adder'[t] = adder[t]
      <3>1. ASSUME NEW u \in Adders, StorePending(u)
            PROVE  By(pendingCodecConfig') # t
        BY <3>1, <2>1, <1>3 DEF StorePending, QueueBase, NumbersOK, By
      <3>2. CASE pendingCodecConfig' = pendingCodecConfig
        BY <3>2, <2>1, <1>3 DEF OrderInv, PutLast
      <3> QED BY <3>1, <3>2, <1>3, PendingMoves
    <2>2. CASE AddPacket(t)
      <3>1. (NothingToOffer(t) /\ adder[t] = "offerAgain") \/ ClearPending(t)
        BY <2>2, <1>3 DEF AddPacket, ReadOld, StorePending, ReleaseOld, Enter, OfferPending, Leave,
                  NothingToOffer, Offered, TrimLook, TrimIf, Look, TrimRemove, TrimConfigs, PutFrame,
                  Goto, QueueBase, PlacesOK
      <3>2. Len(packets) \in Nat /\ MaxBuffered \in Nat
        BY Numbers, BoundsAssumption
      <3> QED BY <3>1, <3>2, <1>3 DEF NothingToOffer, ClearPending, OrderInv, PutLast
    <2> QED BY <1>1, <2>1, <2>2, AdderMoves
  <1>4. ASSUME NEW t \in Adders, adder'[t] = "offerAgain"
        PROVE  Len(packets') < MaxBuffered
    <2>a. Len(packets) \in Nat /\ MaxBuffered \in Nat /\ MaxQueued \in Nat /\ MaxQueued < MaxBuffered
      BY Numbers, BoundsAssumption
    <2>1. CASE adder'[t] = adder[t]
      <3>1. Len(packets) < MaxBuffered /\ monitor = t /\ t # "none"
        BY <2>1, <1>4, BoundsAssumption DEF OrderInv, PutLast, QueueBase, LockInv, Locked
      <3>2. ASSUME NEW u \in Adders, AddPacket(u)
            PROVE  packets' = packets
        <4>1. CASE u # t
          <5>1. adder[u] \notin Locked /\ ~Enter(u)
            BY <3>1, <4>1 DEF QueueBase, LockInv, Enter
          <5>2. ReadOld(u) \/ StorePending(u) \/ ReleaseOld(u)
            BY <3>2, <5>1 DEF AddPacket, OfferPending, ClearPending, NothingToOffer, Offered,
                      TrimLook, TrimIf, Look, TrimRemove, TrimConfigs, PutFrame, Locked
          <5> QED BY <5>2 DEF ReadOld, StorePending, ReleaseOld
        <4>2. CASE u = t
          <5>1. OfferPending(t) \/ NothingToOffer(t)
            BY <3>2, <4>2, <2>1, <1>4 DEF AddPacket, ReadOld, StorePending, ReleaseOld, Enter,
                      ClearPending, Offered, TrimLook, TrimIf, Look, TrimRemove, TrimConfigs, PutFrame
          <5>2. adder'[t] # "offerAgain"
            BY <5>1 DEF OfferPending, NothingToOffer, Goto, QueueBase, PlacesOK
          <5> QED BY <5>2, <1>4
        <4> QED BY <4>1, <4>2
      <3>3. CASE Poll
        <4>1. packets # <<>> /\ packets' = Tail(packets)
          BY <3>3 DEF Poll
        <4>2. Len(packets') = Len(packets) - 1
          BY <4>1, TailOf DEF QueueBase, QueueOK
        <4> QED BY <4>2, <3>1, <2>a
      <3>4. CASE Decode \/ Exit \/ StopDecode \/ StopGoesOn
        BY <3>1, <3>4, <2>a DEF Decode, Exit, StopDecode, StopGoesOn, Drain, DrainDone
      <3> QED BY <1>1, <3>1, <3>2, <3>3, <3>4 DEF Next, PlayerThread
    <2>2. CASE AddPacket(t)
      <3>1. TrimLook(t) /\ adder'[t] # "remove"
        BY <2>2, <1>4 DEF AddPacket, ReadOld, StorePending, ReleaseOld, Enter, OfferPending, Leave,
                  NothingToOffer, Offered, ClearPending, TrimRemove, TrimConfigs, PutFrame,
                  Goto, QueueBase, PlacesOK
      <3>2. ~(Len(packets) >= MaxQueued) /\ packets' = packets
        BY <3>1 DEF TrimLook, TrimIf, Look, Goto, QueueBase, PlacesOK
      <3> QED BY <3>2, <2>a
    <2> QED BY <1>1, <2>1, <2>2, AdderMoves
  <1> QED BY <1>2, <1>3, <1>4 DEF PutLast, By

LEMMA OrderStep == OrderIInv /\ Next => OrderIInv'
  <1> SUFFICES ASSUME QueueBase, OrderInv, Next
               PROVE  OrderInv'
    BY QueueStep DEF OrderIInv
  <1>1. QueueBase'
    BY QueueStep
  <1>2. /\ Len(handed) \in Nat /\ Len(packets) \in Nat
        /\ \A i \in 1 .. Len(packets) : packets[i] \in 1 .. Len(handed)
        /\ Ahead \subseteq 1 .. Len(handed)
        /\ pendingCodecConfig \in 0 .. Len(handed)
        /\ \A t \in Adders : packet[t] \in 0 .. Len(handed)
    BY Numbers
  <1>3. ASSUME NEW t \in Adders, Add(t)
        PROVE  OrderInv'
    <2>1. UNCHANGED <<packets, pendingCodecConfig, decoded, decoding>>
      BY <1>3 DEF Add, playerVars
    <2>2. /\ \A n \in 1 .. Len(handed) : handed'[n] = handed[n]
          /\ handed'[Len(handed) + 1].by = t
      BY <1>3, <1>2 DEF Add, QueueBase, HandedOK
    <2>3. Ahead' = Ahead /\ Out' = Out
      BY <2>1 DEF Ahead, Out, Waiting
    <2>4. \A m \in Ahead \cup ({pendingCodecConfig} \ {0}) :
            m \in 1 .. Len(handed) /\ handed'[m] = handed[m]
      BY <1>2, <2>2
    <2>5. \A i \in 1 .. Len(packets) : handed'[packets[i]] = handed[packets[i]]
      BY <1>2, <2>2
    <2>6. /\ \A u \in Adders : adder'[u] \in {"clear", "clearAgain", "put", "offerAgain"}
                <=> adder[u] \in {"clear", "clearAgain", "put", "offerAgain"}
          /\ \A u \in Adders : adder'[u] \in {"clear", "clearAgain", "put", "offerAgain"}
                => adder'[u] = adder[u]
          /\ adder[t] = "idle" /\ adder'[t] \in {"old", "enter"}
          /\ \A u \in Adders \ {t} : adder'[u] = adder[u] /\ packet'[u] = packet[u]
          /\ packet'[t] = Len(handed) + 1
      BY <1>3 DEF Add, Goto, QueueBase, PlacesOK, NumbersOK
    <2>7. QueueOrdered' /\ OutFirst'
      BY <2>1, <2>3, <2>4, <2>5 DEF OrderInv, QueueOrdered, OutFirst, By, Ahead
    <2>8. PendingLater'
      <3>1. Clearing => Clearing'
        BY <2>6 DEF Clearing
      <3> QED BY <2>1, <2>3, <2>4, <3>1 DEF OrderInv, PendingLater, By
    <2>9. FreshLater'
      <3>1. \A u \in Adders \ {t} : Fresh(u)' => Fresh(u)
        <4> SUFFICES ASSUME NEW u \in Adders, u # t, Fresh(u)', adder[u] # "idle"
                     PROVE  Fresh(u)
          BY <2>6 DEF Fresh
        <4>1. packet[u] \in 1 .. Len(handed)
          BY <1>2 DEF QueueBase, NumbersOK
        <4> QED BY <4>1, <2>2, <2>6 DEF Fresh, isCodecConfig
      <3>2. \A m \in Ahead \cup ({pendingCodecConfig} \ {0}) : m < packet'[t]
        BY <1>2, <2>4, <2>6
      <3> QED BY <2>1, <2>3, <2>4, <2>6, <3>1, <3>2 DEF OrderInv, FreshLater, By
    <2>10. PutLast'
      BY <2>1, <2>4, <2>6 DEF OrderInv, PutLast, By
    <2> QED BY <2>7, <2>8, <2>9, <2>10 DEF OrderInv
  <1>4. CASE handed' = handed
    <2>1. \A n : By(n)' = By(n)
      BY <1>4 DEF By
    <2>2. QueueOrdered' /\ OutFirst'
      <3>1. CASE Thins(packets, packets') /\ Out' = Out
        <4>1. PICK g \in [1 .. Len(packets') -> 1 .. Len(packets)] :
                /\ \A i, j \in 1 .. Len(packets') : i < j => g[i] < g[j]
                /\ \A i \in 1 .. Len(packets') : packets'[i] = packets[g[i]]
          BY <3>1 DEF Thins
        <4>2. QueueOrdered'
          BY <4>1, <1>4 DEF OrderInv, QueueOrdered, By
        <4>3. OutFirst'
          BY <4>1, <3>1, <1>4 DEF OrderInv, OutFirst, By
        <4> QED BY <4>2, <4>3
      <3>2. CASE Poll
        <4>1. /\ Len(packets) >= 1 /\ Len(packets') = Len(packets) - 1 /\ Head(packets) = packets[1]
              /\ \A i \in 1 .. Len(packets) - 1 : packets'[i] = packets[i + 1]
          BY <3>2, TailOf DEF Poll, QueueBase, QueueOK
        <4>2. Out' \subseteq Out \cup {packets[1]}
          BY <4>1, OutMoves
        <4>3. QueueOrdered'
          <5>1. ASSUME NEW i \in 1 .. Len(packets'), NEW j \in 1 .. Len(packets'), i < j,
                       By(packets[i + 1]) = By(packets[j + 1])
                PROVE  packets[i + 1] < packets[j + 1]
            <6>1. i + 1 \in 1 .. Len(packets) /\ j + 1 \in 1 .. Len(packets) /\ i + 1 < j + 1
              BY <4>1, <5>1, <1>2
            <6> QED BY <5>1, <6>1 DEF OrderInv, QueueOrdered
          <5>2. \A i \in 1 .. Len(packets') : packets'[i] = packets[i + 1]
            BY <4>1
          <5> QED BY <5>1, <5>2, <1>4 DEF QueueOrdered, By
        <4>4. ASSUME NEW m \in Out', NEW j \in 1 .. Len(packets'), By(m)' = By(packets[j + 1])
              PROVE  m < packets[j + 1]
          <5>1. j + 1 \in 1 .. Len(packets) /\ 1 < j + 1 /\ 1 \in 1 .. Len(packets)
            BY <4>1, <1>2
          <5>2. CASE m \in Out
            BY <4>4, <5>1, <5>2, <2>1 DEF OrderInv, OutFirst
          <5>3. CASE m = packets[1]
            BY <4>4, <5>1, <5>3, <2>1 DEF OrderInv, QueueOrdered
          <5> QED BY <4>2, <5>2, <5>3
        <4> QED BY <4>1, <4>3, <4>4, <1>4 DEF OutFirst, By
      <3>3. ASSUME NEW n \in 1 .. Len(handed), packets' = Append(packets, n), Out' = Out,
                   \A m \in Ahead : By(m) = By(n) => m < n
            PROVE  QueueOrdered' /\ OutFirst'
        <4>1. /\ Len(packets') = Len(packets) + 1 /\ packets'[Len(packets) + 1] = n
              /\ \A i \in 1 .. Len(packets) : packets'[i] = packets[i]
          BY <3>3, AppendProperties DEF QueueBase, QueueOK
        <4>2. \A i \in 1 .. Len(packets) : packets[i] \in Ahead
          BY DEF Ahead, Waiting
        <4>3. ASSUME NEW i \in 1 .. Len(packets'), NEW j \in 1 .. Len(packets'), i < j,
                     By(packets'[i]) = By(packets'[j])
              PROVE  packets'[i] < packets'[j]
          <5>1. CASE j \in 1 .. Len(packets)
            BY <4>1, <4>3, <5>1, <1>2 DEF OrderInv, QueueOrdered
          <5>2. CASE j = Len(packets) + 1
            BY <4>1, <4>2, <4>3, <5>2, <3>3, <1>2
          <5> QED BY <4>1, <5>1, <5>2, <1>2
        <4>4. ASSUME NEW m \in Out, NEW j \in 1 .. Len(packets'), By(m) = By(packets'[j])
              PROVE  m < packets'[j]
          <5>1. CASE j \in 1 .. Len(packets)
            BY <4>1, <4>4, <5>1 DEF OrderInv, OutFirst
          <5>2. CASE j = Len(packets) + 1
            BY <4>1, <4>4, <5>2, <3>3 DEF Ahead
          <5> QED BY <4>1, <5>1, <5>2, <1>2
        <4> QED BY <4>3, <4>4, <3>3, <1>4 DEF QueueOrdered, OutFirst, By
      <3>4. ASSUME NEW t \in Adders, OfferPending(t)
            PROVE  QueueOrdered' /\ OutFirst'
        <4>1. /\ pendingCodecConfig \in 1 .. Len(handed)
              /\ packets' = Append(packets, pendingCodecConfig) /\ Out' = Out
          BY <3>4, <1>2 DEF OfferPending, playerVars, Out
        <4>2. ~Clearing
          BY <3>4 DEF OfferPending, Clearing, QueueBase, LockInv, Locked
        <4>3. \A m \in Ahead : By(m) = By(pendingCodecConfig) => m < pendingCodecConfig
          BY <4>1, <4>2, <1>2 DEF OrderInv, PendingLater
        <4> QED BY <4>1, <4>3, <3>3
      <3>5. ASSUME NEW t \in Adders, PutFrame(t), packets' = Append(packets, packet[t])
            PROVE  QueueOrdered' /\ OutFirst'
        <4>1. packet[t] \in 1 .. Len(handed) /\ Out' = Out /\ By(packet[t]) = t /\ Fresh(t)
          BY <3>5, <1>2 DEF PutFrame, playerVars, Out, QueueBase, NumbersOK, ConfigInv, By, Fresh
        <4>2. \A m \in Ahead : By(m) = By(packet[t]) => m < packet[t]
          BY <4>1 DEF OrderInv, FreshLater
        <4> QED BY <4>1, <4>2, <3>3, <3>5
      <3>6. CASE \E t \in Adders : OfferPending(t)
        BY <3>4, <3>6
      <3>7. CASE \E t \in Adders : PutFrame(t) /\ packets' = Append(packets, packet[t])
        BY <3>5, <3>7
      <3> QED BY <3>1, <3>2, <3>6, <3>7, OutMoves, QueueMoves
    <2>3. PendingLater'
      <3>1. CASE pendingCodecConfig' = 0
        BY <3>1 DEF PendingLater
      <3>2. ASSUME NEW t \in Adders, StorePending(t)
            PROVE  PendingLater'
        <4>1. /\ pendingCodecConfig' = packet[t] /\ By(packet[t]) = t /\ Fresh(t)
              /\ Ahead' = Ahead
          BY <3>2 DEF StorePending, QueueBase, NumbersOK, By, Fresh, Ahead, Out, Waiting, playerVars
        <4>2. \A m \in Ahead : By(m) = t => m < packet[t] /\ m # packet[t]
          BY <4>1, <1>2 DEF OrderInv, FreshLater
        <4> QED BY <4>1, <4>2, <1>4, <1>2 DEF PendingLater, By
      <3>3. CASE pendingCodecConfig' = pendingCodecConfig /\ pendingCodecConfig # 0
        <4>1. CASE Ahead' \subseteq Ahead
          <5>1. Clearing => Clearing' \/ \E t \in Adders : ClearPending(t)
            BY ClearingStays
          <5>2. ~\E t \in Adders : ClearPending(t)
            BY <3>3 DEF ClearPending
          <5> QED BY <4>1, <5>1, <5>2, <3>3, <1>4 DEF OrderInv, PendingLater, By
        <4>2. ASSUME NEW t \in Adders, OfferPending(t),
                     Ahead' \subseteq Ahead \cup {pendingCodecConfig}
              PROVE  PendingLater'
          <5>1. Clearing'
            BY <4>2 DEF OfferPending, Goto, Clearing, QueueBase, PlacesOK
          <5>2. \A m \in Ahead' : By(m) = By(pendingCodecConfig) => m <= pendingCodecConfig
            BY <4>2, <3>3, <1>2 DEF OrderInv, PendingLater
          <5> QED BY <5>1, <5>2, <3>3, <1>4 DEF PendingLater, By
        <4>3. ASSUME NEW t \in Adders, PutFrame(t), Ahead' \subseteq Ahead \cup {packet[t]}
              PROVE  PendingLater'
          <5>1. By(packet[t]) = t /\ By(pendingCodecConfig) # t
            BY <4>3, <3>3 DEF PutFrame, QueueBase, NumbersOK, By, OrderInv, PutLast
          <5>2. Clearing => Clearing'
            <6>1. Clearing => Clearing' \/ \E u \in Adders : ClearPending(u)
              BY ClearingStays
            <6>2. ~\E u \in Adders : ClearPending(u)
              BY <3>3 DEF ClearPending
            <6> QED BY <6>1, <6>2
          <5> QED BY <4>3, <5>1, <5>2, <3>3, <1>4 DEF OrderInv, PendingLater, By
        <4>4. CASE \E t \in Adders : OfferPending(t) /\ Ahead' \subseteq Ahead \cup {pendingCodecConfig}
          BY <4>2, <4>4
        <4>5. CASE \E t \in Adders : PutFrame(t) /\ Ahead' \subseteq Ahead \cup {packet[t]}
          BY <4>3, <4>5
        <4> QED BY <4>1, <4>4, <4>5, AheadMoves
      <3>4. CASE \E t \in Adders : StorePending(t)
        BY <3>2, <3>4
      <3> QED BY <3>1, <3>3, <3>4, PendingMoves
    <2>4. FreshLater'
      <3>1. ASSUME NEW u \in Adders, Fresh(u)'
            PROVE  Fresh(u) /\ packet'[u] = packet[u] /\ adder'[u] # "idle" /\ ~StorePending(u)
        BY <3>1, <1>4, FreshStays
      <3>2. ASSUME NEW u \in Adders, Fresh(u)', NEW m \in Ahead', By(m) = u
            PROVE  m < packet'[u]
        <4>1. m \in Ahead \cup ({pendingCodecConfig} \ {0}) \/ \E t \in Adders : PutFrame(t) /\ m = packet[t]
          BY AheadMoves DEF OfferPending
        <4>2. ASSUME NEW t \in Adders, PutFrame(t), m = packet[t]
              PROVE  FALSE
          <5>1. By(packet[t]) = t /\ adder'[t] = "idle"
            BY <4>2 DEF PutFrame, Leave, Goto, QueueBase, NumbersOK, PlacesOK, By
          <5> QED BY <3>1, <3>2, <4>2, <5>1
        <4> QED BY <3>1, <3>2, <4>1, <4>2 DEF OrderInv, FreshLater
      <3>3. ASSUME NEW u \in Adders, Fresh(u)', pendingCodecConfig' # 0, By(pendingCodecConfig') = u
            PROVE  pendingCodecConfig' < packet'[u]
        <4>1. CASE pendingCodecConfig' = pendingCodecConfig
          BY <3>1, <3>3, <4>1 DEF OrderInv, FreshLater
        <4>2. ASSUME NEW t \in Adders, StorePending(t)
              PROVE  FALSE
          <5>1. By(pendingCodecConfig') = t
            BY <4>2 DEF StorePending, QueueBase, NumbersOK, By
          <5> QED BY <3>1, <3>3, <4>2, <5>1
        <4> QED BY <3>3, <4>1, <4>2, PendingMoves
      <3> QED BY <3>2, <3>3, <1>4 DEF FreshLater, By
    <2>5. PutLast'
      BY <1>4, PutStays
    <2> QED BY <2>2, <2>3, <2>4, <2>5 DEF OrderInv
  <1>5. handed' = handed \/ \E t \in Adders : Add(t)
    BY HandedMoves
  <1> QED BY <1>3, <1>4, <1>5

LEMMA OrderInit == Init => OrderIInv
  <1> SUFFICES ASSUME Init
               PROVE  OrderInv
    BY QueueInit DEF OrderIInv
  <1>1. Len(packets) = 0 /\ pendingCodecConfig = 0 /\ \A t \in Adders : adder[t] = "idle"
    BY DEF Init
  <1> QED BY <1>1 DEF OrderInv, QueueOrdered, OutFirst, PendingLater, FreshLater, PutLast, Fresh

LEMMA OrderStutter == OrderIInv /\ UNCHANGED vars => OrderIInv'
  <1>1. QueueBase /\ UNCHANGED vars => QueueBase'
    BY QueueStutter
  <1>2. OrderInv /\ UNCHANGED vars => OrderInv'
    BY DEF OrderInv, QueueOrdered, OutFirst, PendingLater, FreshLater, PutLast, Fresh, Clearing,
           Ahead, Out, Waiting, By, isCodecConfig, vars, adderVars, playerVars
  <1> QED BY <1>1, <1>2 DEF OrderIInv

(***************************************************************************)
(* What one thread hands over is decoded in the order of its calls, for    *)
(* any number of threads, packets and lengths: the queue keeps the order,  *)
(* and neither the trim nor a codec config that waits for room lets a      *)
(* later packet of the same thread pass (VideoPlayer.kt:48-76, 290-308).   *)
(***************************************************************************)
THEOREM OrderKept == Spec => DecodedInOrder
  <1>1. OrderIInv /\ Next =>
          ((player = "poll" /\ player' = "decode") =>
             \A m \in decoded : handed[m].by = handed[decoding'].by => m < decoding')
    <2> SUFFICES ASSUME OrderIInv, Next, player = "poll", player' = "decode",
                        NEW m \in decoded, handed[m].by = handed[decoding'].by
                 PROVE  m < decoding'
      OBVIOUS
    <2>1. Poll
      <3>1. ASSUME NEW t \in Adders, Add(t) \/ AddPacket(t)
            PROVE  player' = player
        BY <3>1 DEF Add, AddPacket, ReadOld, StorePending, ReleaseOld, Enter, OfferPending,
                    ClearPending, NothingToOffer, Offered, TrimLook, TrimIf, Look, TrimRemove,
                    TrimConfigs, PutFrame, playerVars
      <3>2. ~Decode /\ ~Exit /\ ~StopDecode /\ ~StopGoesOn
        BY DEF Decode, Exit, StopDecode, StopGoesOn, Drain, DrainDone, playerVars
      <3> QED BY <3>1, <3>2 DEF Next, PlayerThread
    <2>2. decoding' = packets[1] /\ 1 \in 1 .. Len(packets)
      BY <2>1, TailOf DEF Poll, OrderIInv, QueueBase, QueueOK
    <2> QED BY <2>2 DEF OrderIInv, OrderInv, OutFirst, Out, By
  <1>2. OrderIInv /\ [Next]_vars => OrderIInv'
    BY OrderStep, OrderStutter
  <1>3. OrderIInv /\ [Next]_vars =>
          [(player = "poll" /\ player' = "decode") =>
             \A m \in decoded : handed[m].by = handed[decoding'].by => m < decoding']_vars
    BY <1>1
  <1> QED BY <1>2, <1>3, OrderInit, PTL DEF Spec, DecodedInOrder

(***************************************************************************)
(* The memory, for one thread that adds packets                            *)
(***************************************************************************)
OneAdder == \A t, u \in Adders : t = u

(* Nothing that is free is queued, or handed over and not in the queue yet. *)
FreeInv ==
    /\ \A n \in released : n \notin Waiting
    /\ pendingCodecConfig \in released => Clearing \/ stopper = "clear"
    /\ \A t \in Adders :
         /\ Fresh(t) => packet[t] \notin released
         /\ adder[t] \in {"remove", "store", "releaseOld"} => other[t] < packet[t]
         /\ adder[t] \in {"store", "releaseOld"} => other[t] \notin Waiting
         /\ adder[t] = "releaseOld" => pendingCodecConfig \in {0, packet[t]}

(* Until the player is stopped somebody holds each packet that is not free. *)
Kept(n) == n \in released \cup Waiting \cup ({decoding} \ {0})
Held(n) ==
    \/ Kept(n)
    \/ n = pendingCodecConfig
    \/ \E t \in Adders :
         \/ adder[t] # "idle" /\ packet[t] = n
         \/ adder[t] = "releaseOld" /\ other[t] = n
HandsInv ==
    \A t \in Adders :
       /\ adder[t] = "store" => other[t] = pendingCodecConfig
       /\ adder[t] \in {"clear", "clearAgain"} => Kept(pendingCodecConfig)
       /\ adder[t] \in {"releaseOld", "enter", "offer", "clear", "offered"} /\ isCodecConfig(packet[t])
            => Kept(packet[t]) \/ packet[t] = pendingCodecConfig
HeldInv == ~isStopped => HandsInv /\ \A n \in 1 .. Len(handed) : Held(n)

MemoryIInv == OneAdder /\ OrderIInv /\ FreeInv /\ HeldInv

(* What a change of the queue does to the packets in it: none is in it twice. *)
LEMMA WaitingMoves ==
  ASSUME QueueBase, QueueOrdered
  PROVE  /\ ToSet(packets) = Waiting /\ Waiting \subseteq 1 .. Len(handed)
         /\ packets' = packets => Waiting' = Waiting
         /\ packets' = <<>> => Waiting' = {}
         /\ \A n \in 1 .. Len(handed) :
               packets' = Append(packets, n) => Waiting' = Waiting \cup {n}
         /\ packets # <<>> => Head(packets) \in Waiting
         /\ packets # <<>> /\ packets' = Tail(packets) => Waiting' = Waiting \ {Head(packets)}
         /\ \A i \in DOMAIN packets :
               packets' = RemoveAt(packets, i) => Waiting' = Waiting \ {packets[i]}
  <1>1. /\ Len(packets) \in Nat /\ DOMAIN packets = 1 .. Len(packets)
        /\ \A i \in 1 .. Len(packets) : packets[i] \in 1 .. Len(handed)
        /\ packets \in Seq(1 .. Len(handed)) /\ Len(handed) \in Nat
    BY LenProperties, Numbers DEF QueueBase, QueueOK
  <1>2. ASSUME NEW i \in 1 .. Len(packets), NEW j \in 1 .. Len(packets), packets[i] = packets[j]
        PROVE  i = j
    <2>1. CASE i < j
      BY <1>1, <1>2, <2>1 DEF QueueOrdered
    <2>2. CASE j < i
      BY <1>1, <1>2, <2>2 DEF QueueOrdered
    <2> QED BY <1>1, <2>1, <2>2
  <1>3. ToSet(packets) = Waiting /\ Waiting \subseteq 1 .. Len(handed)
    BY <1>1 DEF ToSet, Waiting
  <1>4. packets' = packets => Waiting' = Waiting
    BY DEF Waiting
  <1>5. packets' = <<>> => Waiting' = {}
    BY DEF Waiting
  <1>6. ASSUME NEW n \in 1 .. Len(handed), packets' = Append(packets, n)
        PROVE  Waiting' = Waiting \cup {n}
    <2>1. /\ Len(packets') = Len(packets) + 1 /\ packets'[Len(packets) + 1] = n
          /\ \A i \in 1 .. Len(packets) : packets'[i] = packets[i]
      BY <1>1, <1>6, AppendProperties
    <2> QED BY <2>1, <1>1 DEF Waiting
  <1>7. packets # <<>> => Head(packets) \in Waiting
    BY <1>1, TailOf DEF Waiting
  <1>8. ASSUME packets # <<>>, packets' = Tail(packets)
        PROVE  Waiting' = Waiting \ {Head(packets)}
    <2>1. /\ Len(packets') = Len(packets) - 1 /\ Head(packets) = packets[1] /\ 1 \in 1 .. Len(packets)
          /\ \A i \in 1 .. Len(packets) - 1 : packets'[i] = packets[i + 1]
      BY <1>1, <1>8, TailOf
    <2>2. \A i \in 1 .. Len(packets) - 1 : i + 1 \in 1 .. Len(packets) /\ i + 1 # 1
      BY <1>1
    <2>3. \A i \in 1 .. Len(packets) : i # 1 => i - 1 \in 1 .. Len(packets) - 1 /\ (i - 1) + 1 = i
      BY <1>1
    <2>4. Waiting' \subseteq Waiting \ {packets[1]}
      BY <1>2, <2>1, <2>2 DEF Waiting
    <2>5. Waiting \ {packets[1]} \subseteq Waiting'
      <3> SUFFICES ASSUME NEW j \in 1 .. Len(packets), j # 1
                   PROVE  \E i \in 1 .. Len(packets) - 1 : packets'[i] = packets[j]
        BY <2>1 DEF Waiting
      <3>1. j - 1 \in 1 .. Len(packets) - 1 /\ (j - 1) + 1 = j
        BY <2>3
      <3>2. packets'[j - 1] = packets[(j - 1) + 1]
        BY <2>1, <3>1
      <3> QED BY <3>1, <3>2
    <2> QED BY <2>1, <2>4, <2>5
  <1>9. ASSUME NEW k \in DOMAIN packets, packets' = RemoveAt(packets, k)
        PROVE  Waiting' = Waiting \ {packets[k]}
    <2>1. /\ Len(packets') = Len(packets) - 1 /\ k \in 1 .. Len(packets)
          /\ \A i \in 1 .. Len(packets) - 1 : packets'[i] = IF i < k THEN packets[i] ELSE packets[i + 1]
      BY <1>1, <1>9, RemovedAt
    <2>2. Waiting' \subseteq Waiting \ {packets[k]}
      <3> SUFFICES ASSUME NEW i \in 1 .. Len(packets) - 1
                   PROVE  \E j \in 1 .. Len(packets) : j # k /\ packets'[i] = packets[j]
        BY <1>2, <2>1 DEF Waiting
      <3>1. CASE i < k
        BY <2>1, <3>1, <1>1
      <3>2. CASE ~(i < k)
        <4>1. i + 1 \in 1 .. Len(packets) /\ i + 1 # k
          BY <2>1, <3>2, <1>1
        <4>2. packets'[i] = packets[i + 1]
          BY <2>1, <3>2
        <4> QED BY <4>1, <4>2
      <3> QED BY <3>1, <3>2
    <2>3. Waiting \ {packets[k]} \subseteq Waiting'
      <3> SUFFICES ASSUME NEW j \in 1 .. Len(packets), j # k
                   PROVE  \E i \in 1 .. Len(packets) - 1 : packets'[i] = packets[j]
        BY <2>1 DEF Waiting
      <3>1. CASE j < k
        <4>1. j \in 1 .. Len(packets) - 1
          BY <2>1, <3>1, <1>1
        <4>2. packets'[j] = packets[j]
          BY <2>1, <3>1, <4>1
        <4> QED BY <4>1, <4>2
      <3>2. CASE ~(j < k)
        <4>1. j - 1 \in 1 .. Len(packets) - 1 /\ ~(j - 1 < k) /\ (j - 1) + 1 = j
          BY <2>1, <3>2, <1>1
        <4> QED BY <2>1, <4>1
      <3> QED BY <3>1, <3>2
    <2> QED BY <2>2, <2>3
  <1> QED BY <1>3, <1>4, <1>5, <1>6, <1>7, <1>8, <1>9

LEMMA MemoryStep == MemoryIInv /\ Next => MemoryIInv'
  <1> SUFFICES ASSUME OneAdder, QueueBase, OrderInv, FreeInv, HeldInv, Next
               PROVE  FreeInv' /\ HeldInv'
    BY OrderStep DEF MemoryIInv, OrderIInv, OneAdder
  <1>1. /\ Len(handed) \in Nat /\ released \subseteq 1 .. Len(handed)
        /\ Waiting \subseteq 1 .. Len(handed)
        /\ pendingCodecConfig \in 0 .. Len(handed) /\ decoding \in 0 .. Len(handed)
        /\ \A t \in Adders : packet[t] \in 0 .. Len(handed) /\ other[t] \in 0 .. Len(handed)
    BY Numbers DEF QueueBase, MemoryOK, NumbersOK, Ahead
  <1>2. \A t, u \in Adders : t = u
    BY DEF OneAdder
  <1>3. \A n \in 1 .. Len(handed) : By(n) \in Adders
    <2>1. \A n \in 1 .. Len(handed) : handed[n] \in [by : Adders, config : BOOLEAN]
      BY ElementOfSeq DEF QueueBase, HandedOK
    <2> QED BY <2>1 DEF By
  (* None of the packets that are ahead is handed over again. *)
  <1>4. pendingCodecConfig # 0 /\ ~Clearing =>
          pendingCodecConfig \notin Waiting /\ pendingCodecConfig # decoding
    BY DEF OrderInv, PendingLater, Ahead, Out
  <1>5. ASSUME NEW t \in Adders, Fresh(t)
        PROVE  /\ \A n \in Waiting : n < packet[t]
               /\ decoding # packet[t] /\ pendingCodecConfig # packet[t]
               /\ pendingCodecConfig < packet[t] /\ packet[t] \in 1 .. Len(handed)
    <2>1. packet[t] \in 1 .. Len(handed)
      BY <1>1, <1>5 DEF Fresh, QueueBase, NumbersOK
    <2>2. \A n \in Ahead \cup ({pendingCodecConfig} \ {0}) : n < packet[t]
      BY <1>1, <1>2, <1>3, <1>5, Numbers DEF OrderInv, FreshLater
    <2>3. decoding # 0 => decoding < packet[t]
      BY <2>2 DEF Ahead, Out
    <2>4. pendingCodecConfig # 0 => pendingCodecConfig < packet[t]
      BY <2>2
    <2> QED BY <1>1, <2>1, <2>2, <2>3, <2>4 DEF Ahead
  <1>6. decoding \notin Waiting
    <2>1. decoding = 0 => decoding \notin Waiting
      BY <1>1
    <2>2. ASSUME decoding # 0, NEW j \in 1 .. Len(packets), decoding = packets[j]
          PROVE  FALSE
      <3>1. decoding \in Out
        BY <2>2 DEF Out
      <3>2. packets[j] < packets[j]
        BY <2>2, <3>1 DEF OrderInv, OutFirst
      <3> QED BY <1>1, <2>2, <3>2
    <2> QED BY <2>1, <2>2 DEF Waiting
  <1>7. \A t \in Adders : adder[t] \in Locked => stopper # "clear"
    BY BoundsAssumption DEF QueueBase, LockInv
  <1>8. /\ pendingCodecConfig # 0 => isCodecConfig(pendingCodecConfig)
        /\ \A t \in Adders :
             /\ adder[t] \in {"old", "store", "releaseOld"} => isCodecConfig(packet[t])
             /\ adder[t] \in {"trim", "remove", "configs", "offerAgain", "clearAgain", "put"}
                  => ~isCodecConfig(packet[t])
             /\ adder[t] = "remove" /\ other[t] # 0 => ~isCodecConfig(other[t])
    BY DEF QueueBase, ConfigInv
  <1>9. /\ ToSet(packets) = Waiting
        /\ packets' = packets => Waiting' = Waiting
        /\ packets' = <<>> => Waiting' = {}
        /\ \A n \in 1 .. Len(handed) :
              packets' = Append(packets, n) => Waiting' = Waiting \cup {n}
        /\ packets # <<>> => Head(packets) \in Waiting
        /\ packets # <<>> /\ packets' = Tail(packets) => Waiting' = Waiting \ {Head(packets)}
        /\ \A i \in DOMAIN packets :
              packets' = RemoveAt(packets, i) => Waiting' = Waiting \ {packets[i]}
    BY WaitingMoves DEF OrderInv
  <1>10. \A i \in DOMAIN packets : packets[i] \in Waiting
    BY <1>9 DEF ToSet
  <1>11. /\ \A t \in Adders : adder[t] # "idle" => packet[t] # 0
         /\ player = "decode" <=> decoding # 0
         /\ stopper # "idle" <=> isStopped
         /\ adder \in [Adders -> Locked \cup {"idle", "old", "store", "releaseOld", "enter"}]
         /\ packet \in [Adders -> 0 .. Len(handed)] /\ other \in [Adders -> 0 .. Len(handed)]
    BY DEF QueueBase, NumbersOK, LockInv, PlacesOK
  <1>12. ASSUME NEW t \in Adders, ReadOld(t)
         PROVE  FreeInv' /\ HeldInv'
    <2>1. /\ \A u \in Adders : u = t
          /\ UNCHANGED <<isStopped, pendingCodecConfig, packet, decoding, stopper, released, handed>>
          /\ adder[t] = "old" /\ adder'[t] = "store" /\ other'[t] = pendingCodecConfig
          /\ Waiting' = Waiting
      BY <1>12, <1>1, <1>2, <1>9, <1>10, <1>11 DEF ReadOld, Goto, Leave, Release, playerVars, adderVars
    <2>2. FreeInv'
      BY <2>1, <1>1, <1>4, <1>5, <1>6, <1>7, <1>8, <1>11 DEF FreeInv, Fresh, Clearing, Locked, isCodecConfig
    <2>3. HeldInv'
      BY <2>1, <1>1, <1>8, <1>11 DEF HeldInv, HandsInv, Held, Kept, isCodecConfig
    <2> QED BY <2>2, <2>3
  <1>13. ASSUME NEW t \in Adders, StorePending(t)
         PROVE  FreeInv' /\ HeldInv'
    <2>1. /\ \A u \in Adders : u = t
          /\ UNCHANGED <<isStopped, packet, other, decoding, stopper, released, handed>>
          /\ adder[t] = "store" /\ adder'[t] = "releaseOld" /\ pendingCodecConfig' = packet[t]
          /\ Waiting' = Waiting
      BY <1>13, <1>1, <1>2, <1>9, <1>10, <1>11 DEF StorePending, Goto, Leave, Release, playerVars, adderVars
    <2>2. FreeInv'
      BY <2>1, <1>1, <1>4, <1>5, <1>6, <1>7, <1>8, <1>11 DEF FreeInv, Fresh, Clearing, Locked, isCodecConfig
    <2>3. HeldInv'
      BY <2>1, <1>1, <1>8, <1>11 DEF HeldInv, HandsInv, Held, Kept, isCodecConfig
    <2> QED BY <2>2, <2>3
  <1>14. ASSUME NEW t \in Adders, ReleaseOld(t)
         PROVE  FreeInv' /\ HeldInv'
    <2>1. /\ \A u \in Adders : u = t
          /\ UNCHANGED <<isStopped, pendingCodecConfig, packet, other, decoding, stopper, handed>>
          /\ adder[t] = "releaseOld" /\ adder'[t] = "enter"
          /\ released' = released \cup ({other[t]} \ {0})
          /\ Waiting' = Waiting
      BY <1>14, <1>1, <1>2, <1>9, <1>10, <1>11 DEF ReleaseOld, Goto, Leave, Release, playerVars, adderVars
    <2>2. FreeInv'
      BY <2>1, <1>1, <1>4, <1>5, <1>6, <1>7, <1>8, <1>11 DEF FreeInv, Fresh, Clearing, Locked, isCodecConfig
    <2>3. HeldInv'
      BY <2>1, <1>1, <1>8, <1>11 DEF HeldInv, HandsInv, Held, Kept, isCodecConfig
    <2> QED BY <2>2, <2>3
  <1>15. ASSUME NEW t \in Adders, Enter(t)
         PROVE  FreeInv' /\ HeldInv'
    <2>1. /\ \A u \in Adders : u = t
          /\ UNCHANGED <<isStopped, pendingCodecConfig, packet, other, decoding, stopper, released, handed>>
          /\ adder[t] = "enter" /\ adder'[t] = "offer"
          /\ Waiting' = Waiting
      BY <1>15, <1>1, <1>2, <1>9, <1>10, <1>11 DEF Enter, Goto, Leave, Release, playerVars, adderVars
    <2>2. FreeInv'
      BY <2>1, <1>1, <1>4, <1>5, <1>6, <1>7, <1>8, <1>11 DEF FreeInv, Fresh, Clearing, Locked, isCodecConfig
    <2>3. HeldInv'
      BY <2>1, <1>1, <1>8, <1>11 DEF HeldInv, HandsInv, Held, Kept, isCodecConfig
    <2> QED BY <2>2, <2>3
  <1>16. ASSUME NEW t \in Adders, OfferPending(t)
         PROVE  FreeInv' /\ HeldInv'
    <2>1. /\ \A u \in Adders : u = t
          /\ UNCHANGED <<isStopped, pendingCodecConfig, packet, other, decoding, stopper, released, handed>>
          /\ adder[t] \in {"offer", "offerAgain"} /\ pendingCodecConfig # 0
          /\ adder'[t] = (IF adder[t] = "offer" THEN "clear" ELSE "clearAgain")
          /\ Waiting' = Waiting \cup {pendingCodecConfig}
      BY <1>16, <1>1, <1>2, <1>9, <1>10, <1>11 DEF OfferPending, Goto, Leave, Release, playerVars, adderVars
    <2>2. FreeInv'
      BY <2>1, <1>1, <1>4, <1>5, <1>6, <1>7, <1>8, <1>11 DEF FreeInv, Fresh, Clearing, Locked, isCodecConfig
    <2>3. HeldInv'
      BY <2>1, <1>1, <1>8, <1>11 DEF HeldInv, HandsInv, Held, Kept, isCodecConfig
    <2> QED BY <2>2, <2>3
  <1>17. ASSUME NEW t \in Adders, ClearPending(t)
         PROVE  FreeInv' /\ HeldInv'
    <2>1. /\ \A u \in Adders : u = t
          /\ UNCHANGED <<isStopped, packet, other, decoding, stopper, released, handed>>
          /\ adder[t] \in {"clear", "clearAgain"} /\ pendingCodecConfig' = 0
          /\ adder'[t] = (IF adder[t] = "clear" THEN "offered" ELSE "put")
          /\ Waiting' = Waiting
      BY <1>17, <1>1, <1>2, <1>9, <1>10, <1>11 DEF ClearPending, Goto, Leave, Release, playerVars, adderVars
    <2>2. FreeInv'
      BY <2>1, <1>1, <1>4, <1>5, <1>6, <1>7, <1>8, <1>11 DEF FreeInv, Fresh, Clearing, Locked, isCodecConfig
    <2>3. HeldInv'
      BY <2>1, <1>1, <1>8, <1>11 DEF HeldInv, HandsInv, Held, Kept, isCodecConfig
    <2> QED BY <2>2, <2>3
  <1>18. ASSUME NEW t \in Adders, NothingToOffer(t)
         PROVE  FreeInv' /\ HeldInv'
    <2>1. /\ \A u \in Adders : u = t
          /\ UNCHANGED <<isStopped, pendingCodecConfig, packet, other, decoding, stopper, released, handed>>
          /\ adder[t] \in {"offer", "offerAgain"}
          /\ adder'[t] = (IF adder[t] = "offer" THEN "offered" ELSE "put")
          /\ Waiting' = Waiting
      BY <1>18, <1>1, <1>2, <1>9, <1>10, <1>11 DEF NothingToOffer, Goto, Leave, Release, playerVars, adderVars
    <2>2. FreeInv'
      BY <2>1, <1>1, <1>4, <1>5, <1>6, <1>7, <1>8, <1>11 DEF FreeInv, Fresh, Clearing, Locked, isCodecConfig
    <2>3. HeldInv'
      BY <2>1, <1>1, <1>8, <1>11 DEF HeldInv, HandsInv, Held, Kept, isCodecConfig
    <2> QED BY <2>2, <2>3
  <1>19. ASSUME NEW t \in Adders, Offered(t)
         PROVE  FreeInv' /\ HeldInv'
    <2>1. /\ \A u \in Adders : u = t
          /\ UNCHANGED <<isStopped, pendingCodecConfig, packet, other, decoding, stopper, released, handed>>
          /\ adder[t] = "offered" /\ adder'[t] = (IF isCodecConfig(packet[t]) THEN "idle" ELSE "trim")
          /\ Waiting' = Waiting
      BY <1>19, <1>1, <1>2, <1>9, <1>10, <1>11 DEF Offered, Goto, Leave, Release, playerVars, adderVars
    <2>2. FreeInv'
      BY <2>1, <1>1, <1>4, <1>5, <1>6, <1>7, <1>8, <1>11 DEF FreeInv, Fresh, Clearing, Locked, isCodecConfig
    <2>3. HeldInv'
      BY <2>1, <1>1, <1>8, <1>11 DEF HeldInv, HandsInv, Held, Kept, isCodecConfig
    <2> QED BY <2>2, <2>3
  <1>20. ASSUME NEW t \in Adders, TrimLook(t)
         PROVE  FreeInv' /\ HeldInv'
    <2>1. /\ \A u \in Adders : u = t
          /\ UNCHANGED <<isStopped, pendingCodecConfig, packet, decoding, stopper, released, handed>>
          /\ adder[t] = "trim"
          /\ \/ adder'[t] = "offerAgain"
             \/ adder'[t] = "remove" /\ (other'[t] = 0 \/ other'[t] \in Waiting)
          /\ Waiting' = Waiting
      BY <1>20, <1>1, <1>2, <1>9, <1>10, <1>11 DEF TrimLook, Goto, Leave, Release, playerVars, adderVars, TrimIf, Look, Frames
    <2>2. FreeInv'
      <3>1. Fresh(t) /\ ~Clearing /\ stopper # "clear"
        BY <2>1, <1>7, <1>8, <1>11 DEF Fresh, Clearing, Locked
      <3>2. /\ \A n \in Waiting : n < packet[t]
            /\ decoding # packet[t] /\ pendingCodecConfig # packet[t]
            /\ packet[t] \in 1 .. Len(handed)
        BY <3>1, <1>5
      <3>3. \A n \in released' : n \notin Waiting'
        BY <2>1, <3>1, <3>2, <1>1 DEF FreeInv
      <3>4. pendingCodecConfig' \notin released'
        BY <2>1, <3>1, <3>2, <1>1, <1>4, <1>8 DEF FreeInv
      <3>5. Fresh(t)' => packet'[t] \notin released'
        BY <2>1, <3>1, <3>2, <1>1 DEF FreeInv, Fresh
      <3>6. adder'[t] = "remove" => other'[t] < packet'[t]
        BY <2>1, <3>2, <1>1
      <3>7. adder'[t] \notin {"store", "releaseOld"}
        BY <2>1
      <3> QED BY <2>1, <3>3, <3>4, <3>5, <3>6, <3>7 DEF FreeInv
    <2>3. HeldInv'
      BY <2>1, <1>1, <1>8, <1>11 DEF HeldInv, HandsInv, Held, Kept, isCodecConfig
    <2> QED BY <2>2, <2>3
  <1>21. ASSUME NEW t \in Adders, TrimRemove(t)
         PROVE  FreeInv' /\ HeldInv'
    <2>1. /\ \A u \in Adders : u = t
          /\ UNCHANGED <<isStopped, pendingCodecConfig, packet, other, decoding, stopper, handed>>
          /\ adder[t] = "remove" /\ adder'[t] = "configs"
          /\ released' = released \cup ({other[t]} \ {0})
          /\ Waiting' = Waiting \ {other[t]}
      BY <1>21, <1>1, <1>2, <1>9, <1>10, <1>11 DEF TrimRemove, Goto, Leave, Release, playerVars, adderVars
    <2>2. FreeInv'
      BY <2>1, <1>1, <1>4, <1>5, <1>6, <1>7, <1>8, <1>11 DEF FreeInv, Fresh, Clearing, Locked, isCodecConfig
    <2>3. HeldInv'
      BY <2>1, <1>1, <1>8, <1>11 DEF HeldInv, HandsInv, Held, Kept, isCodecConfig
    <2> QED BY <2>2, <2>3
  <1>22. ASSUME NEW t \in Adders, TrimConfigs(t)
         PROVE  FreeInv' /\ HeldInv'
    <2>1. /\ \A u \in Adders : u = t
          /\ UNCHANGED <<isStopped, pendingCodecConfig, packet, other, decoding, stopper, handed>>
          /\ adder[t] = "configs" /\ adder'[t] = "trim"
          /\ \/ released' = released /\ Waiting' = Waiting
             \/ \E n \in Waiting : released' = released \cup {n} /\ Waiting' = Waiting \ {n}
      <3>1. Len(packets) >= MaxQueued => packets # <<>>
        BY BoundsAssumption
      <3>2. packets # <<>> => {Head(packets)} \ {0} = {Head(packets)}
        BY <1>1, <1>9
      <3>3. /\ adder[t] = "configs" /\ adder'[t] = "trim" /\ \A u \in Adders : u = t
            /\ UNCHANGED <<isStopped, pendingCodecConfig, packet, other, decoding, stopper, handed>>
        BY <1>22, <1>2, <1>11 DEF TrimConfigs, Goto, playerVars
      <3>4. \/ UNCHANGED <<packets, released>>
            \/ packets # <<>> /\ packets' = Tail(packets) /\ released' = released \cup ({Head(packets)} \ {0})
        BY <1>22, <3>1 DEF TrimConfigs, Release
      <3>5. CASE UNCHANGED <<packets, released>>
        BY <3>3, <3>5, <1>9
      <3>6. CASE packets # <<>> /\ packets' = Tail(packets) /\ released' = released \cup ({Head(packets)} \ {0})
        <4>1. Head(packets) \in Waiting /\ Waiting' = Waiting \ {Head(packets)}
              /\ released' = released \cup {Head(packets)}
          BY <3>2, <3>6, <1>9
        <4> QED BY <3>3, <4>1
      <3> QED BY <3>4, <3>5, <3>6
    <2>2. FreeInv'
      <3>1. Fresh(t) /\ ~Clearing /\ stopper # "clear"
        BY <2>1, <1>7, <1>8, <1>11 DEF Fresh, Clearing, Locked
      <3>2. /\ \A n \in Waiting : n < packet[t]
            /\ decoding # packet[t] /\ pendingCodecConfig # packet[t]
            /\ packet[t] \in 1 .. Len(handed)
        BY <3>1, <1>5
      <3>3. \A n \in released' : n \notin Waiting'
        BY <2>1, <3>1, <3>2, <1>1 DEF FreeInv
      <3>4. pendingCodecConfig' \notin released'
        BY <2>1, <3>1, <3>2, <1>1, <1>4, <1>8 DEF FreeInv
      <3>5. Fresh(t)' => packet'[t] \notin released'
        BY <2>1, <3>1, <3>2, <1>1 DEF FreeInv, Fresh
      <3>6. adder'[t] = "remove" => other'[t] < packet'[t]
        BY <2>1, <3>2, <1>1
      <3>7. adder'[t] \notin {"store", "releaseOld"}
        BY <2>1
      <3> QED BY <2>1, <3>3, <3>4, <3>5, <3>6, <3>7 DEF FreeInv
    <2>3. HeldInv'
      BY <2>1, <1>1, <1>8, <1>11 DEF HeldInv, HandsInv, Held, Kept, isCodecConfig
    <2> QED BY <2>2, <2>3
  <1>23. ASSUME NEW t \in Adders, PutFrame(t)
         PROVE  FreeInv' /\ HeldInv'
    <2>1. /\ \A u \in Adders : u = t
          /\ UNCHANGED <<isStopped, pendingCodecConfig, packet, other, decoding, stopper, handed>>
          /\ adder[t] = "put" /\ adder'[t] = "idle"
          /\ \/ released' = released /\ Waiting' = Waiting \cup {packet[t]}
             \/ released' = released \cup {packet[t]} /\ Waiting' = Waiting
      <3>1. packet[t] \in 1 .. Len(handed) /\ {packet[t]} \ {0} = {packet[t]}
        BY <1>23, <1>1, <1>11 DEF PutFrame
      <3> QED BY <1>23, <3>1, <1>2, <1>9, <1>11 DEF PutFrame, Goto, Leave, Release, playerVars
    <2>2. FreeInv'
      <3>1. Fresh(t) /\ ~Clearing /\ stopper # "clear"
        BY <2>1, <1>7, <1>8, <1>11 DEF Fresh, Clearing, Locked
      <3>2. /\ \A n \in Waiting : n < packet[t]
            /\ decoding # packet[t] /\ pendingCodecConfig # packet[t]
            /\ packet[t] \in 1 .. Len(handed)
        BY <3>1, <1>5
      <3>3. \A n \in released' : n \notin Waiting'
        BY <2>1, <3>1, <3>2, <1>1 DEF FreeInv
      <3>4. pendingCodecConfig' \notin released'
        BY <2>1, <3>1, <3>2, <1>1, <1>4, <1>8 DEF FreeInv
      <3>5. Fresh(t)' => packet'[t] \notin released'
        BY <2>1, <3>1, <3>2, <1>1 DEF FreeInv, Fresh
      <3>6. adder'[t] = "remove" => other'[t] < packet'[t]
        BY <2>1, <3>2, <1>1
      <3>7. adder'[t] \notin {"store", "releaseOld"}
        BY <2>1
      <3> QED BY <2>1, <3>3, <3>4, <3>5, <3>6, <3>7 DEF FreeInv
    <2>3. HeldInv'
      BY <2>1, <1>1, <1>8, <1>11 DEF HeldInv, HandsInv, Held, Kept, isCodecConfig
    <2> QED BY <2>2, <2>3
  <1>24. ASSUME Poll
         PROVE  FreeInv' /\ HeldInv'
    <2>1. /\ UNCHANGED <<isStopped, pendingCodecConfig, packet, other, adder, stopper, released, handed>>
          /\ ~isStopped /\ decoding = 0 /\ decoding' \in Waiting /\ Waiting' = Waiting \ {decoding'}
      BY <1>24, <1>1, <1>2, <1>9, <1>10, <1>11 DEF Poll, Goto, Leave, Release, playerVars, adderVars
    <2>2. FreeInv'
      BY <2>1, <1>1, <1>4, <1>5, <1>6, <1>7, <1>8, <1>11 DEF FreeInv, Fresh, Clearing, Locked, isCodecConfig
    <2>3. HeldInv'
      BY <2>1, <1>1, <1>8, <1>11 DEF HeldInv, HandsInv, Held, Kept, isCodecConfig
    <2> QED BY <2>2, <2>3
  <1>25. ASSUME Decode
         PROVE  FreeInv' /\ HeldInv'
    <2>1. /\ UNCHANGED <<isStopped, pendingCodecConfig, packet, other, adder, stopper, handed>>
          /\ decoding # 0 /\ decoding' = 0 /\ released' = released \cup {decoding}
          /\ Waiting' = Waiting
      BY <1>25, <1>1, <1>2, <1>9, <1>10, <1>11 DEF Decode, Goto, Leave, Release, playerVars, adderVars
    <2>2. FreeInv'
      BY <2>1, <1>1, <1>4, <1>5, <1>6, <1>7, <1>8, <1>11 DEF FreeInv, Fresh, Clearing, Locked, isCodecConfig
    <2>3. HeldInv'
      BY <2>1, <1>1, <1>8, <1>11 DEF HeldInv, HandsInv, Held, Kept, isCodecConfig
    <2> QED BY <2>2, <2>3
  <1>26. ASSUME Exit
         PROVE  FreeInv' /\ HeldInv'
    <2>1. /\ UNCHANGED <<isStopped, pendingCodecConfig, packet, other, adder, decoding, stopper, released, handed>>
          /\ Waiting' = Waiting
      BY <1>26, <1>1, <1>2, <1>9, <1>10, <1>11 DEF Exit, Goto, Leave, Release, playerVars, adderVars
    <2>2. FreeInv'
      BY <2>1, <1>1, <1>4, <1>5, <1>6, <1>7, <1>8, <1>11 DEF FreeInv, Fresh, Clearing, Locked, isCodecConfig
    <2>3. HeldInv'
      BY <2>1, <1>1, <1>8, <1>11 DEF HeldInv, HandsInv, Held, Kept, isCodecConfig
    <2> QED BY <2>2, <2>3
  <1>27. ASSUME StopDecode
         PROVE  FreeInv' /\ HeldInv'
    <2>1. /\ UNCHANGED <<pendingCodecConfig, packet, other, adder, decoding, released, handed>>
          /\ isStopped' = TRUE /\ stopper' = "drain" /\ stopper = "idle"
          /\ Waiting' = Waiting
      BY <1>27, <1>1, <1>2, <1>9, <1>10, <1>11 DEF StopDecode, Goto, Leave, Release, playerVars, adderVars
    <2>2. FreeInv'
      BY <2>1, <1>1, <1>4, <1>5, <1>6, <1>7, <1>8, <1>11 DEF FreeInv, Fresh, Clearing, Locked, isCodecConfig
    <2>3. HeldInv'
      BY <2>1, <1>1, <1>8, <1>11 DEF HeldInv, HandsInv, Held, Kept, isCodecConfig
    <2> QED BY <2>2, <2>3
  <1>28. ASSUME Drain
         PROVE  FreeInv' /\ HeldInv'
    <2>1. /\ UNCHANGED <<isStopped, pendingCodecConfig, packet, other, adder, decoding, handed>>
          /\ isStopped /\ stopper' = "clear" /\ Waiting' = {}
          /\ released' = released \cup Waiting \cup ({pendingCodecConfig} \ {0})
      BY <1>28, <1>1, <1>2, <1>9, <1>10, <1>11 DEF Drain, Goto, Leave, Release, playerVars, adderVars
    <2>2. FreeInv'
      BY <2>1, <1>1, <1>4, <1>5, <1>6, <1>7, <1>8, <1>11 DEF FreeInv, Fresh, Clearing, Locked, isCodecConfig
    <2>3. HeldInv'
      BY <2>1, <1>1, <1>8, <1>11 DEF HeldInv, HandsInv, Held, Kept, isCodecConfig
    <2> QED BY <2>2, <2>3
  <1>29. ASSUME DrainDone
         PROVE  FreeInv' /\ HeldInv'
    <2>1. /\ UNCHANGED <<isStopped, packet, other, adder, decoding, released, handed>>
          /\ isStopped /\ pendingCodecConfig' = 0 /\ stopper' = "returned"
          /\ Waiting' = Waiting
      BY <1>29, <1>1, <1>2, <1>9, <1>10, <1>11 DEF DrainDone, Goto, Leave, Release, playerVars, adderVars
    <2>2. FreeInv'
      BY <2>1, <1>1, <1>4, <1>5, <1>6, <1>7, <1>8, <1>11 DEF FreeInv, Fresh, Clearing, Locked, isCodecConfig
    <2>3. HeldInv'
      BY <2>1, <1>1, <1>8, <1>11 DEF HeldInv, HandsInv, Held, Kept, isCodecConfig
    <2> QED BY <2>2, <2>3
  <1>30. ASSUME NEW t \in Adders, Add(t)
         PROVE  FreeInv' /\ HeldInv'
    <2>1. /\ adder[t] = "idle" /\ adder'[t] \in {"old", "enter"}
          /\ \A u \in Adders : u = t
          /\ packet'[t] = Len(handed) + 1
          /\ Waiting' = Waiting
          /\ UNCHANGED <<isStopped, pendingCodecConfig, decoding, stopper, released>>
      BY <1>30, <1>2, <1>9, <1>11 DEF Add, Goto, playerVars
    <2>2. PICK config \in BOOLEAN : /\ handed' = Append(handed, [by |-> t, config |-> config])
                                    /\ adder' = [adder EXCEPT ![t] = IF config THEN "old" ELSE "enter"]
      BY <1>30 DEF Add, Goto
    <2>3. /\ Len(handed') = Len(handed) + 1 /\ handed'[Len(handed) + 1].config = config
          /\ \A n \in 1 .. Len(handed) : isCodecConfig(n)' = isCodecConfig(n)
      BY <2>2, <1>1, AppendProperties DEF QueueBase, HandedOK, isCodecConfig
    <2>4. FreeInv'
      BY <2>1, <1>1 DEF FreeInv, Clearing
    <2>5. HandsInv'
      BY <2>1, <2>2, <2>3, <1>11 DEF HandsInv, isCodecConfig
    <2>6. ASSUME ~isStopped
          PROVE  \A n \in 1 .. Len(handed') : Held(n)'
      BY <2>1, <2>3, <2>6, <1>1 DEF HeldInv, Held, Kept
    <2> QED BY <2>1, <2>4, <2>5, <2>6 DEF HeldInv
  <1> QED BY <1>30, <1>12, <1>13, <1>14, <1>15, <1>16, <1>17, <1>18, <1>19, <1>20, <1>21, <1>22, <1>23, <1>24, <1>25, <1>26, <1>27, <1>28, <1>29
          DEF Next, AddPacket, PlayerThread, StopGoesOn

LEMMA MemoryInit == OneAdder /\ Init => MemoryIInv
  <1> SUFFICES ASSUME Init
               PROVE  FreeInv /\ HeldInv
    BY OrderInit DEF MemoryIInv
  <1>1. Len(handed) = 0 /\ 1 .. 0 = {} /\ released = {} /\ \A t \in Adders : adder[t] = "idle"
    BY DEF Init
  <1>2. FreeInv
    BY <1>1 DEF Init, FreeInv, Fresh
  <1>3. HeldInv
    BY <1>1 DEF HeldInv, HandsInv
  <1> QED BY <1>2, <1>3

LEMMA MemoryStutter == MemoryIInv /\ UNCHANGED vars => MemoryIInv'
  <1>1. FreeInv /\ UNCHANGED vars => FreeInv'
    BY DEF FreeInv, Fresh, Clearing, Waiting, isCodecConfig, vars, adderVars
  <1>2. HeldInv /\ UNCHANGED vars => HeldInv'
    BY DEF HeldInv, HandsInv, Held, Kept, Waiting, isCodecConfig, vars, adderVars, playerVars
  <1> QED BY <1>1, <1>2, OrderStutter DEF MemoryIInv, OneAdder

LEMMA MemorySafe == MemoryIInv => OwnedInv
  <1> SUFFICES ASSUME MemoryIInv
               PROVE  OwnedInv
    OBVIOUS
  <1>1. QueueBase /\ QueueOrdered /\ FreeInv /\ HeldInv
    BY DEF MemoryIInv, OrderIInv, OrderInv
  <1>2. TypeOK /\ ToSet(packets) = Waiting
    BY <1>1, QueueTyped, WaitingMoves
  <1>3. ASSUME ~isStopped, NEW n \in 1 .. Len(handed)
        PROVE  /\ \/ n \in released \cup ToSet(packets) \cup {pendingCodecConfig, decoding}
                  \/ \E t \in Adders :
                        \/ adder[t] # "idle" /\ packet[t] = n
                        \/ adder[t] = "releaseOld" /\ other[t] = n
               /\ n \in ToSet(packets) => n \notin released
    BY <1>1, <1>2, <1>3 DEF FreeInv, HeldInv, Held, Kept
  <1>4. pendingCodecConfig \in released =>
          stopper = "clear" \/ \E t \in Adders : adder[t] \in {"clear", "clearAgain"}
    BY <1>1 DEF FreeInv, Clearing
  <1> QED BY <1>2, <1>3, <1>4 DEF OwnedInv

(***************************************************************************)
(* With one thread that adds packets (the mirror thread, unless a surface  *)
(* is attached while it receives) no memory is lost before the player is   *)
(* stopped and none that is free is queued: the steps of addPacket on      *)
(* pendingCodecConfig outside the monitor (VideoPlayer.kt:50-52) then      *)
(* never meet an offer, and the trim (:290-308) meets only the poll.       *)
(***************************************************************************)
THEOREM PacketsHeld == OneAdder /\ Spec => []OwnedInv
  <1>1. MemoryIInv /\ [Next]_vars => MemoryIInv'
    BY MemoryStep, MemoryStutter
  <1>2. OneAdder /\ Init => MemoryIInv
    BY MemoryInit
  <1>3. MemoryIInv => OwnedInv
    BY MemorySafe
  <1> QED BY <1>1, <1>2, <1>3, PTL DEF Spec
=============================================================================
