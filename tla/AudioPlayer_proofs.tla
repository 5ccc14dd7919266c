------------------------- MODULE AudioPlayer_proofs -------------------------
(***************************************************************************)
(* Proofs about the audio player (AudioPlayer.kt): for any number of        *)
(* adding threads, any bounds of the queue and any offsets, every packet    *)
(* has one owner and is released when it has none, what a thread added is   *)
(* heard in its order, and the offset is applied at a start.                *)
(***************************************************************************)
EXTENDS AudioPlayer, FiniteSetTheorems, TLAPS

Distinct(s) == \A i, j \in DOMAIN s : s[i] = s[j] => i = j
Ordered(s) ==
    \A i, j \in DOMAIN s : i < j /\ handed[s[i]] = handed[s[j]] => s[i] < s[j]

InPlay == {"request", "granted", "offset", "consume", "play", "writing", "short",
           "free"}
Adding == {"trim", "trimPoll", "offer", "full", "again"}
Stopping == {"stopDrain", "release", "abandon", "stopped"}

(* Where the packets are: each in one place, the queue in the order of each *)
(* thread, behind the packet that is played.                                *)
OwnInv ==
    /\ handed \in Seq(Adders)
    /\ packets \in Seq(IsAdded) /\ Distinct(packets) /\ Ordered(packets)
    /\ packet \in [Callers -> {0} \cup IsAdded] /\ packet["main"] = 0
    /\ \A t \in Adders : packet[t] # 0 =>
         /\ handed[packet[t]] = t /\ packet[t] # playing
         /\ \A n \in IsAdded : handed[n] = t => n <= packet[t]
    /\ playing \in {0} \cup IsAdded
    /\ released = IsAdded \ (InQueue \cup InHand)
    /\ InQueue \cap InHand = {}
    /\ playing # 0 =>
         \A n \in InQueue : handed[n] = handed[playing] => playing < n

(* Where the threads are.                                                   *)
StateInv ==
    /\ caller \in [Callers -> {"idle", "drain", "flush"} \cup Adding \cup Stopping]
    /\ \A t \in Adders : packet[t] # 0 <=> caller[t] \in Adding
    /\ player \in {"top", "poll", "exit", "ended"} \cup InPlay
    /\ playing # 0 <=> player \in InPlay
    /\ lock \in {"none", "player"} /\ (lock = "player" <=> player = "writing")
    /\ isStopped \in BOOLEAN /\ hasStartedPlayback \in BOOLEAN
    /\ Len(packets) <= MaxBuffered
    /\ drop \in 0 .. PacketSize /\ dropped \in Nat /\ flushes \in Nat
    /\ audioSyncMs \in Offsets /\ pendingSilence \in Nat /\ pendingDrop \in Int
    /\ silenceCut \in BOOLEAN
    /\ stale \subseteq IsAdded
    /\ \A t \in Callers : caller[t] \in Stopping => isStopped /\ t = "main"
    /\ \A t \in Callers : caller[t] \in {"drain", "flush"} => flushes > 0

(* What was heard is behind whatever of its thread waits or is played.      *)
HeardInv ==
    /\ content \in Seq({0} \cup IsAdded)
    /\ \A i \in DOMAIN content : content[i] # 0 =>
         /\ content[i] \in released \cup {playing}
         /\ \A n \in InQueue : handed[n] = handed[content[i]] => content[i] < n
         /\ playing # 0 /\ player # "free" /\ handed[playing] = handed[content[i]]
              => content[i] < playing
    /\ HeardInOrder

-----------------------------------------------------------------------------
(***************************************************************************)
(* The ways in which a packet moves.                                       *)
(***************************************************************************)
Comes(t) ==
    /\ packet[t] = 0
    /\ handed' = Append(handed, t)
    /\ packet' = [packet EXCEPT ![t] = Len(handed) + 1]
    /\ UNCHANGED <<packets, playing, released, player, content>>
Drops ==
    /\ DropHead
    /\ UNCHANGED <<handed, packet, playing, player, content>>
Waits(t) ==
    /\ packet[t] # 0
    /\ packets' = Append(packets, packet[t])
    /\ packet' = [packet EXCEPT ![t] = 0]
    /\ UNCHANGED <<handed, playing, released, player, content>>
GivenUp(t) ==
    /\ packet[t] # 0
    /\ released' = released \cup {packet[t]}
    /\ packet' = [packet EXCEPT ![t] = 0]
    /\ UNCHANGED <<handed, packets, playing, player, content>>
Taken ==
    /\ packets # <<>> /\ playing = 0 /\ player = "poll"
    /\ playing' = Head(packets) /\ packets' = Tail(packets)
    /\ UNCHANGED <<handed, packet, released, content>>
Played ==
    /\ playing # 0 /\ player = "free"
    /\ released' = released \cup {playing} /\ playing' = 0
    /\ UNCHANGED <<handed, packets, packet, content>>
Silence(c) == \E n \in Nat : c = content \o [i \in 1 .. n |-> 0]
Stays ==
    /\ UNCHANGED <<handed, packets, packet, playing, released>>
    /\ player = "free" => player' = "free"
    /\ \/ content' = content \/ content' = <<>> \/ Silence(content')
       \/ /\ player = "writing" /\ player' = "free"
          /\ content' = Append(content, playing)

(* The silence that a first write sends before its packet.                  *)
LEMMA SilenceFirst ==
  ASSUME StateInv, PlayBegin
  PROVE  \/ /\ hasStartedPlayback
            /\ UNCHANGED <<track, hasStartedPlayback, content, pendingSilence, silenceCut>>
         \/ /\ ~hasStartedPlayback /\ hasStartedPlayback' = TRUE /\ track' = "playing"
            /\ \E n \in Nat :
                 /\ n <= pendingSilence
                 /\ silenceCut' = (silenceCut \/ n < pendingSilence)
                 /\ content' = content \o [i \in 1 .. n |-> 0]
                 /\ pendingSilence' = pendingSilence - n
<1>1. CASE hasStartedPlayback
  BY <1>1 DEF PlayBegin
<1>2. CASE ~hasStartedPlayback
  <2>1. PICK n \in 0 .. pendingSilence :
          /\ content' = content \o [i \in 1 .. n |-> 0]
          /\ pendingSilence' = pendingSilence - n
          /\ silenceCut' = (silenceCut \/ n < pendingSilence)
    BY <1>2 DEF PlayBegin
  <2>2. n \in Nat /\ n <= pendingSilence
    BY DEF StateInv
  <2>3. hasStartedPlayback' = TRUE /\ track' = "playing"
    BY <1>2 DEF PlayBegin
  <2> QED BY <1>2, <2>1, <2>2, <2>3, Zenon
<1> QED BY <1>1, <1>2

(* Every step moves at most one packet, in one of these ways.               *)
LEMMA Moves ==
  ASSUME StateInv, [Next]_vars
  PROVE  \/ \E t \in Adders : Comes(t) \/ Waits(t) \/ GivenUp(t)
         \/ Drops \/ Taken \/ Played \/ Stays
<1> USE DEF Adding, InPlay, Callers, trackVars, playerVars, focusVars, syncVars, flushVars
<1>1. ASSUME NEW t \in Adders, addPacket(t)
      PROVE  Comes(t) \/ Waits(t) \/ GivenUp(t) \/ Drops \/ Stays
  <2>1. CASE Add(t)
    BY <2>1 DEF Add, Comes, StateInv
  <2>2. CASE trimBacklog(t)
    BY <2>2 DEF trimBacklog, Stays
  <2>6. CASE TrimPoll(t)
    BY <2>6 DEF TrimPoll, Drops, Stays
  <2>3. CASE Offer(t)
    BY <2>3 DEF Offer, Offered, Waits, Stays, StateInv
  <2>4. CASE OfferFull(t)
    BY <2>4 DEF OfferFull, Drops, Stays
  <2>5. CASE OfferAgain(t)
    BY <2>5 DEF OfferAgain, Offered, Waits, GivenUp, StateInv
  <2> QED BY <1>1, <2>1, <2>2, <2>3, <2>4, <2>5, <2>6 DEF addPacket
<1>2. ASSUME NEW t \in Adders, flushPlayback(t) PROVE Stays
  BY <1>2 DEF flushPlayback, Stays
<1>3. CASE setAudioSyncMs
  BY <1>3 DEF setAudioSyncMs, Stays
<1>4. CASE stopPlay
  BY <1>4 DEF stopPlay, Stays
<1>5. ASSUME NEW t \in Callers, Flush(t) PROVE Drops \/ Stays
  BY <1>5 DEF Flush, DrainOne, DrainDone, resetSyncState, Reset, Drops, Stays
<1>6. CASE Stop
  BY <1>6 DEF Stop, DrainOne, DrainDone, ReleaseTrack, StopReturns, Drops, Stays
<1>7. CASE PlayerThread
  <2>1. CASE Top
    BY <2>1 DEF Top, TopIf, Stays
  <2>2. CASE Poll
    BY <2>2 DEF Poll, Taken, StateInv
  <2>3. CASE PollNothing \/ RequestFocus \/ FocusAnswer \/ ReadDrop
    BY <2>3 DEF PollNothing, RequestFocus, FocusAnswer, ReadDrop, Stays
  <2>4. CASE ConsumeDrop \/ PlayNoTrack \/ WriteFails \/ handleShortWrite \/ Exit
    BY <2>4 DEF ConsumeDrop, ConsumeTo, PlayNoTrack, WriteFails, handleShortWrite, Exit, Stays
  <2>5. CASE PlayBegin
    <3>1. content' = content \/ Silence(content')
      BY <2>5, SilenceFirst, Zenon DEF Silence
    <3> QED BY <2>5, <3>1 DEF PlayBegin, Stays
  <2>6. CASE Write
    BY <2>6 DEF Write, PlayTo, Stays
  <2>7. CASE PlayDone
    BY <2>7 DEF PlayDone, Played, StateInv
  <2> QED BY <1>7, <2>1, <2>2, <2>3, <2>4, <2>5, <2>6, <2>7 DEF PlayerThread
<1>8. CASE UNCHANGED vars
  BY <1>8 DEF vars, Stays
<1> QED BY <1>1, <1>2, <1>3, <1>4, <1>5, <1>6, <1>7, <1>8 DEF Next

-----------------------------------------------------------------------------
(***************************************************************************)
(* The queue when its head leaves and when a packet joins it.              *)
(***************************************************************************)
LEMMA TailFacts ==
  ASSUME NEW S, NEW s \in Seq(S), s # <<>>
  PROVE  /\ Tail(s) \in Seq(S) /\ Len(Tail(s)) = Len(s) - 1
         /\ 1 \in DOMAIN s /\ Head(s) = s[1] /\ Head(s) \in S
         /\ \A i \in DOMAIN Tail(s) : i + 1 \in DOMAIN s /\ Tail(s)[i] = s[i + 1]
         /\ \A i \in DOMAIN s : i # 1 => i - 1 \in DOMAIN Tail(s)
OBVIOUS

LEMMA AppendFacts ==
  ASSUME NEW S, NEW s \in Seq(S), NEW e \in S
  PROVE  /\ Append(s, e) \in Seq(S) /\ Len(Append(s, e)) = Len(s) + 1
         /\ DOMAIN Append(s, e) = DOMAIN s \cup {Len(s) + 1}
         /\ Append(s, e)[Len(s) + 1] = e
         /\ \A i \in DOMAIN s : Append(s, e)[i] = s[i] /\ i <= Len(s)
OBVIOUS

LEMMA HeadLeaves ==
  ASSUME OwnInv, packets # <<>>, packets' = Tail(packets), handed' = handed
  PROVE  /\ packets' \in Seq(IsAdded) /\ Distinct(packets)' /\ Ordered(packets)'
         /\ Head(packets) \in InQueue /\ Head(packets) \in IsAdded
         /\ InQueue' = InQueue \ {Head(packets)}
         /\ \A n \in InQueue' : handed[n] = handed[Head(packets)] => Head(packets) < n
<1> DEFINE s == packets
<1>1. s \in Seq(IsAdded) /\ Distinct(s) /\ Ordered(s)
  BY DEF OwnInv
<1>2. /\ Tail(s) \in Seq(IsAdded)
      /\ 1 \in DOMAIN s /\ Head(s) = s[1] /\ Head(s) \in IsAdded
      /\ \A i \in DOMAIN Tail(s) : i + 1 \in DOMAIN s /\ Tail(s)[i] = s[i + 1]
      /\ \A i \in DOMAIN s : i # 1 => i - 1 \in DOMAIN Tail(s)
  BY <1>1, TailFacts
<1>3. DOMAIN s = 1 .. Len(s) /\ DOMAIN Tail(s) = 1 .. Len(Tail(s))
      /\ Len(s) \in Nat /\ Len(Tail(s)) \in Nat
  BY <1>1, <1>2
<1>4. Distinct(packets)'
  BY <1>1, <1>2, <1>3 DEF Distinct
<1>5. Ordered(packets)'
  <2> SUFFICES ASSUME NEW i \in DOMAIN Tail(s), NEW j \in DOMAIN Tail(s), i < j,
                      handed[Tail(s)[i]] = handed[Tail(s)[j]]
               PROVE  Tail(s)[i] < Tail(s)[j]
    BY DEF Ordered
  <2>1. i + 1 < j + 1
    BY <1>3
  <2> QED BY <2>1, <1>1, <1>2 DEF Ordered
<1>6. InQueue' = InQueue \ {Head(packets)}
  <2>1. ASSUME NEW n \in InQueue' PROVE n \in InQueue \ {Head(packets)}
    <3>1. PICK i \in DOMAIN Tail(s) : n = Tail(s)[i]
      BY DEF InQueue
    <3>2. i + 1 \in DOMAIN s /\ n = s[i + 1] /\ i + 1 # 1
      BY <3>1, <1>2, <1>3
    <3>3. n # s[1]
      BY <3>2, <1>1, <1>2 DEF Distinct
    <3> QED BY <3>2, <3>3, <1>2 DEF InQueue
  <2>2. ASSUME NEW n \in InQueue, n # Head(packets) PROVE n \in InQueue'
    <3>1. PICK i \in DOMAIN s : n = s[i]
      BY DEF InQueue
    <3>2. i - 1 \in DOMAIN Tail(s) /\ Tail(s)[i - 1] = s[(i - 1) + 1]
      BY <2>2, <3>1, <1>2
    <3>3. n = Tail(s)[i - 1]
      BY <3>1, <3>2, <1>3
    <3> QED BY <3>2, <3>3 DEF InQueue
  <2> QED BY <2>1, <2>2
<1>7. ASSUME NEW n \in InQueue', handed[n] = handed[Head(packets)]
      PROVE  Head(packets) < n
  <2>1. PICK i \in DOMAIN Tail(s) : n = Tail(s)[i]
    BY DEF InQueue
  <2>2. i + 1 \in DOMAIN s /\ n = s[i + 1] /\ 1 < i + 1
    BY <2>1, <1>2, <1>3
  <2> QED BY <2>2, <1>1, <1>2, <1>7 DEF Ordered
<1>8. Head(packets) \in InQueue
  BY <1>2 DEF InQueue
<1> QED BY <1>2, <1>4, <1>5, <1>6, <1>7, <1>8 DEF IsAdded

LEMMA OneJoins ==
  ASSUME OwnInv, NEW t \in Adders, packet[t] # 0,
         packets' = Append(packets, packet[t]), handed' = handed
  PROVE  /\ packets' \in Seq(IsAdded) /\ Distinct(packets)' /\ Ordered(packets)'
         /\ InQueue' = InQueue \cup {packet[t]}
<1> DEFINE s == packets  e == packet[t]  r == Append(s, e)
<1>1. s \in Seq(IsAdded) /\ Distinct(s) /\ Ordered(s)
  BY DEF OwnInv
<1>2. /\ e \in IsAdded /\ handed[e] = t /\ e \notin InQueue
      /\ \A n \in IsAdded : handed[n] = t => n <= e
  BY DEF OwnInv, InHand, Callers
<1>3. /\ r \in Seq(IsAdded) /\ DOMAIN r = DOMAIN s \cup {Len(s) + 1}
      /\ r[Len(s) + 1] = e /\ \A i \in DOMAIN s : r[i] = s[i] /\ i <= Len(s)
  BY <1>1, <1>2, AppendFacts
<1>4. \A i \in DOMAIN s : s[i] \in IsAdded /\ s[i] # e
  BY <1>1, <1>2 DEF InQueue
<1>5. Distinct(packets)'
  BY <1>1, <1>3, <1>4 DEF Distinct
<1>6. Ordered(packets)'
  <2> SUFFICES ASSUME NEW i \in DOMAIN r, NEW j \in DOMAIN r, i < j,
                      handed[r[i]] = handed[r[j]]
               PROVE  r[i] < r[j]
    BY DEF Ordered
  <2>0. Len(s) \in Nat
    BY <1>1
  <2>1. i \in DOMAIN s
    BY <1>3, <2>0, <1>1
  <2>2. CASE j \in DOMAIN s
    BY <2>1, <2>2, <1>1, <1>3 DEF Ordered
  <2>3. CASE j = Len(s) + 1
    <3>1. s[i] <= e /\ s[i] # e
      BY <2>1, <2>3, <1>2, <1>3, <1>4
    <3>2. s[i] \in Nat /\ e \in Nat
      BY <2>1, <1>2, <1>4 DEF IsAdded, OwnInv
    <3> QED BY <3>1, <3>2, <2>1, <2>3, <1>3
  <2> QED BY <2>2, <2>3, <1>3
<1>7. InQueue' = InQueue \cup {e}
  BY <1>3 DEF InQueue
<1> QED BY <1>3, <1>5, <1>6, <1>7 DEF IsAdded

-----------------------------------------------------------------------------
(***************************************************************************)
(* Each packet in one place.                                               *)
(***************************************************************************)
LEMMA AddedGrows ==
  ASSUME OwnInv, NEW t \in Adders, handed' = Append(handed, t)
  PROVE  /\ handed' \in Seq(Adders) /\ IsAdded' = IsAdded \cup {Len(handed) + 1}
         /\ Len(handed) \in Nat /\ Len(handed) + 1 \notin IsAdded
         /\ \A n \in IsAdded : n \in Nat /\ n <= Len(handed)
         /\ handed'[Len(handed) + 1] = t
         /\ \A n \in IsAdded : handed'[n] = handed[n]
BY DEF OwnInv, IsAdded

LEMMA ComesOwn ==
  ASSUME OwnInv, "main" \notin Adders, NEW t \in Adders, Comes(t)
  PROVE  OwnInv'
<1> DEFINE e == Len(handed) + 1
<1>1. /\ handed' \in Seq(Adders) /\ IsAdded' = IsAdded \cup {e} /\ e \in Nat /\ e # 0
      /\ e \notin IsAdded /\ handed'[e] = t
      /\ \A n \in IsAdded : n \in Nat /\ n < e /\ handed'[n] = handed[n]
  <2>1. handed' = Append(handed, t)
    BY DEF Comes
  <2>2. /\ handed' \in Seq(Adders) /\ IsAdded' = IsAdded \cup {e}
        /\ Len(handed) \in Nat /\ e \notin IsAdded /\ handed'[e] = t
        /\ \A n \in IsAdded : n \in Nat /\ n <= Len(handed)
        /\ \A n \in IsAdded : handed'[n] = handed[n]
    BY <2>1, AddedGrows
  <2> QED BY <2>2
<1>2. /\ packets' = packets /\ playing' = playing /\ released' = released
      /\ packet' = [packet EXCEPT ![t] = e] /\ packet[t] = 0
  BY DEF Comes
<1>3. packets' \in Seq(IsAdded') /\ Distinct(packets)' /\ InQueue' = InQueue
      /\ InQueue \subseteq IsAdded
  BY <1>1, <1>2 DEF OwnInv, Distinct, InQueue
<1>4. Ordered(packets)'
  <2>1. \A i \in DOMAIN packets : packets[i] \in IsAdded
    BY DEF OwnInv
  <2> QED BY <1>1, <1>2, <2>1 DEF OwnInv, Ordered
<1>5. packet' \in [Callers -> {0} \cup IsAdded'] /\ packet'["main"] = 0
  BY <1>1, <1>2 DEF OwnInv, Callers
<1>6. playing' \in {0} \cup IsAdded' /\ playing # e
  BY <1>1, <1>2 DEF OwnInv
<1>7. ASSUME NEW u \in Adders, packet'[u] # 0
      PROVE  /\ handed'[packet'[u]] = u /\ packet'[u] # playing'
             /\ \A n \in IsAdded' : handed'[n] = u => n <= packet'[u]
  <2>1. CASE u = t
    <3>1. packet'[u] = e
      BY <2>1, <1>2 DEF OwnInv, Callers
    <3> QED BY <3>1, <2>1, <1>1, <1>2, <1>6
  <2>2. CASE u # t
    <3>1. packet'[u] = packet[u] /\ packet[u] \in IsAdded
      BY <2>2, <1>2, <1>7 DEF OwnInv, Callers
    <3> QED BY <3>1, <2>2, <1>1, <1>2, <1>7 DEF OwnInv
  <2> QED BY <2>1, <2>2
<1>8. InHand' = InHand \cup {e}
  <2>1. \A u \in Adders : packet'[u] = IF u = t THEN e ELSE packet[u]
    BY <1>2 DEF OwnInv, Callers
  <2> QED BY <2>1, <1>1, <1>2 DEF InHand
<1>9. released' = IsAdded' \ (InQueue' \cup InHand') /\ InQueue' \cap InHand' = {}
  BY <1>1, <1>2, <1>3, <1>8 DEF OwnInv
<1>10. playing' # 0 =>
         \A n \in InQueue' : handed'[n] = handed'[playing'] => playing' < n
  BY <1>1, <1>2, <1>3 DEF OwnInv
<1> QED BY <1>1, <1>3, <1>4, <1>5, <1>6, <1>7, <1>9, <1>10 DEF OwnInv

LEMMA DropsOwn ==
  ASSUME OwnInv, Drops
  PROVE  OwnInv'
<1> DEFINE h == Head(packets)
<1>1. /\ packets # <<>> /\ packets' = Tail(packets) /\ released' = released \cup {h}
      /\ handed' = handed /\ packet' = packet /\ playing' = playing
  BY DEF Drops, DropHead
<1>2. /\ packets' \in Seq(IsAdded) /\ Distinct(packets)' /\ Ordered(packets)'
      /\ h \in InQueue /\ h \in IsAdded /\ InQueue' = InQueue \ {h}
  BY <1>1, HeadLeaves
<1>3. InHand' = InHand /\ IsAdded' = IsAdded
  BY <1>1 DEF InHand, IsAdded
<1>4. released' = IsAdded' \ (InQueue' \cup InHand') /\ InQueue' \cap InHand' = {}
  BY <1>1, <1>2, <1>3 DEF OwnInv
<1> QED BY <1>1, <1>2, <1>3, <1>4 DEF OwnInv

(* Of the packets in hand only the adder's own leaves.                      *)
LEMMA HandEmptied ==
  ASSUME OwnInv, NEW t \in Adders, packet[t] # 0,
         packet' = [packet EXCEPT ![t] = 0], UNCHANGED <<playing, handed>>
  PROVE  /\ packet' \in [Callers -> {0} \cup IsAdded]
         /\ \A u \in Adders : packet'[u] = IF u = t THEN 0 ELSE packet[u]
         /\ InHand' = InHand \ {packet[t]} /\ packet[t] \in InHand
         /\ packet[t] \in IsAdded
<1>1. \A u \in Adders : packet'[u] = IF u = t THEN 0 ELSE packet[u]
  BY DEF OwnInv, Callers
<1>2. \A u \in Adders : u # t /\ packet[u] # 0 => packet[u] # packet[t]
  BY DEF OwnInv
<1>3. packet' \in [Callers -> {0} \cup IsAdded] /\ packet[t] \in IsAdded
  BY DEF OwnInv, Callers
<1>4. packet[t] # playing
  BY DEF OwnInv
<1> QED BY <1>1, <1>2, <1>3, <1>4 DEF InHand

LEMMA WaitsOwn ==
  ASSUME OwnInv, "main" \notin Adders, NEW t \in Adders, Waits(t)
  PROVE  OwnInv'
<1> DEFINE e == packet[t]
<1>1. /\ e # 0 /\ packets' = Append(packets, e) /\ packet' = [packet EXCEPT ![t] = 0]
      /\ handed' = handed /\ playing' = playing /\ released' = released
  BY DEF Waits
<1>2. /\ packets' \in Seq(IsAdded) /\ Distinct(packets)' /\ Ordered(packets)'
      /\ InQueue' = InQueue \cup {e}
  BY <1>1, OneJoins
<1>3. /\ packet' \in [Callers -> {0} \cup IsAdded]
      /\ \A u \in Adders : packet'[u] = IF u = t THEN 0 ELSE packet[u]
      /\ InHand' = InHand \ {e} /\ e \in InHand /\ e \in IsAdded
  BY <1>1, HandEmptied
<1>4. IsAdded' = IsAdded /\ packet'["main"] = 0
  BY <1>1 DEF IsAdded, OwnInv, Callers
<1>5. released' = IsAdded' \ (InQueue' \cup InHand') /\ InQueue' \cap InHand' = {}
  BY <1>1, <1>2, <1>3, <1>4 DEF OwnInv
<1>6. ASSUME playing # 0, handed[e] = handed[playing] PROVE playing < e
  <2>1. playing \in IsAdded /\ playing <= e /\ playing # e
    BY <1>1, <1>6 DEF OwnInv
  <2> QED BY <2>1, <1>3 DEF OwnInv, IsAdded
<1> QED BY <1>1, <1>2, <1>3, <1>4, <1>5, <1>6 DEF OwnInv

LEMMA GivenUpOwn ==
  ASSUME OwnInv, "main" \notin Adders, NEW t \in Adders, GivenUp(t)
  PROVE  OwnInv'
<1> DEFINE e == packet[t]
<1>1. /\ e # 0 /\ released' = released \cup {e} /\ packet' = [packet EXCEPT ![t] = 0]
      /\ handed' = handed /\ playing' = playing /\ packets' = packets
  BY DEF GivenUp
<1>2. /\ packet' \in [Callers -> {0} \cup IsAdded]
      /\ \A u \in Adders : packet'[u] = IF u = t THEN 0 ELSE packet[u]
      /\ InHand' = InHand \ {e} /\ e \in InHand /\ e \in IsAdded
  BY <1>1, HandEmptied
<1>3. IsAdded' = IsAdded /\ packet'["main"] = 0 /\ InQueue' = InQueue
  BY <1>1 DEF IsAdded, OwnInv, Callers, InQueue
<1>4. released' = IsAdded' \ (InQueue' \cup InHand') /\ InQueue' \cap InHand' = {}
  BY <1>1, <1>2, <1>3 DEF OwnInv
<1>5. Distinct(packets)' /\ Ordered(packets)'
  BY <1>1 DEF OwnInv, Distinct, Ordered
<1> QED BY <1>1, <1>2, <1>3, <1>4, <1>5 DEF OwnInv

LEMMA TakenOwn ==
  ASSUME OwnInv, Taken
  PROVE  OwnInv'
<1> DEFINE h == Head(packets)
<1>1. /\ packets # <<>> /\ packets' = Tail(packets) /\ playing = 0 /\ playing' = h
      /\ handed' = handed /\ packet' = packet /\ released' = released
  BY DEF Taken
<1>2. /\ packets' \in Seq(IsAdded) /\ Distinct(packets)' /\ Ordered(packets)'
      /\ h \in InQueue /\ h \in IsAdded /\ InQueue' = InQueue \ {h}
      /\ \A n \in InQueue' : handed[n] = handed[h] => h < n
  BY <1>1, HeadLeaves
<1>3. InHand' = InHand \cup {h} /\ IsAdded' = IsAdded
  <2>1. h # 0
    BY <1>2 DEF OwnInv, IsAdded
  <2> QED BY <1>1, <2>1 DEF InHand, IsAdded
<1>4. released' = IsAdded' \ (InQueue' \cup InHand') /\ InQueue' \cap InHand' = {}
  BY <1>1, <1>2, <1>3 DEF OwnInv
<1>5. \A t \in Adders : packet[t] # 0 => packet[t] # h
  BY <1>2 DEF OwnInv, InHand
<1> QED BY <1>1, <1>2, <1>3, <1>4, <1>5 DEF OwnInv

LEMMA PlayedOwn ==
  ASSUME OwnInv, Played
  PROVE  OwnInv'
<1>1. /\ playing # 0 /\ released' = released \cup {playing} /\ playing' = 0
      /\ handed' = handed /\ packet' = packet /\ packets' = packets
  BY DEF Played
<1>2. IsAdded' = IsAdded /\ InQueue' = InQueue
  BY <1>1 DEF IsAdded, InQueue
<1>3. InHand' = InHand \ {playing} /\ playing \in InHand
  BY <1>1 DEF InHand, OwnInv
<1>4. released' = IsAdded' \ (InQueue' \cup InHand') /\ InQueue' \cap InHand' = {}
  BY <1>1, <1>2, <1>3 DEF OwnInv
<1>5. Distinct(packets)' /\ Ordered(packets)'
  BY <1>1 DEF OwnInv, Distinct, Ordered
<1> QED BY <1>1, <1>2, <1>4, <1>5 DEF OwnInv

LEMMA StaysOwn ==
  ASSUME OwnInv, Stays
  PROVE  OwnInv'
<1>1. UNCHANGED <<handed, packets, packet, playing, released>>
  BY DEF Stays
<1>2. IsAdded' = IsAdded /\ InQueue' = InQueue /\ InHand' = InHand
  BY <1>1 DEF IsAdded, InQueue, InHand
<1>3. Distinct(packets)' /\ Ordered(packets)'
  BY <1>1 DEF OwnInv, Distinct, Ordered
<1> QED BY <1>1, <1>2, <1>3 DEF OwnInv

LEMMA OwnStep ==
  ASSUME StateInv, OwnInv, [Next]_vars
  PROVE  OwnInv'
<1>1. "main" \notin Adders
  BY BoundsAssumption
<1> QED BY <1>1, Moves, ComesOwn, DropsOwn, WaitsOwn, GivenUpOwn, TakenOwn, PlayedOwn,
           StaysOwn

-----------------------------------------------------------------------------
(***************************************************************************)
(* Where the threads are.                                                  *)
(***************************************************************************)
LEMMA StateStep ==
  ASSUME StateInv, OwnInv, [Next]_vars
  PROVE  StateInv'
<1> USE BoundsAssumption
    DEF StateInv, Adding, InPlay, Stopping, Callers, Goto, trackVars, playerVars, focusVars,
        syncVars, flushVars
<1>0. /\ packets \in Seq(IsAdded) /\ packet \in [Callers -> {0} \cup IsAdded]
      /\ Len(packets) \in Nat /\ handed \in Seq(Adders)
  BY DEF OwnInv
<1>1. packets # <<>> => Len(Tail(packets)) \in Nat /\ Len(Tail(packets)) = Len(packets) - 1
                        /\ Head(packets) \in IsAdded
  BY <1>0, TailFacts
<1>2. \A e : Len(Append(packets, e)) = Len(packets) + 1
  BY <1>0
<1>3. handed' = handed => IsAdded' = IsAdded
  BY DEF IsAdded
<1>4. ASSUME NEW t \in Adders, Add(t) PROVE StateInv'
  <2>1. IsAdded \subseteq IsAdded' /\ Len(handed) + 1 # 0
    BY <1>4, AddedGrows DEF Add
  <2> QED BY <1>4, <1>0, <2>1 DEF Add
<1>5. ASSUME NEW t \in Adders, trimBacklog(t) PROVE StateInv'
  BY <1>5, <1>0, <1>3 DEF trimBacklog
<1>25. ASSUME NEW t \in Adders, TrimPoll(t) PROVE StateInv'
  BY <1>25, <1>0, <1>1, <1>3 DEF TrimPoll, DropHead
<1>6. ASSUME NEW t \in Adders, Offer(t) PROVE StateInv'
  <2>1. CASE Len(packets) < MaxBuffered
    <3>1. Len(packets') = Len(packets) + 1
      BY <1>6, <2>1, <1>2 DEF Offer, Offered
    <3> QED BY <1>6, <2>1, <1>0, <3>1, <1>3 DEF Offer, Offered
  <2>2. CASE ~(Len(packets) < MaxBuffered)
    BY <1>6, <2>2, <1>0, <1>3 DEF Offer
  <2> QED BY <2>1, <2>2
<1>7. ASSUME NEW t \in Adders, OfferFull(t) PROVE StateInv'
  BY <1>7, <1>0, <1>1, <1>3 DEF OfferFull, DropHead
<1>8. ASSUME NEW t \in Adders, OfferAgain(t) PROVE StateInv'
  BY <1>8, <1>0, <1>2, <1>3 DEF OfferAgain, Offered
<1>9. ASSUME NEW t \in Adders, flushPlayback(t) PROVE StateInv'
  BY <1>9, <1>0, <1>3 DEF flushPlayback, FlushBegin, IsAdded
<1>10. CASE setAudioSyncMs
  BY <1>10, <1>0, <1>3 DEF setAudioSyncMs, FlushBegin, IsAdded
<1>11. CASE stopPlay
  BY <1>11, <1>0, <1>3 DEF stopPlay
<1>12. ASSUME NEW t \in Callers, DrainOne(t) PROVE StateInv'
  BY <1>12, <1>0, <1>1, <1>3 DEF DrainOne, DropHead
<1>13. ASSUME NEW t \in Callers, DrainDone(t) PROVE StateInv'
  BY <1>13, <1>0, <1>3 DEF DrainDone
<1>14. ASSUME NEW t \in Callers, resetSyncState(t) PROVE StateInv'
  <2>1. pendingSilence' \in Nat /\ pendingDrop' \in Int /\ dropped' = 0
        /\ silenceCut' = FALSE
    BY <1>14 DEF resetSyncState, Reset
  <2>2. /\ caller' = [caller EXCEPT ![t] = "idle"] /\ caller[t] = "flush"
        /\ hasStartedPlayback' = FALSE
        /\ UNCHANGED <<isStopped, packets, lock, packet, player, playing, drop,
                       audioSyncMs, released, handed, flushes, stale>>
    BY <1>14 DEF resetSyncState, Reset
  <2> QED BY <2>1, <2>2, <1>0, <1>3
<1>15. CASE ReleaseTrack \/ StopReturns
  BY <1>15, <1>0, <1>3 DEF ReleaseTrack, StopReturns
<1>16. CASE Top \/ PollNothing \/ RequestFocus \/ FocusAnswer
  BY <1>16, <1>0, <1>3 DEF Top, TopIf, PollNothing, RequestFocus, FocusAnswer
<1>17. CASE Poll
  BY <1>17, <1>0, <1>1, <1>3 DEF Poll, IsAdded
<1>18. CASE ReadDrop
  BY <1>18, <1>0, <1>3 DEF ReadDrop
<1>19. CASE ConsumeDrop
  BY <1>19, <1>0, <1>3 DEF ConsumeDrop, ConsumeTo
<1>20. CASE PlayNoTrack \/ Write \/ WriteFails \/ handleShortWrite
  BY <1>20, <1>0, <1>3 DEF PlayNoTrack, Write, PlayTo, WriteFails, handleShortWrite
<1>21. CASE PlayBegin
  <2>1. pendingSilence' \in Nat /\ hasStartedPlayback' \in BOOLEAN /\ silenceCut' \in BOOLEAN
    <3>1. CASE hasStartedPlayback
      BY <1>21, <3>1, SilenceFirst
    <3>2. CASE ~hasStartedPlayback
      <4>1. PICK n \in Nat : /\ n <= pendingSilence /\ pendingSilence' = pendingSilence - n
                             /\ silenceCut' = (silenceCut \/ n < pendingSilence)
        BY <1>21, <3>2, SilenceFirst, Zenon
      <4> QED BY <1>21, <3>2, <4>1, SilenceFirst DEF PlayBegin
    <3> QED BY <3>1, <3>2
  <2>2. /\ player = "play" /\ player' = "writing" /\ lock' = "player"
        /\ UNCHANGED <<isStopped, packets, caller, packet, playing, drop, dropped,
                       audioSyncMs, pendingDrop, released, handed, flushes, stale>>
    BY <1>21 DEF PlayBegin
  <2> QED BY <2>1, <2>2, <1>0, <1>3
<1>22. CASE PlayDone
  BY <1>22, <1>0, <1>3 DEF PlayDone
<1>23. CASE Exit
  BY <1>23, <1>0, <1>3 DEF Exit
<1>24. CASE UNCHANGED vars
  BY <1>24, <1>0, <1>3 DEF vars
<1> QED BY <1>4, <1>5, <1>6, <1>7, <1>8, <1>9, <1>10, <1>11, <1>12, <1>13, <1>14, <1>15,
           <1>16, <1>17, <1>18, <1>19, <1>20, <1>21, <1>22, <1>23, <1>24, <1>25
        DEF Next, addPacket, Flush, Stop, PlayerThread

-----------------------------------------------------------------------------
(***************************************************************************)
(* What was heard.                                                         *)
(***************************************************************************)
HeardAt(i) ==
    /\ content[i] \in released \cup {playing}
    /\ \A n \in InQueue : handed[n] = handed[content[i]] => content[i] < n
    /\ playing # 0 /\ player # "free" /\ handed[playing] = handed[content[i]]
         => content[i] < playing

LEMMA HeardKept ==
  ASSUME OwnInv, HeardInv, UNCHANGED content,
         IsAdded \subseteq IsAdded', \A n \in IsAdded : handed'[n] = handed[n],
         \A i \in DOMAIN content : content[i] # 0 /\ HeardAt(i) => HeardAt(i)'
  PROVE  HeardInv'
<1>1. /\ content \in Seq({0} \cup IsAdded) /\ HeardInOrder
      /\ \A i \in DOMAIN content : content[i] # 0 => HeardAt(i)
  BY DEF HeardInv, HeardAt
<1>2. content' \in Seq({0} \cup IsAdded')
  BY <1>1
<1>3. HeardInOrder'
  BY <1>1 DEF HeardInOrder
<1>4. \A i \in DOMAIN content' : content'[i] # 0 => HeardAt(i)'
  BY <1>1
<1> QED BY <1>2, <1>3, <1>4 DEF HeardInv, HeardAt

LEMMA HeardStep ==
  ASSUME StateInv, OwnInv, HeardInv, [Next]_vars
  PROVE  HeardInv'
<1> USE DEF HeardAt
<1>0. /\ content \in Seq({0} \cup IsAdded) /\ 0 \notin IsAdded
      /\ \A i \in DOMAIN content : content[i] # 0 => content[i] \in IsAdded /\ HeardAt(i)
      /\ InQueue \subseteq IsAdded /\ HeardInOrder
  BY DEF HeardInv, OwnInv, IsAdded, InQueue
<1>1. ASSUME NEW t \in Adders, Comes(t) PROVE HeardInv'
  <2>1. /\ IsAdded \subseteq IsAdded' /\ \A n \in IsAdded : handed'[n] = handed[n]
    BY <1>1, AddedGrows DEF Comes
  <2>2. UNCHANGED <<packets, playing, released, player, content>> /\ InQueue' = InQueue
    BY <1>1 DEF Comes, InQueue
  <2>3. playing \in {0} \cup IsAdded
    BY DEF OwnInv
  <2>4. \A i \in DOMAIN content : content[i] # 0 /\ HeardAt(i) => HeardAt(i)'
    BY <1>0, <2>1, <2>2, <2>3
  <2> QED BY <2>1, <2>2, <2>4, HeardKept
<1>2. CASE Drops
  <2>1. UNCHANGED <<handed, packet, playing, player, content>> /\ packets # <<>>
        /\ packets' = Tail(packets) /\ released' = released \cup {Head(packets)}
    BY <1>2 DEF Drops, DropHead
  <2>2. InQueue' = InQueue \ {Head(packets)} /\ IsAdded' = IsAdded
    BY <2>1, HeadLeaves DEF IsAdded
  <2>3. \A i \in DOMAIN content : content[i] # 0 /\ HeardAt(i) => HeardAt(i)'
    BY <2>1, <2>2
  <2> QED BY <2>1, <2>2, <2>3, HeardKept
<1>3. ASSUME NEW t \in Adders, Waits(t) PROVE HeardInv'
  <2> DEFINE e == packet[t]
  <2>1. UNCHANGED <<handed, playing, released, player, content>> /\ e # 0
        /\ packets' = Append(packets, e)
    BY <1>3 DEF Waits
  <2>2. InQueue' = InQueue \cup {e} /\ IsAdded' = IsAdded
    BY <2>1, OneJoins DEF IsAdded
  <2>3. /\ e \in IsAdded /\ e \notin released /\ e # playing /\ handed[e] = t
        /\ \A n \in IsAdded : handed[n] = t => n <= e
    BY <2>1 DEF OwnInv, Callers, InHand
  <2>4. ASSUME NEW i \in DOMAIN content, content[i] # 0, HeardAt(i) PROVE HeardAt(i)'
    <3>1. handed[content[i]] = t => content[i] <= e /\ content[i] # e
      BY <1>0, <2>3, <2>4
    <3>2. handed[e] = handed[content[i]] => content[i] < e
      BY <3>1, <1>0, <2>3, <2>4 DEF OwnInv, IsAdded
    <3> QED BY <2>1, <2>2, <2>4, <3>2
  <2> QED BY <2>1, <2>2, <2>4, HeardKept
<1>4. ASSUME NEW t \in Adders, GivenUp(t) PROVE HeardInv'
  <2>1. UNCHANGED <<handed, packets, playing, player, content>>
        /\ released' = released \cup {packet[t]}
    BY <1>4 DEF GivenUp
  <2>2. InQueue' = InQueue /\ IsAdded' = IsAdded
    BY <2>1 DEF InQueue, IsAdded
  <2>3. \A i \in DOMAIN content : content[i] # 0 /\ HeardAt(i) => HeardAt(i)'
    BY <2>1, <2>2
  <2> QED BY <2>1, <2>2, <2>3, HeardKept
<1>5. CASE Taken
  <2> DEFINE h == Head(packets)
  <2>1. UNCHANGED <<handed, packet, released, content>> /\ packets # <<>> /\ playing = 0
        /\ playing' = h /\ packets' = Tail(packets)
    BY <1>5 DEF Taken
  <2>2. InQueue' = InQueue \ {h} /\ IsAdded' = IsAdded /\ h \in InQueue
    BY <2>1, HeadLeaves DEF IsAdded
  <2>3. \A i \in DOMAIN content : content[i] # 0 /\ HeardAt(i) => HeardAt(i)'
    BY <2>1, <2>2
  <2> QED BY <2>1, <2>2, <2>3, HeardKept
<1>6. CASE Played
  <2>1. UNCHANGED <<handed, packets, packet, content>>
        /\ released' = released \cup {playing} /\ playing' = 0
    BY <1>6 DEF Played
  <2>2. InQueue' = InQueue /\ IsAdded' = IsAdded
    BY <2>1 DEF InQueue, IsAdded
  <2>3. \A i \in DOMAIN content : content[i] # 0 /\ HeardAt(i) => HeardAt(i)'
    BY <2>1, <2>2
  <2> QED BY <2>1, <2>2, <2>3, HeardKept
<1>7. CASE Stays
  <2>1. UNCHANGED <<handed, packets, packet, playing, released>>
        /\ (player = "free" => player' = "free")
    BY <1>7 DEF Stays
  <2>2. InQueue' = InQueue /\ IsAdded' = IsAdded
    BY <2>1 DEF InQueue, IsAdded
  <2>3. CASE content' = content
    <3>1. \A i \in DOMAIN content : content[i] # 0 /\ HeardAt(i) => HeardAt(i)'
      BY <2>1, <2>2, <2>3
    <3> QED BY <2>1, <2>2, <2>3, <3>1, HeardKept
  <2>4. CASE content' = <<>>
    BY <2>4 DEF HeardInv, HeardInOrder
  <2>5. CASE Silence(content')
    <3>1. PICK n \in Nat : content' = content \o [i \in 1 .. n |-> 0]
      BY <2>5, Zenon DEF Silence
    <3>2. /\ content' \in Seq({0} \cup IsAdded)
          /\ \A i \in DOMAIN content' :
               content'[i] # 0 => i \in DOMAIN content /\ content'[i] = content[i]
      <4> DEFINE z == [i \in 1 .. n |-> 0]
      <4>1. z \in Seq({0} \cup IsAdded) /\ Len(z) = n
        OBVIOUS
      <4>2. \A i \in DOMAIN content' :
              content'[i] = IF i <= Len(content) THEN content[i] ELSE 0
        BY <1>0, <3>1, <4>1
      <4> QED BY <1>0, <3>1, <4>1, <4>2
    <3>3. HeardInOrder'
      BY <1>0, <2>1, <3>2 DEF HeardInOrder
    <3>4. \A i \in DOMAIN content' : content'[i] # 0 => HeardAt(i)'
      BY <1>0, <2>1, <2>2, <3>2
    <3> QED BY <2>2, <3>2, <3>3, <3>4 DEF HeardInv
  <2>6. CASE /\ player = "writing" /\ player' = "free"
             /\ content' = Append(content, playing)
    <3>1. playing # 0 /\ playing \in IsAdded
      BY <2>6 DEF StateInv, OwnInv, InPlay
    <3>2. /\ content' \in Seq({0} \cup IsAdded)
          /\ DOMAIN content' = DOMAIN content \cup {Len(content) + 1}
          /\ content'[Len(content) + 1] = playing
          /\ \A i \in DOMAIN content : content'[i] = content[i] /\ i <= Len(content)
      BY <1>0, <2>6, <3>1, AppendFacts
    <3>3. HeardInOrder'
      <4> SUFFICES ASSUME NEW i \in DOMAIN content', NEW j \in DOMAIN content', i < j,
                          content'[i] # 0, content'[j] # 0,
                          handed[content'[i]] = handed[content'[j]]
                   PROVE  content'[i] < content'[j]
        BY <2>1 DEF HeardInOrder
      <4>0. Len(content) \in Nat
        BY <1>0
      <4>1. i \in DOMAIN content
        BY <1>0, <3>2, <4>0
      <4>2. CASE j \in DOMAIN content
        BY <1>0, <3>2, <4>1, <4>2 DEF HeardInOrder
      <4>3. CASE j = Len(content) + 1
        BY <1>0, <2>6, <3>1, <3>2, <4>1, <4>3
      <4> QED BY <3>2, <4>2, <4>3
    <3>4. \A i \in DOMAIN content' : content'[i] # 0 => HeardAt(i)'
      <4>1. \A n \in InQueue : handed[n] = handed[playing] => playing < n
        BY <3>1 DEF OwnInv
      <4> QED BY <1>0, <2>1, <2>2, <2>6, <3>2, <4>1
    <3> QED BY <2>2, <3>2, <3>3, <3>4 DEF HeardInv
  <2> QED BY <1>7, <2>3, <2>4, <2>5, <2>6 DEF Stays
<1> QED BY <1>1, <1>2, <1>3, <1>4, <1>5, <1>6, <1>7, Moves

-----------------------------------------------------------------------------
(***************************************************************************)
(* The offset of a start.                                                  *)
(***************************************************************************)
Zeros == {i \in DOMAIN content : content[i] = 0}
Heard == \E i \in DOMAIN content : content[i] # 0

(* Until somebody flushes or stops: what is written and what is still due   *)
(* make up the offset, and nothing is written before the drop is done; when *)
(* playback has started silence is due only if a write of it failed, and    *)
(* nothing starts it anew, because the track goes on playing.               *)
OffsetInv ==
    flushes = 0 /\ ~isStopped =>
      /\ ~hasStartedPlayback => content = <<>>
      /\ player \in {"writing", "short"} => hasStartedPlayback
      /\ hasStartedPlayback => track = "playing"
      /\ player \in {"play", "writing"} \/ Heard => pendingDrop = 0
      /\ player = "consume" =>
           drop > 0 /\ drop <= pendingDrop /\ (drop < PacketSize => drop = pendingDrop)
      /\ pendingDrop >= 0
      /\ dropped + pendingDrop = (IF audioSyncMs < 0 THEN -audioSyncMs ELSE 0)
      /\ IsFiniteSet(Zeros)
      /\ Cardinality(Zeros) + pendingSilence = (IF audioSyncMs > 0 THEN audioSyncMs ELSE 0)
      /\ hasStartedPlayback /\ ~silenceCut => pendingSilence = 0

(* The steps that leave the offset alone.                                   *)
Aside ==
    /\ UNCHANGED <<hasStartedPlayback, content, pendingDrop, dropped, pendingSilence,
                   audioSyncMs, silenceCut, track>>
    /\ \/ UNCHANGED <<player, drop>>
       \/ player' \notin {"play", "writing", "short", "consume"}
       \/ player = "writing" /\ player' = "short"

LEMMA AsideKeeps ==
  ASSUME OffsetInv, Aside, flushes = 0, ~isStopped
  PROVE  OffsetInv'
<1>1. Zeros' = Zeros /\ Heard' = Heard
  BY DEF Aside, Zeros, Heard
<1> QED BY <1>1 DEF OffsetInv, Aside

LEMMA OffsetStep ==
  ASSUME StateInv, OwnInv, HeardInv, OffsetInv, [Next]_vars
  PROVE  OffsetInv'
<1> SUFFICES ASSUME flushes' = 0, ~isStopped' PROVE OffsetInv'
  BY DEF OffsetInv
<1> USE BoundsAssumption
    DEF Callers, trackVars, playerVars, focusVars, syncVars, flushVars
<1>0. /\ content \in Seq({0} \cup IsAdded) /\ flushes \in Nat
      /\ isStopped \in BOOLEAN /\ PacketSize \in Nat \ {0}
      /\ drop \in Int /\ dropped \in Nat /\ pendingDrop \in Int /\ audioSyncMs \in Int
      /\ pendingSilence \in Nat
  BY DEF HeardInv, StateInv
<1>1. ASSUME NEW t \in Adders, addPacket(t) PROVE flushes = 0 /\ ~isStopped /\ Aside
  BY <1>1 DEF addPacket, Add, trimBacklog, TrimPoll, Offer, OfferFull, OfferAgain, Aside
<1>2. ASSUME NEW t \in Callers, FlushBegin(t) PROVE FALSE
  BY <1>0, <1>2 DEF FlushBegin
<1>3. CASE stopPlay
  BY <1>3 DEF stopPlay
<1>4. ASSUME NEW t \in Callers, DrainOne(t) \/ DrainDone(t)
      PROVE  flushes = 0 /\ ~isStopped /\ Aside
  BY <1>4 DEF DrainOne, DrainDone, Aside
<1>5. ASSUME NEW t \in Callers, resetSyncState(t) PROVE FALSE
  BY <1>0, <1>5 DEF resetSyncState, Reset, StateInv
<1>6. CASE ReleaseTrack \/ StopReturns
  BY <1>6 DEF ReleaseTrack, StopReturns, StateInv, Stopping
<1>7. CASE Top \/ Poll \/ PollNothing \/ RequestFocus \/ FocusAnswer
  <2>1. flushes = 0 /\ ~isStopped /\ Aside
    BY <1>7 DEF Top, TopIf, Poll, PollNothing, RequestFocus, FocusAnswer, Aside
  <2> QED BY <2>1, AsideKeeps
<1>8. CASE PlayNoTrack \/ WriteFails \/ handleShortWrite \/ PlayDone \/ Exit
  <2>1. ASSUME handleShortWrite PROVE hasStartedPlayback' = hasStartedPlayback
    <3>1. player = "short" /\ flushes = 0 /\ ~isStopped
      BY <2>1 DEF handleShortWrite
    <3>2. hasStartedPlayback /\ track = "playing"
      BY <3>1 DEF OffsetInv
    <3>3. hasStartedPlayback' = (hasStartedPlayback /\ track = "playing")
      BY <2>1 DEF handleShortWrite
    <3>4. hasStartedPlayback \in BOOLEAN
      BY DEF StateInv
    <3> QED BY <3>2, <3>3, <3>4, Zenon
  <2>2. flushes = 0 /\ ~isStopped /\ Aside
    BY <1>8, <2>1 DEF PlayNoTrack, WriteFails, handleShortWrite, PlayDone, Exit, Aside
  <2> QED BY <2>2, AsideKeeps
<1>9. CASE ReadDrop
  <2>1. /\ player = "offset" /\ flushes = 0 /\ ~isStopped
        /\ drop' = IF pendingDrop <= 0 THEN 0
                   ELSE IF pendingDrop < PacketSize THEN pendingDrop ELSE PacketSize
        /\ player' = IF pendingDrop <= 0 THEN "play" ELSE "consume"
        /\ UNCHANGED <<hasStartedPlayback, content, pendingDrop, dropped,
                       pendingSilence, audioSyncMs, silenceCut, track>>
    BY <1>9 DEF ReadDrop
  <2>2. Zeros' = Zeros /\ Heard' = Heard
    BY <2>1 DEF Zeros, Heard
  <2> QED BY <1>0, <2>1, <2>2 DEF OffsetInv
<1>10. CASE ConsumeDrop
  <2>1. /\ player = "consume" /\ flushes = 0 /\ ~isStopped
        /\ pendingDrop' = pendingDrop - drop /\ dropped' = dropped + drop
        /\ player' = IF drop >= PacketSize THEN "free" ELSE "play"
        /\ UNCHANGED <<hasStartedPlayback, content, drop, pendingSilence, audioSyncMs,
                       silenceCut, track>>
    BY <1>10 DEF ConsumeDrop, ConsumeTo
  <2>2. Zeros' = Zeros /\ Heard' = Heard
    BY <2>1 DEF Zeros, Heard
  <2> QED BY <1>0, <2>1, <2>2 DEF OffsetInv
<1>11. CASE PlayBegin
  <2>1. /\ player = "play" /\ player' = "writing" /\ flushes = 0 /\ ~isStopped
        /\ UNCHANGED <<drop, dropped, audioSyncMs, pendingDrop>>
    BY <1>11 DEF PlayBegin
  <2>2. CASE hasStartedPlayback
    <3>1. UNCHANGED <<hasStartedPlayback, content, pendingSilence, silenceCut, track>>
      BY <1>11, <2>2, SilenceFirst
    <3>2. Zeros' = Zeros /\ Heard' = Heard
      BY <3>1 DEF Zeros, Heard
    <3> QED BY <2>1, <2>2, <3>1, <3>2 DEF OffsetInv
  <2>3. CASE ~hasStartedPlayback
    <3>1. PICK n \in Nat :
            /\ n <= pendingSilence /\ silenceCut' = (silenceCut \/ n < pendingSilence)
            /\ content' = content \o [i \in 1 .. n |-> 0]
            /\ pendingSilence' = pendingSilence - n
      BY <1>11, <2>3, SilenceFirst, Zenon
    <3>2. /\ hasStartedPlayback' = TRUE /\ track' = "playing"
          /\ pendingSilence' = pendingSilence - n
          /\ silenceCut' \/ pendingSilence' = 0
      <4>1. hasStartedPlayback' = TRUE /\ track' = "playing"
        BY <1>11, <2>3, SilenceFirst, Zenon
      <4>2. CASE n < pendingSilence
        BY <3>1, <4>1, <4>2, Zenon
      <4>3. CASE n = pendingSilence
        BY <1>0, <3>1, <4>1, <4>3
      <4>4. n < pendingSilence \/ n = pendingSilence
        <5>1. n <= pendingSilence /\ n \in Nat /\ pendingSilence \in Nat
          BY <1>0, <3>1
        <5> QED BY <5>1
      <4> QED BY <4>2, <4>3, <4>4, Zenon
    <3>3. content = <<>> /\ Cardinality(Zeros) = 0
      <4>1. content = <<>>
        BY <2>1, <2>3 DEF OffsetInv
      <4>2. Zeros = {}
        BY <4>1 DEF Zeros
      <4> QED BY <4>1, <4>2, FS_EmptySet
    <3>4. Zeros' = 1 .. n /\ ~Heard'
      BY <3>1, <3>3 DEF Zeros, Heard
    <3>5. IsFiniteSet(1 .. n) /\ Cardinality(1 .. n) = n
      BY FS_Interval
    <3> QED BY <1>0, <2>1, <2>3, <3>2, <3>3, <3>4, <3>5 DEF OffsetInv
  <2> QED BY <2>2, <2>3
<1>12. CASE Write
  <2>1. /\ player = "writing" /\ player' = "free" /\ flushes = 0 /\ ~isStopped
        /\ content' = Append(content, playing)
        /\ UNCHANGED <<hasStartedPlayback, drop, dropped, audioSyncMs, pendingSilence,
                       pendingDrop, silenceCut, track>>
    BY <1>12 DEF Write, PlayTo
  <2>2. playing # 0 /\ playing \in IsAdded
    BY <2>1 DEF StateInv, OwnInv, InPlay
  <2>3. /\ DOMAIN content' = DOMAIN content \cup {Len(content) + 1}
        /\ content'[Len(content) + 1] = playing
        /\ \A i \in DOMAIN content : content'[i] = content[i]
    BY <1>0, <2>1, <2>2, AppendFacts
  <2>4. Zeros' = Zeros
    BY <2>2, <2>3 DEF Zeros
  <2> QED BY <1>0, <2>1, <2>4 DEF OffsetInv
<1>13. CASE UNCHANGED vars
  <2>1. flushes = 0 /\ ~isStopped /\ Aside
    BY <1>13 DEF vars, Aside
  <2> QED BY <2>1, AsideKeeps
<1>14. ASSUME NEW t \in Adders, flushPlayback(t) PROVE FALSE
  BY <1>2, <1>14 DEF flushPlayback
<1>15. CASE setAudioSyncMs
  BY <1>2, <1>15 DEF setAudioSyncMs
<1> QED BY <1>1, <1>3, <1>4, <1>5, <1>6, <1>7, <1>8, <1>9, <1>10, <1>11, <1>12, <1>13,
           <1>14, <1>15, AsideKeeps
        DEF Next, Flush, Stop, PlayerThread

-----------------------------------------------------------------------------
AudioInv == StateInv /\ OwnInv /\ HeardInv /\ OffsetInv

LEMMA InitHolds ==
  ASSUME Init
  PROVE  AudioInv
<1> USE BoundsAssumption DEF Init, Callers
<1>1. IsAdded = {} /\ InQueue = {} /\ InHand = {}
  BY DEF IsAdded, InQueue, InHand
<1>2. StateInv
  <2>1. pendingSilence \in Nat /\ pendingDrop \in Int /\ drop \in 0 .. PacketSize
    OBVIOUS
  <2>2. /\ caller \in [Callers -> {"idle", "drain", "flush"} \cup Adding \cup Stopping]
        /\ \A t \in Callers : caller[t] = "idle" /\ packet[t] = 0
    OBVIOUS
  <2>3. Len(packets) <= MaxBuffered /\ flushes \in Nat /\ dropped \in Nat
    OBVIOUS
  <2> QED BY <1>1, <2>1, <2>2, <2>3 DEF StateInv, Stopping, Adding, InPlay
<1>3. OwnInv
  BY <1>1 DEF OwnInv, Distinct, Ordered
<1>4. HeardInv
  BY DEF HeardInv, HeardInOrder
<1>5. Zeros = {} /\ ~Heard
  BY DEF Zeros, Heard
<1>6. OffsetInv
  BY <1>5, FS_EmptySet DEF OffsetInv
<1> QED BY <1>2, <1>3, <1>4, <1>6 DEF AudioInv

LEMMA AudioInvariant == Spec => []AudioInv
<1>1. AudioInv /\ [Next]_vars => AudioInv'
  BY StateStep, OwnStep, HeardStep, OffsetStep DEF AudioInv
<1> QED BY InitHolds, <1>1, PTL DEF Spec

(* The queue holds as many packets as it is long.                           *)
LEMMA QueueSize ==
  ASSUME OwnInv
  PROVE  Cardinality(InQueue) = Len(packets)
<1> DEFINE f == [i \in 1 .. Len(packets) |-> packets[i]]
<1>1. packets \in Seq(IsAdded) /\ Distinct(packets) /\ Len(packets) \in Nat
      /\ DOMAIN packets = 1 .. Len(packets)
  BY DEF OwnInv
<1>2. f \in Bijection(1 .. Len(packets), InQueue)
  <2>1. f \in Injection(1 .. Len(packets), InQueue)
    BY <1>1 DEF Injection, IsInjective, InQueue, Distinct
  <2>2. f \in Surjection(1 .. Len(packets), InQueue)
    BY <1>1 DEF Surjection, InQueue
  <2> QED BY <2>1, <2>2 DEF Bijection
<1>3. IsFiniteSet(1 .. Len(packets)) /\ Cardinality(1 .. Len(packets)) = Len(packets)
  BY <1>1, FS_Interval
<1>4. ExistsBijection(1 .. Len(packets), InQueue)
  BY <1>2 DEF ExistsBijection
<1> QED BY <1>3, <1>4, FS_Bijection

(* Every packet waits, is in the hands of one thread, or its memory is free *)
(* and never two of them, whatever the adding threads, the flushes and the  *)
(* stop do to the queue and the player (AudioPlayer.kt:49-62, 107-162).     *)
THEOREM PacketsOwned == Spec => []AudioOwned
<1>1. AudioInv => AudioOwned
  <2> SUFFICES ASSUME AudioInv PROVE AudioOwned
    OBVIOUS
  <2>1. AudioTypeOK
    BY DEF AudioInv, StateInv, OwnInv, AudioTypeOK, InPlay
  <2> QED BY <2>1, QueueSize DEF AudioInv, OwnInv, AudioOwned
<1> QED BY AudioInvariant, <1>1, PTL

(* What one thread added is heard in its order and once, across trims,      *)
(* flushes and failed writes (AudioPlayer.kt:49-136, 204-241).              *)
THEOREM InOrderHeard == Spec => []HeardInOrder
<1>1. AudioInv => HeardInOrder
  BY DEF AudioInv, HeardInv
<1> QED BY AudioInvariant, <1>1, PTL

(* Until a flush, the silence written less the PCM dropped is the offset    *)
(* whenever a packet is heard, unless a write of the silence failed; a      *)
(* packet that the track did not take changes nothing                       *)
(* (AudioPlayer.kt:204-286).                                                *)
THEOREM OffsetOfStart == Spec => []OffsetAtStart
<1>1. AudioInv => OffsetAtStart
  <2> SUFFICES ASSUME AudioInv, flushes = 0, ~silenceCut, ~isStopped, Heard
               PROVE  Cardinality(Zeros) - dropped = audioSyncMs
    BY DEF OffsetAtStart, OffsetApplied, Heard, Zeros
  <2>1. content # <<>>
    BY DEF Heard
  <2>2. pendingSilence = 0 /\ pendingDrop = 0
    BY <2>1 DEF AudioInv, OffsetInv, StateInv
  <2>3. dropped \in Nat /\ audioSyncMs \in Int /\ Cardinality(Zeros) \in Nat
    BY BoundsAssumption, FS_CardinalityType DEF AudioInv, StateInv, OffsetInv
  <2> QED BY <2>2, <2>3 DEF AudioInv, OffsetInv
<1> QED BY AudioInvariant, <1>1, PTL
==============================================================================
