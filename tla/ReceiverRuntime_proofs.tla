----------------------- MODULE ReceiverRuntime_proofs ------------------------
(***************************************************************************)
(* Proofs about the receiver's runtime and what reports to it.             *)
(* ReceiverRuntime: a screen that shows media has its history record, and  *)
(* the state follows the media server until a thread speaks too late.      *)
(* DlnaRenderer: no MediaPlayer is forgotten but one whose preparation     *)
(* threw, an ExoPlayer is released once, and no retry passes its check for *)
(* a player that was let go.  AdaptiveQuality: the profile moves on        *)
(* unanimous readings, and then only by one step.                          *)
(***************************************************************************)
EXTENDS ReceiverRuntime, DlnaRenderer, AdaptiveQuality, FiniteSetTheorems,
        SequenceTheorems, TLAPS

(***************************************************************************)
(* The runtime (ReceiverRuntime)                                           *)
(***************************************************************************)
UpStates == ActiveStates \cup EndStates \cup {"PAIRING"}
Receivers == [state : States, pin : BOOLEAN, history : {"none", "audio", "video"}]
Raops == [surface : BOOLEAN, video : BOOLEAN, audio : BOOLEAN, player : BOOLEAN,
          started : BOOLEAN, pending : BOOLEAN, outlived : BOOLEAN,
          earlier : BOOLEAN, late : BOOLEAN]

(* What the counters are, and that who sends has a number. *)
CountersOK ==
    /\ plays \in Nat /\ restarts \in 0 .. MaxRestarts
    /\ sessions \in 0 .. MaxSessions /\ sender \in 0 .. sessions
    /\ accepted \in [timer : Nat, sender : Nat] /\ audioFirst \in BOOLEAN
    /\ live # {} \/ Session \/ raop.pending => sender >= 1

NoDlna(q) == \A i \in 1 .. Len(q) : q[i].kind # "dlna"

(* A player has its surface and, unless a thread came late, what it plays;  *)
(* who is about to miss the surface is overtaken by whoever attaches it.    *)
MediaInv ==
    /\ raop.player => raop.surface
    /\ ~raop.late => (raop.player => raop.video) /\ (raop.started => raop.player)
    /\ mirror = "WAITING_FOR_SURFACE" /\ raop.video /\ raop.surface => raop.player
    /\ raop.earlier => restarts # 0

(* A receiver that is not up has been left alone, and DLNA is heard of only *)
(* after a playback.                                                        *)
PartsInv ==
    /\ receiver.state \in UpStates \cup {"STOPPED"}
    /\ ~Up => /\ posted = <<>> /\ timers = <<>> /\ live = {} /\ ~audioFirst /\ dlna = "none"
              /\ mirror = "none" /\ ~raop.outlived /\ ~raop.earlier
              /\ ~raop.video /\ ~raop.audio /\ ~raop.pending /\ ~raop.player
    /\ plays = 0 => /\ ~dlnaPlaybackActive /\ dlna = "none"
                    /\ NoDlna(posted)

HistoryKept(r) == r.state \in ActiveStates => r.history # "none"

(* The state after a message: what transitionTo makes of it. *)
MovesTo(s, new) == IF isValidTransition(s, new) THEN new ELSE s
After(s, m) ==
    IF m.kind = "raop" THEN MovesTo(s, m.state)
    ELSE IF m.kind = "timer" /\ s = "PAIRING" THEN m.next ELSE s

(* From s the messages of q lead into the states of A: F holds what is      *)
(* possible before each message.                                           *)
Settles(q, s, A) ==
    \E F \in [1 .. Len(q) + 1 -> SUBSET States] :
        /\ s \in F[1]
        /\ \A i \in 1 .. Len(q) : \A x \in F[i] : After(x, q[i]) \in F[i + 1]
        /\ F[Len(q) + 1] \subseteq A

(* The states that say what the media server is doing, and those it may be *)
(* in before the first packet of video has been spoken of.                 *)
Expected ==
    IF raop.video /\ mirror = "VIDEO_REQUESTED"
      THEN {"AUDIO_ACTIVE"} \cup
             (IF raop.started THEN {"VIDEO_ACTIVE"}
              ELSE IF raop.player THEN {"VIDEO_STARTING"}
              ELSE IF raop.surface THEN {"IDLE_ADVERTISING"}
              ELSE {"IDLE_ADVERTISING", "WAITING_FOR_SURFACE"})
    ELSE IF raop.video
      THEN IF raop.started THEN {"VIDEO_ACTIVE"}
           ELSE IF raop.player THEN {"VIDEO_STARTING"}
           ELSE IF raop.surface THEN {"VIDEO_REQUESTED"}
           ELSE {"VIDEO_REQUESTED", "WAITING_FOR_SURFACE"}
      ELSE IF raop.audio /\ ~audioFirst THEN {"AUDIO_ACTIVE"}
      ELSE {"IDLE_ADVERTISING", "AUDIO_ACTIVE"}

SettleInv == Up /\ AirPlayOnly /\ ~raop.late => Settles(posted, receiver.state, Expected)

BaseInv == RuntimeTypeOK /\ CountersOK /\ MediaInv /\ PartsInv /\ HistoryKept(receiver)
RuntimeInv == BaseInv /\ SettleInv

(* transitionTo keeps what a receiver is and its record. *)
LEMMA Transition ==
  ASSUME NEW r \in Receivers, NEW new \in States
  PROVE  /\ transitionTo(r, new) \in Receivers
         /\ transitionTo(r, new).state = MovesTo(r.state, new)
         /\ HistoryKept(r) => HistoryKept(transitionTo(r, new))
  <1> DEFINE h == Recorded(r.state, new, r.history)
  <1>1. h \in {"none", "audio", "video"}
    BY DEF Recorded, Receivers
  <1>2. r.history # "none" /\ new \in ActiveStates => h # "none"
    BY DEF Recorded, ActiveStates
  <1>3. r.state \notin ActiveStates /\ new \in ActiveStates => h # "none"
    BY DEF Recorded, ActiveStates
  <1>4. CASE new = r.state \/ ~isValidTransition(r.state, new)
    BY <1>4 DEF transitionTo, Moved, MovesTo
  <1>5. CASE ~(new = r.state \/ ~isValidTransition(r.state, new))
    <2>1. transitionTo(r, new) = [state |-> new,
                                  pin |-> r.pin /\ new \notin EndStates \cup {"STOPPED"},
                                  history |-> h]
      BY <1>5 DEF transitionTo, Moved
    <2> HIDE DEF h
    <2>2. transitionTo(r, new) \in Receivers /\ transitionTo(r, new).state = new
      BY <2>1, <1>1 DEF Receivers
    <2>3. HistoryKept(r) => HistoryKept(transitionTo(r, new))
      BY <2>1, <1>2, <1>3 DEF HistoryKept
    <2> QED BY <2>2, <2>3, <1>5 DEF MovesTo
  <1> QED BY <1>4, <1>5

(* The moves the media server asks for. *)
LEMMA MediaMoves ==
    /\ \A x \in {"IDLE_ADVERTISING", "AUDIO_ACTIVE"} :
         /\ MovesTo(x, "AUDIO_ACTIVE") = "AUDIO_ACTIVE"
         /\ MovesTo(x, "VIDEO_REQUESTED") = "VIDEO_REQUESTED"
    /\ \A x \in {"VIDEO_REQUESTED", "WAITING_FOR_SURFACE", "VIDEO_STARTING", "VIDEO_ACTIVE"} :
         /\ MovesTo(x, "AUDIO_ACTIVE") = x
         /\ MovesTo(x, "WAITING_FOR_SURFACE") = "WAITING_FOR_SURFACE"
         /\ MovesTo(MovesTo(x, "VIDEO_STALLED"), "WAITING_FOR_SURFACE") = "WAITING_FOR_SURFACE"
         /\ MovesTo(MovesTo(x, "VIDEO_STALLED"), "VIDEO_STARTING") = "VIDEO_STARTING"
    /\ \A x \in {"VIDEO_REQUESTED", "WAITING_FOR_SURFACE"} :
         MovesTo(x, "VIDEO_STARTING") = "VIDEO_STARTING"
    /\ MovesTo("VIDEO_STARTING", "VIDEO_ACTIVE") = "VIDEO_ACTIVE"
    /\ \A x \in UpStates : MovesTo(x, "STOPPING_SESSION") = "STOPPING_SESSION"
    /\ MovesTo("STOPPING_SESSION", "IDLE_ADVERTISING") = "IDLE_ADVERTISING"
    /\ \A x \in BeginStates : MovesTo("PAIRING", x) = x
  BY DEF MovesTo, isValidTransition, BeginStates, EndStates, UpStates, ActiveStates

(* The moves from where no video has been spoken of. *)
LEMMA EarlyMoves ==
    /\ \A s \in {"AUDIO_ACTIVE", "VIDEO_STARTING", "VIDEO_ACTIVE", "VIDEO_STALLED",
                 "WAITING_FOR_SURFACE"} : MovesTo("AUDIO_ACTIVE", s) = "AUDIO_ACTIVE"
    /\ \A s \in {"VIDEO_STARTING", "WAITING_FOR_SURFACE"} : MovesTo("IDLE_ADVERTISING", s) = s
    /\ MovesTo("IDLE_ADVERTISING", "VIDEO_STALLED") = "IDLE_ADVERTISING"
    /\ MovesTo("WAITING_FOR_SURFACE", "VIDEO_REQUESTED") = "WAITING_FOR_SURFACE"
  BY DEF MovesTo, isValidTransition, BeginStates, EndStates, ActiveStates

LEMMA StartMoves ==
    MovesTo("STOPPED", "STARTING") = "STARTING"
      /\ MovesTo("STARTING", "IDLE_ADVERTISING") = "IDLE_ADVERTISING"
      /\ \A s \in States : MovesTo(s, "STOPPED") = "STOPPED"
  BY DEF MovesTo, isValidTransition, BeginStates

(***************************************************************************)
(* Messages and where they lead                                            *)
(***************************************************************************)
LEMMA MessageKinds ==
    /\ \A s \in ActiveStates \cup EndStates : State(s) \in Messages
    /\ \A a, p \in BOOLEAN : Dlna(a, p) \in Messages
    /\ restarts \in 0 .. MaxRestarts => Ended \in Messages
    /\ Timers \subseteq Messages
    /\ \A m \in Messages :
         /\ m.kind = "raop" => m.state \in ActiveStates \cup EndStates
         /\ m.kind = "timer" => m \in Timers /\ m.next \in BeginStates /\ m.for \in 1 .. MaxSessions
         /\ m.kind = "dlna" => m.active \in BOOLEAN /\ m.playing \in BOOLEAN
         /\ m.kind \in {"raop", "timer", "dlna", "ended"}
  <1>1. \A s \in ActiveStates \cup EndStates : State(s) \in Messages
    BY DEF Messages
  <1>2. \A a, p \in BOOLEAN : Dlna(a, p) \in Messages
    BY DEF Messages
  <1>3. restarts \in 0 .. MaxRestarts => Ended \in Messages
    BY DEF Messages, Ended
  <1>4. Timers \subseteq Messages
    BY DEF Messages
  <1>5. ASSUME NEW m \in Messages
        PROVE  /\ m.kind = "raop" => m.state \in ActiveStates \cup EndStates
               /\ m.kind = "timer" => m \in Timers /\ m.next \in BeginStates
                                         /\ m.for \in 1 .. MaxSessions
               /\ m.kind = "dlna" => m.active \in BOOLEAN /\ m.playing \in BOOLEAN
               /\ m.kind \in {"raop", "timer", "dlna", "ended"}
    <2>1. CASE \E s \in ActiveStates \cup EndStates : m = State(s)
      BY <2>1 DEF State
    <2>2. CASE \E a, p \in BOOLEAN : m = Dlna(a, p)
      BY <2>2 DEF Dlna
    <2>3. CASE m \in [kind : {"ended"}, server : 0 .. MaxRestarts]
      BY <2>3
    <2>4. CASE m \in Timers
      BY <2>4 DEF Timers, Timer
    <2> QED BY <2>1, <2>2, <2>3, <2>4 DEF Messages
  <1> QED BY <1>1, <1>2, <1>3, <1>4, <1>5

LEMMA AfterUp ==
  ASSUME NEW m \in Messages, NEW s \in UpStates
  PROVE  After(s, m) \in UpStates
  BY MessageKinds DEF After, MovesTo, UpStates, BeginStates, ActiveStates

LEMMA UpAreStates == UpStates \subseteq States /\ UpStates \subseteq States \ {"STOPPED"}
  BY DEF UpStates, States, EndStates, ActiveStates

LEMMA SettlesWithin ==
  ASSUME NEW q, NEW s, NEW A, NEW B, Settles(q, s, A), A \subseteq B
  PROVE  Settles(q, s, B)
  BY DEF Settles

LEMMA SettlesPost ==
  ASSUME NEW q \in Seq(Messages), NEW m \in Messages, NEW s, NEW A, NEW B \in SUBSET States,
         Settles(q, s, A), \A x \in A : After(x, m) \in B
  PROVE  Settles(Append(q, m), s, B)
  <1> DEFINE n == Len(q)
  <1>1. n \in Nat /\ Len(Append(q, m)) = n + 1
    BY AppendProperties, LenProperties
  <1>2. \A i \in 1 .. n : Append(q, m)[i] = q[i]
    BY AppendProperties
  <1>3. Append(q, m)[n + 1] = m
    BY AppendProperties
  <1>4. PICK F \in [1 .. n + 1 -> SUBSET States] :
          /\ s \in F[1]
          /\ \A i \in 1 .. n : \A x \in F[i] : After(x, q[i]) \in F[i + 1]
          /\ F[n + 1] \subseteq A
    BY DEF Settles
  <1> DEFINE G == [i \in 1 .. n + 2 |-> IF i <= n + 1 THEN F[i] ELSE B]
             p == Append(q, m)
  <1> HIDE DEF n, p
  <1>5. G \in [1 .. n + 2 -> SUBSET States]
    BY <1>1
  <1>6. s \in G[1]
    BY <1>1, <1>4
  <1>7. ASSUME NEW i \in 1 .. n + 1, NEW x \in G[i]
        PROVE  After(x, p[i]) \in G[i + 1]
    <2>1. CASE i \in 1 .. n
      BY <2>1, <1>1, <1>2, <1>4, <1>7 DEF p
    <2>2. CASE i = n + 1
      <3>1. x \in A /\ p[i] = m /\ G[i + 1] = B
        BY <2>2, <1>1, <1>3, <1>4, <1>7 DEF p
      <3> QED BY <3>1
    <2> QED BY <2>1, <2>2, <1>1
  <1>8. G[n + 2] = B
    BY <1>1
  <1>9. Len(p) = n + 1 /\ Len(p) + 1 = n + 2
    BY <1>1 DEF p
  <1> HIDE DEF G
  <1>10. Settles(p, s, B)
    BY <1>5, <1>6, <1>7, <1>8, <1>9 DEF Settles
  <1> QED BY <1>10 DEF p

LEMMA SettlesHandled ==
  ASSUME NEW q \in Seq(Messages), q # <<>>, NEW s, NEW A, Settles(q, s, A)
  PROVE  Settles(Tail(q), After(s, Head(q)), A)
  <1> DEFINE n == Len(q) p == Tail(q)
  <1>1. n \in Nat /\ n >= 1 /\ Len(p) = n - 1 /\ Head(q) = q[1]
    BY EmptySeq, HeadTailProperties, LenProperties
  <1>2. \A i \in 1 .. n - 1 : p[i] = q[i + 1]
    BY <1>1, HeadTailProperties
  <1>3. PICK F \in [1 .. n + 1 -> SUBSET States] :
          /\ s \in F[1]
          /\ \A i \in 1 .. n : \A x \in F[i] : After(x, q[i]) \in F[i + 1]
          /\ F[n + 1] \subseteq A
    BY DEF Settles
  <1> HIDE DEF n, p
  <1> DEFINE G == [i \in 1 .. n |-> F[i + 1]]
  <1>4. G \in [1 .. Len(p) + 1 -> SUBSET States]
    BY <1>1
  <1>5. After(s, Head(q)) \in G[1]
    BY <1>1, <1>3
  <1>6. ASSUME NEW i \in 1 .. Len(p), NEW x \in G[i]
        PROVE  After(x, p[i]) \in G[i + 1]
    BY <1>1, <1>2, <1>3, <1>6
  <1>7. G[Len(p) + 1] \subseteq A
    BY <1>1, <1>3
  <1> HIDE DEF G
  <1>8. Settles(p, After(s, Head(q)), A)
    BY <1>4, <1>5, <1>6, <1>7 DEF Settles
  <1> QED BY <1>8 DEF p

(* Whatever is posted, the two states of an end lead to the ready screen. *)
LEMMA SettlesStopped ==
  ASSUME NEW q \in Seq(Messages), NEW s \in UpStates
  PROVE  Settles(q \o StopPosts, s, {"IDLE_ADVERTISING"})
  <1> DEFINE F == [i \in 1 .. Len(q) + 1 |-> UpStates]
             a == State("STOPPING_SESSION")
             b == State("IDLE_ADVERTISING")
  <1>1. Len(q) \in Nat /\ \A i \in 1 .. Len(q) : q[i] \in Messages
    BY ElementOfSeq, LenProperties
  <1>2. F \in [1 .. Len(q) + 1 -> SUBSET States]
    BY UpAreStates
  <1>3. s \in F[1] /\ F[Len(q) + 1] \subseteq UpStates
    BY <1>1
  <1>4. \A i \in 1 .. Len(q) : \A x \in F[i] : After(x, q[i]) \in F[i + 1]
    BY <1>1, AfterUp
  <1> HIDE DEF F
  <1>5. Settles(q, s, UpStates)
    BY <1>2, <1>3, <1>4 DEF Settles
  <1>6. a \in Messages /\ b \in Messages
    BY MessageKinds DEF EndStates
  <1>7. \A x \in UpStates : After(x, a) \in {"STOPPING_SESSION"}
    BY MediaMoves DEF After, State
  <1>8. \A x \in {"STOPPING_SESSION"} : After(x, b) \in {"IDLE_ADVERTISING"}
    BY MediaMoves DEF After, State
  <1>9. {"STOPPING_SESSION"} \in SUBSET States /\ {"IDLE_ADVERTISING"} \in SUBSET States
    BY DEF States
  <1>10. Append(q, a) \in Seq(Messages)
    BY <1>6, AppendProperties
  <1>11. q \o StopPosts = Append(Append(q, a), b)
    BY <1>6 DEF StopPosts
  <1> HIDE DEF a, b
  <1>12. Settles(Append(q, a), s, {"STOPPING_SESSION"})
    BY <1>5, <1>6, <1>7, <1>9, SettlesPost
  <1>13. Settles(Append(Append(q, a), b), s, {"IDLE_ADVERTISING"})
    BY <1>6, <1>8, <1>9, <1>10, <1>12, SettlesPost
  <1> QED BY <1>11, <1>13

LEMMA SettledNow ==
  ASSUME NEW s, NEW A, Settles(<<>>, s, A)
  PROVE  s \in A
  <1>1. Len(<<>>) = 0
    OBVIOUS
  <1> QED BY <1>1 DEF Settles

LEMMA Posting ==
  ASSUME NEW q \in Seq(Messages), NEW p \in Seq(Messages)
  PROVE  q \o p \in Seq(Messages) /\ (NoDlna(q) /\ NoDlna(p) => NoDlna(q \o p))
  <1>1. /\ q \o p \in Seq(Messages)
        /\ Len(q) \in Nat /\ Len(p) \in Nat /\ Len(q \o p) = Len(q) + Len(p)
        /\ \A i \in 1 .. Len(q) + Len(p) :
             (q \o p)[i] = IF i <= Len(q) THEN q[i] ELSE p[i - Len(q)]
    BY ConcatProperties, LenProperties
  <1>2. ASSUME NoDlna(q), NoDlna(p), NEW i \in 1 .. Len(q \o p)
        PROVE  (q \o p)[i].kind # "dlna"
    <2>1. CASE i <= Len(q)
      BY <2>1, <1>1, <1>2 DEF NoDlna
    <2>2. CASE i > Len(q)
      BY <2>2, <1>1, <1>2 DEF NoDlna
    <2> QED BY <2>1, <2>2, <1>1
  <1> QED BY <1>1, <1>2 DEF NoDlna

LEMMA Taking ==
  ASSUME NEW q \in Seq(Messages), q # <<>>
  PROVE  /\ Tail(q) \in Seq(Messages) /\ Head(q) \in Messages
         /\ NoDlna(q) => NoDlna(Tail(q)) /\ Head(q).kind # "dlna"
  <1>1. /\ Tail(q) \in Seq(Messages) /\ Len(q) \in Nat /\ Len(q) >= 1 /\ Len(Tail(q)) = Len(q) - 1
        /\ \A i \in 1 .. Len(Tail(q)) : Tail(q)[i] = q[i + 1]
        /\ Head(q) = q[1] /\ q[1] \in Messages
    BY EmptySeq, HeadTailProperties, LenProperties, ElementOfSeq
  <1> QED BY <1>1 DEF NoDlna

LEMMA StatePosts ==
    /\ \A s \in ActiveStates \cup EndStates :
         <<State(s)>> \in Seq(Messages) /\ NoDlna(<<State(s)>>)
    /\ \A s, t \in ActiveStates \cup EndStates :
         <<State(s), State(t)>> \in Seq(Messages) /\ NoDlna(<<State(s), State(t)>>)
    /\ <<>> \in Seq(Messages) /\ NoDlna(<<>>)
    /\ \A m \in Messages : <<m>> \in Seq(Messages) /\ (m.kind # "dlna" => NoDlna(<<m>>))
    /\ \A m \in Messages :
         <<m, m>> \in Seq(Messages) /\ (m.kind # "dlna" => NoDlna(<<m, m>>))
  <1>1. \A s \in ActiveStates \cup EndStates : State(s) \in Messages /\ State(s).kind # "dlna"
    BY MessageKinds DEF State
  <1>2. ASSUME NEW m \in Messages, NEW n \in Messages
        PROVE  /\ <<m>> \in Seq(Messages) /\ <<m, n>> \in Seq(Messages)
               /\ m.kind # "dlna" => NoDlna(<<m>>)
               /\ m.kind # "dlna" /\ n.kind # "dlna" => NoDlna(<<m, n>>)
    <2>1. <<m>> \in Seq(Messages) /\ <<m, n>> \in Seq(Messages)
      OBVIOUS
    <2>2. Len(<<m>>) = 1 /\ Len(<<m, n>>) = 2
      OBVIOUS
    <2>3. <<m>>[1] = m /\ <<m, n>>[1] = m /\ <<m, n>>[2] = n
      OBVIOUS
    <2>4. \A i \in 1 .. 2 : i = 1 \/ i = 2
      OBVIOUS
    <2>5. \A i \in 1 .. 1 : i = 1
      OBVIOUS
    <2> QED BY <2>1, <2>2, <2>3, <2>4, <2>5 DEF NoDlna
  <1>3. <<>> \in Seq(Messages) /\ NoDlna(<<>>)
    BY DEF NoDlna
  <1> QED BY <1>1, <1>2, <1>3

UpReceiver(r) == r \in Receivers /\ r.state \in UpStates /\ HistoryKept(r)

(* A receiver that is up stays so whatever state is asked for. *)
LEMMA UpReceivers ==
  ASSUME NEW r, UpReceiver(r)
  PROVE  /\ \A new \in UpStates : UpReceiver(transitionTo(r, new))
         /\ \A b \in BOOLEAN : UpReceiver([r EXCEPT !.pin = b])
         /\ \A from \in SUBSET States, new \in UpStates : UpReceiver(MoveIf(from, r, new))
  <1>1. ASSUME NEW new \in UpStates
        PROVE  UpReceiver(transitionTo(r, new))
    BY <1>1, Transition, UpAreStates DEF UpReceiver, MovesTo
  <1>2. ASSUME NEW b \in BOOLEAN
        PROVE  UpReceiver([r EXCEPT !.pin = b])
    BY DEF UpReceiver, Receivers, HistoryKept
  <1> QED BY <1>1, <1>2 DEF MoveIf

LEMMA DlnaMoves ==
  ASSUME UpReceiver(receiver), NEW playing \in BOOLEAN
  PROVE  UpReceiver(DlnaMoved(playing))
  <1> DEFINE one == MoveIf({"IDLE_ADVERTISING", "AUDIO_ACTIVE"}, receiver, "VIDEO_REQUESTED")
             two == MoveIf({"VIDEO_REQUESTED", "WAITING_FOR_SURFACE"}, one, "VIDEO_STARTING")
             from == IF playing THEN {"VIDEO_STARTING"} ELSE {}
  <1>1. {"VIDEO_REQUESTED", "VIDEO_STARTING", "VIDEO_ACTIVE"} \subseteq UpStates
    BY DEF UpStates, ActiveStates
  <1>2. /\ {"IDLE_ADVERTISING", "AUDIO_ACTIVE"} \in SUBSET States
        /\ {"VIDEO_REQUESTED", "WAITING_FOR_SURFACE"} \in SUBSET States
        /\ from \in SUBSET States
    BY DEF States, ActiveStates
  <1> HIDE DEF from
  <1>3. UpReceiver(one)
    BY <1>1, <1>2, UpReceivers
  <1> HIDE DEF one
  <1>4. UpReceiver(two)
    BY <1>1, <1>2, <1>3, UpReceivers
  <1> HIDE DEF two
  <1>5. UpReceiver(MoveIf(from, two, "VIDEO_ACTIVE"))
    BY <1>1, <1>2, <1>4, UpReceivers
  <1> QED BY <1>5 DEF DlnaMoved, one, two, from

LEMMA StartedReceiver ==
  ASSUME NEW r \in Receivers, r.state = "STOPPED"
  PROVE  UpReceiver(Started(r)) /\ Started(r).state = "IDLE_ADVERTISING"
  <1> DEFINE one == transitionTo(r, "STARTING") two == transitionTo(one, "IDLE_ADVERTISING")
  <1>1. {"STARTING", "IDLE_ADVERTISING"} \subseteq States
    BY DEF States
  <1>2. one \in Receivers /\ one.state = "STARTING"
    BY <1>1, Transition, StartMoves
  <1> HIDE DEF one
  <1>3. two \in Receivers /\ two.state = "IDLE_ADVERTISING"
    BY <1>1, <1>2, Transition, StartMoves
  <1>4. "IDLE_ADVERTISING" \in UpStates \ ActiveStates
    BY DEF UpStates, EndStates, ActiveStates
  <1> HIDE DEF two
  <1>5. UpReceiver(two)
    BY <1>3, <1>4 DEF UpReceiver, HistoryKept
  <1> QED BY <1>3, <1>5 DEF Started, one, two

(* The media server's states are messages. *)
LEMMA Posted == {"AUDIO_ACTIVE", "VIDEO_REQUESTED", "WAITING_FOR_SURFACE", "VIDEO_STARTING",
                 "VIDEO_ACTIVE", "VIDEO_STALLED", "IDLE_ADVERTISING", "STOPPING_SESSION"}
                  = ActiveStates \cup EndStates
  BY DEF ActiveStates, EndStates

LEMMA Bounds == MaxSessions \in Nat /\ MaxRestarts \in Nat
  BY RuntimeAssumption

(* What the end of a session posts and leaves behind. *)
LEMMA Stopping ==
  ASSUME NEW q \in Seq(Messages), StopSession(q)
  PROVE  /\ posted' \in Seq(Messages) /\ (NoDlna(q) => NoDlna(posted'))
         /\ \/ raop' = RaopStopped /\ posted' = q \o StopPosts
            \/ raop' = [RaopStopped EXCEPT !.player = TRUE, !.late = TRUE] /\ raop.surface
         /\ mirror' \in {"none", "packet", mirror}
         /\ mirror' = "packet" => mirror = "packet" \/ InPacket
  <1> DEFINE a == <<State("STOPPING_SESSION"), State("VIDEO_STARTING")>>
             b == <<State("IDLE_ADVERTISING")>>
  <1>1. StopPosts \in Seq(Messages) /\ NoDlna(StopPosts)
    BY Posted, StatePosts DEF StopPosts
  <1>2. a \in Seq(Messages) /\ NoDlna(a) /\ b \in Seq(Messages) /\ NoDlna(b)
    BY Posted, StatePosts
  <1>3. <<Head(StopPosts), State("VIDEO_STARTING")>> = a /\ Tail(StopPosts) = b
    BY DEF StopPosts
  <1> HIDE DEF a, b
  <1>4. posted' = q \o StopPosts \/ posted' = (q \o a) \o b
    BY <1>3 DEF StopSession
  <1>5. q \o StopPosts \in Seq(Messages) /\ (NoDlna(q) => NoDlna(q \o StopPosts))
    BY <1>1, Posting
  <1>6. q \o a \in Seq(Messages) /\ (NoDlna(q) => NoDlna(q \o a))
    BY <1>2, Posting
  <1>7. (q \o a) \o b \in Seq(Messages) /\ (NoDlna(q) => NoDlna((q \o a) \o b))
    BY <1>2, <1>6, Posting
  <1>8. posted' \in Seq(Messages) /\ (NoDlna(q) => NoDlna(posted'))
    BY <1>4, <1>5, <1>7
  <1>9. /\ \/ raop' = RaopStopped /\ posted' = q \o StopPosts
           \/ raop' = [RaopStopped EXCEPT !.player = TRUE, !.late = TRUE] /\ raop.surface
        /\ mirror' \in {"none", "packet", mirror}
        /\ mirror' = "packet" => mirror = "packet" \/ InPacket
    BY DEF StopSession
  <1> QED BY <1>8, <1>9

LEMMA RuntimeInitInv == Init => RuntimeInv
  <1> SUFFICES ASSUME Init
               PROVE  RuntimeInv
    OBVIOUS
  <1>1. RuntimeTypeOK
    <2>1. receiver \in [state : States, pin : BOOLEAN, history : {"none", "audio", "video"}]
      BY DEF Init, States
    <2>2. posted \in Seq(Messages) /\ timers \in Seq(Timers)
      BY DEF Init
    <2> QED BY <2>1, <2>2 DEF Init, RuntimeTypeOK
  <1>2. CountersOK
    <2>1. sessions \in 0 .. MaxSessions /\ sender \in 0 .. sessions /\ restarts \in 0 .. MaxRestarts
      BY Bounds DEF Init
    <2>2. ~(live # {} \/ Session \/ raop.pending)
      BY DEF Init, Session
    <2>3. plays \in Nat /\ accepted \in [timer : Nat, sender : Nat] /\ audioFirst \in BOOLEAN
      BY DEF Init
    <2> QED BY <2>1, <2>2, <2>3 DEF CountersOK
  <1>3. PartsInv /\ HistoryKept(receiver)
    BY StatePosts DEF Init, PartsInv, HistoryKept, ActiveStates, Up
  <1>5. MediaInv
    BY DEF Init, MediaInv
  <1>4. SettleInv
    BY DEF Init, SettleInv, Up
  <1> QED BY <1>1, <1>2, <1>3, <1>4, <1>5 DEF RuntimeInv, BaseInv

(* What the media server remembers after a step, and that it was up. *)
LEMMA MediaStep ==
  ASSUME BaseInv, Next
  PROVE  /\ raop' \in Raops /\ MediaInv'
         /\ mirror' \in {"none", "packet", "VIDEO_REQUESTED", "WAITING_FOR_SURFACE"}
         /\ Session' \/ raop'.pending => Session \/ raop.pending \/ live # {} \/ Connect
         /\ Up \/ Start
  <1> DEFINE Mirrored == mirror \in {"none", "packet", "VIDEO_REQUESTED", "WAITING_FOR_SURFACE"}
             Sends == Session \/ raop.pending
             Good == /\ raop' \in Raops /\ MediaInv' /\ Mirrored'
                     /\ Sends' => Sends \/ live # {} \/ Connect
                     /\ Up \/ Start
  <1> SUFFICES Good
    OBVIOUS
  <1>1. raop \in Raops /\ Mirrored /\ MediaInv /\ restarts \in Nat
    BY Bounds DEF BaseInv, RuntimeTypeOK, CountersOK, Raops
  <1>2. ~Up => /\ posted = <<>> /\ timers = <<>> /\ live = {} /\ ~audioFirst /\ dlna = "none"
               /\ mirror = "none" /\ ~raop.outlived /\ ~raop.earlier
               /\ ~raop.video /\ ~raop.player
    BY DEF BaseInv, PartsInv
  (* A step that leaves the media server alone. *)
  <1>3. ASSUME raop' = raop, mirror' = mirror, restarts' = restarts, Up \/ Start
        PROVE  Good
    BY <1>1, <1>3 DEF MediaInv, Session
  <1>4. ASSUME NEW r, raop' = r, r \in Raops, r.player => r.surface, mirror' = mirror,
               r.video = raop.video, r.audio => raop.audio, r.pending => raop.pending,
               ~r.late => (r.player => r.video) /\ (r.started => r.player),
               mirror = "WAITING_FOR_SURFACE" /\ r.video /\ r.surface => r.player,
               r.earlier => raop.earlier, restarts' = restarts, Up
        PROVE  Good
    BY <1>1, <1>4 DEF MediaInv, Session
  <1> HIDE DEF Mirrored, Sends, Good
  <1>5. CASE Connect
    <2>1. PICK pin \in Pins : raop' = [raop EXCEPT !.pending = @ \/ pin]
      BY <1>5 DEF Connect
    <2> DEFINE b == raop.pending \/ pin
    <2>2. b \in BOOLEAN /\ raop' = [raop EXCEPT !.pending = b]
      BY <2>1
    <2> HIDE DEF b
    <2>3. mirror' = mirror /\ restarts' = restarts /\ Up
      BY <1>5 DEF Connect, runtimeVars
    <2> QED BY <2>2, <2>3, <1>1, <1>5 DEF Good, MediaInv, Raops, Mirrored
  <1>6. CASE FirstAudio
    <2>1. raop' = [raop EXCEPT !.audio = TRUE] /\ live # {} /\ mirror' = mirror /\ restarts' = restarts
      BY <1>6 DEF FirstAudio, runtimeVars
    <2> QED BY <2>1, <1>1, <1>2 DEF Good, MediaInv, Raops, Mirrored
  <1>7. CASE FirstVideo
    <2>1. /\ raop' = [raop EXCEPT !.video = TRUE] /\ live # {} /\ mirror' = "VIDEO_REQUESTED"
          /\ restarts' = restarts
      BY <1>7 DEF FirstVideo, Mirrors, runtimeVars
    <2> QED BY <2>1, <1>1, <1>2 DEF Good, MediaInv, Raops, Mirrored
  <1>8. CASE RouteVideo
    <2> DEFINE b == raop.late \/ ~raop.video
    <2>1. /\ mirror' = IF raop.surface THEN "none" ELSE "WAITING_FOR_SURFACE"
          /\ mirror # "none" \/ live # {}
          /\ raop' = raop \/ (raop.surface /\ raop' = [raop EXCEPT !.player = TRUE, !.late = b])
          /\ restarts' = restarts
      BY <1>8 DEF RouteVideo, Mirrors, InPacket, runtimeVars
    <2>2. b \in BOOLEAN /\ (~b => ~raop.late /\ raop.video)
      OBVIOUS
    <2> HIDE DEF b
    <2>3. CASE raop' = raop
      BY <2>1, <2>3, <1>1, <1>2 DEF Good, MediaInv, Mirrored, Sends, Session
    <2>4. CASE raop.surface /\ raop' = [raop EXCEPT !.player = TRUE, !.late = b]
      <3>1. /\ raop' \in Raops /\ raop'.player /\ raop'.surface /\ raop'.video = raop.video
            /\ raop'.late = b /\ raop'.started = raop.started /\ raop'.earlier = raop.earlier
            /\ raop'.audio = raop.audio /\ raop'.pending = raop.pending
        BY <2>2, <2>4, <1>1 DEF Raops
      <3>2. mirror' = "none" /\ Up
        BY <2>1, <2>4, <1>2
      <3> QED BY <2>1, <2>2, <3>1, <3>2, <1>1 DEF Good, MediaInv, Mirrored, Sends, Session
    <2> QED BY <2>1, <2>3, <2>4
  <1>9. CASE EmitVideo
    <2> DEFINE b == raop.late \/ raop.player \/ ~raop.video
    <2>1. /\ mirror' \in {"packet", "none"} /\ mirror # "none"
          /\ raop' = [raop EXCEPT !.late = b] /\ restarts' = restarts
      BY <1>9 DEF EmitVideo, Mirrors, runtimeVars
    <2>2. b \in BOOLEAN /\ (~b => ~raop.late)
      OBVIOUS
    <2> HIDE DEF b
    <2>3. /\ raop' \in Raops /\ raop'.player = raop.player /\ raop'.surface = raop.surface
          /\ raop'.video = raop.video /\ raop'.audio = raop.audio /\ raop'.late = b
          /\ raop'.started = raop.started /\ raop'.earlier = raop.earlier
          /\ raop'.pending = raop.pending
      BY <2>1, <2>2, <1>1 DEF Raops
    <2> QED BY <2>1, <2>2, <2>3, <1>1, <1>2 DEF Good, MediaInv, Mirrored, Sends, Session
  <1>10. CASE Rendered
    <2>1. raop' = [raop EXCEPT !.started = TRUE] /\ raop.player /\ mirror' = mirror /\ restarts' = restarts
      BY <1>10 DEF Rendered, nativeVars, runtimeVars
    <2>2. /\ raop' \in Raops /\ raop'.surface = raop.surface /\ raop'.video = raop.video
          /\ raop'.audio = raop.audio /\ raop'.player = raop.player /\ raop'.started
          /\ raop'.pending = raop.pending /\ raop'.earlier = raop.earlier
          /\ raop'.late = raop.late
      BY <2>1, <1>1 DEF Raops
    <2> QED BY <2>1, <2>2, <1>1, <1>2, <1>4 DEF MediaInv
  <1>11. CASE OutlivedRendered
    <2>1. PICK b \in {raop.started, TRUE} : raop' = [raop EXCEPT !.started = b, !.late = TRUE]
      BY <1>11 DEF OutlivedRendered
    <2>2. b \in BOOLEAN /\ raop.outlived /\ mirror' = mirror /\ restarts' = restarts
      BY <1>11, <1>1 DEF OutlivedRendered, nativeVars, runtimeVars, Raops
    <2>3. /\ raop' \in Raops /\ raop'.surface = raop.surface /\ raop'.video = raop.video
          /\ raop'.audio = raop.audio /\ raop'.player = raop.player /\ raop'.started = b
          /\ raop'.pending = raop.pending /\ raop'.earlier = raop.earlier /\ raop'.late
      BY <2>1, <2>2, <1>1 DEF Raops
    <2> QED BY <2>2, <2>3, <1>1, <1>2, <1>4 DEF MediaInv
  <1>12. CASE EarlierRendered
    <2>1. raop' = [raop EXCEPT !.earlier = FALSE] /\ raop.earlier /\ mirror' = mirror /\ restarts' = restarts
      BY <1>12 DEF EarlierRendered, nativeVars, runtimeVars
    <2>2. /\ raop' \in Raops /\ raop'.surface = raop.surface /\ raop'.video = raop.video
          /\ raop'.audio = raop.audio /\ raop'.player = raop.player
          /\ raop'.started = raop.started /\ raop'.pending = raop.pending /\ ~raop'.earlier
          /\ raop'.late = raop.late
      BY <2>1, <1>1 DEF Raops
    <2> QED BY <2>1, <2>2, <1>1, <1>2, <1>4 DEF MediaInv
  <1>13. CASE EmitAudio \/ EndVideo \/ TeardownVideo \/ EndAudio \/ DlnaPlay \/ DlnaStarted \/ DlnaEnds
    <2>1. raop' = raop /\ mirror' = mirror /\ restarts' = restarts /\ Up
      BY <1>13, <1>2 DEF EmitAudio, EndVideo, TeardownVideo, EndAudio, DlnaPlay, DlnaStarted,
                         DlnaEnds, nativeVars, runtimeVars
    <2> QED BY <2>1, <1>3
  <1>14. CASE HandleState \/ TimerDue \/ Start
    <2>1. raop' = raop /\ mirror' = mirror /\ restarts' = restarts /\ (Up \/ Start)
      BY <1>14, <1>2 DEF HandleState, TimerDue, Start, nativeVars
    <2> QED BY <2>1, <1>3
  <1>15. CASE HandleTimer
    <2>1. /\ raop' = raop \/ raop' = [raop EXCEPT !.pending = FALSE]
          /\ mirror' = mirror /\ restarts' = restarts /\ Up
      BY <1>15, <1>2 DEF HandleTimer, nativeVars
    <2>2. CASE raop' = [raop EXCEPT !.pending = FALSE]
      <3>1. /\ raop' \in Raops /\ raop'.surface = raop.surface /\ raop'.video = raop.video
            /\ raop'.audio = raop.audio /\ raop'.player = raop.player
            /\ raop'.started = raop.started /\ ~raop'.pending /\ raop'.earlier = raop.earlier
            /\ raop'.late = raop.late
        BY <2>2, <1>1 DEF Raops
      <3> QED BY <2>1, <3>1, <1>1, <1>2, <1>4 DEF MediaInv
    <2> QED BY <2>1, <2>2, <1>3
  (* The surface comes and goes. *)
  <1>16. ASSUME raop' = RaopAttached, mirror' = mirror, restarts' = restarts, Up
         PROVE  Good
    <2> DEFINE b == raop.player \/ raop.video
    <2>1. b \in BOOLEAN /\ raop' = [raop EXCEPT !.surface = TRUE, !.player = b]
      BY <1>16 DEF RaopAttached
    <2>2. (raop.video => b) /\ (raop.player => b) /\ (b => raop.player \/ raop.video)
      OBVIOUS
    <2> HIDE DEF b
    <2>3. /\ raop' \in Raops /\ raop'.player = b /\ raop'.surface /\ raop'.video = raop.video
          /\ raop'.late = raop.late /\ raop'.started = raop.started
          /\ raop'.earlier = raop.earlier /\ raop'.audio = raop.audio
          /\ raop'.pending = raop.pending
      BY <2>1, <1>1 DEF Raops
    <2> QED BY <2>2, <2>3, <1>1, <1>4, <1>16 DEF MediaInv
  <1>17. ASSUME raop' = RaopDetached, mirror' = mirror, restarts' = restarts, Up
         PROVE  Good
    <2> DEFINE b == raop.outlived \/ raop.player
    <2>1. /\ b \in BOOLEAN
          /\ raop' = [raop EXCEPT !.surface = FALSE, !.player = FALSE, !.started = FALSE,
                                  !.outlived = b]
      BY <1>17 DEF RaopDetached
    <2> HIDE DEF b
    <2>3. /\ raop' \in Raops /\ ~raop'.player /\ ~raop'.surface /\ raop'.video = raop.video
          /\ raop'.late = raop.late /\ ~raop'.started
          /\ raop'.earlier = raop.earlier /\ raop'.audio = raop.audio
          /\ raop'.pending = raop.pending
      BY <2>1, <1>1 DEF Raops
    <2> QED BY <2>3, <1>1, <1>4, <1>17 DEF MediaInv
  <1>18. CASE AttachSurface \/ DetachSurface
    BY <1>18, <1>3, <1>16, <1>17 DEF AttachSurface, DetachSurface, nativeVars
  <1>19. CASE HandleDlna
    <2>1. raop' \in {raop, RaopAttached, RaopDetached} /\ mirror' = mirror /\ restarts' = restarts /\ Up
      BY <1>19, <1>2 DEF HandleDlna, nativeVars
    <2> QED BY <2>1, <1>3, <1>16, <1>17
  <1>20. CASE Stall
    <2> DEFINE b == raop.outlived \/ raop.player
    <2>1. /\ b \in BOOLEAN /\ mirror' = mirror /\ restarts' = restarts /\ raop.video
          /\ raop' = [raop EXCEPT !.player = raop.surface, !.started = FALSE, !.outlived = b]
      BY <1>20 DEF Stall, nativeVars, runtimeVars
    <2> HIDE DEF b
    <2>2. /\ raop' \in Raops /\ raop'.player = raop.surface /\ raop'.surface = raop.surface
          /\ raop'.video = raop.video /\ raop'.late = raop.late /\ ~raop'.started
          /\ raop'.earlier = raop.earlier /\ raop'.audio = raop.audio
          /\ raop'.pending = raop.pending
      BY <2>1, <1>1 DEF Raops
    <2> QED BY <2>1, <2>2, <1>1, <1>2, <1>4 DEF MediaInv
  (* A session or the server stops. *)
  <1>21. /\ RaopStopped \in Raops /\ ~RaopStopped.video /\ ~RaopStopped.audio
         /\ ~RaopStopped.player /\ ~RaopStopped.started /\ ~RaopStopped.pending
         /\ RaopStopped.surface = raop.surface /\ RaopStopped.earlier = raop.earlier
    <2> DEFINE b == raop.outlived \/ raop.player
    <2>1. /\ b \in BOOLEAN
          /\ RaopStopped = [raop EXCEPT !.video = FALSE, !.audio = FALSE, !.player = FALSE,
                                        !.started = FALSE, !.pending = FALSE, !.late = FALSE,
                                        !.outlived = b]
      BY DEF RaopStopped
    <2> HIDE DEF b
    <2> QED BY <2>1, <1>1 DEF Raops
  <1>22. ASSUME NEW q \in Seq(Messages), StopSession(q), restarts' = restarts, Up
         PROVE  Good
    <2>1. /\ \/ raop' = RaopStopped
             \/ raop' = [RaopStopped EXCEPT !.player = TRUE, !.late = TRUE] /\ raop.surface
          /\ mirror' \in {"none", "packet", mirror}
      BY <1>22, Stopping
    <2>2. /\ raop' \in Raops /\ ~raop'.video /\ ~raop'.audio /\ ~raop'.pending /\ ~raop'.started
          /\ (raop'.player => raop'.surface /\ raop'.late) /\ raop'.earlier = raop.earlier
      BY <2>1, <1>21 DEF Raops
    <2> QED BY <2>1, <2>2, <1>1, <1>22 DEF Good, MediaInv, Mirrored, Sends, Session
  <1>23. CASE GiveUp
    <2>1. posted \in Seq(Messages) /\ StopSession(posted) /\ restarts' = restarts /\ Up
      BY <1>23, <1>2 DEF GiveUp, runtimeVars, BaseInv, RuntimeTypeOK
    <2> QED BY <2>1, <1>22
  <1>24. CASE handleStreamStopped
    <2>1. Tail(posted) \in Seq(Messages) /\ restarts' = restarts /\ Up
      BY <1>24, <1>2, Taking DEF handleStreamStopped, runtimeVars, BaseInv, RuntimeTypeOK
    <2> QED BY <1>24, <2>1, <1>3, <1>22 DEF handleStreamStopped
  <1>25. CASE Restart
    <2> DEFINE b == attachedSurface /\ ~dlnaPlaybackActive
               c == RaopStopped.outlived
    <2>1. /\ raop' = [RaopStopped EXCEPT !.surface = b, !.outlived = FALSE, !.earlier = c]
          /\ mirror = "none" /\ mirror' = mirror /\ restarts' = restarts + 1 /\ Up
      BY <1>25 DEF Restart
    <2>2. b \in BOOLEAN /\ c \in BOOLEAN
      BY <1>21 DEF Raops
    <2> HIDE DEF b, c
    <2>3. /\ raop' \in Raops /\ ~raop'.video /\ ~raop'.audio /\ ~raop'.pending
          /\ ~raop'.started /\ ~raop'.player
      BY <2>1, <2>2, <1>21 DEF Raops
    <2>4. restarts' # 0
      BY <2>1, <1>1
    <2> QED BY <2>1, <2>3, <2>4, <1>1 DEF Good, MediaInv, Mirrored, Sends, Session
  <1>26. Good
    BY <1>5, <1>6, <1>7, <1>8, <1>9, <1>10, <1>11, <1>12, <1>13, <1>14, <1>15, <1>18, <1>19,
       <1>20, <1>23, <1>24, <1>25 DEF Next, Native, Renderer, Looper
  <1> QED BY <1>26

LEMMA BaseStep == RuntimeInv /\ Next => BaseInv'
  <1> SUFFICES ASSUME BaseInv, Next
               PROVE  BaseInv'
    BY DEF RuntimeInv
  <1> DEFINE Kept == posted' \in Seq(Messages) /\ (NoDlna(posted) => NoDlna(posted'))
             UpKept == UpReceiver(receiver')
             Sends == Session \/ raop.pending
  <1> USE Bounds
  <1>a. Receivers = [state : States, pin : BOOLEAN, history : {"none", "audio", "video"}]
    BY DEF Receivers
  <1>b. Up => UpReceiver(receiver)
    BY <1>a DEF UpReceiver, Up, BaseInv, RuntimeTypeOK, PartsInv
  <1>c. /\ raop' \in Raops /\ MediaInv'
        /\ mirror' \in {"none", "packet", "VIDEO_REQUESTED", "WAITING_FOR_SURFACE"}
        /\ Sends' => Sends \/ live # {} \/ Connect
        /\ Up \/ Start
    BY MediaStep
  <1>d. /\ posted \in Seq(Messages) /\ timers \in Seq(Timers)
        /\ dlnaPlaybackActive \in BOOLEAN /\ attachedSurface \in BOOLEAN
        /\ live \subseteq Streams /\ dlna \in {"none", "loading", "playing"}
        /\ plays \in Nat /\ restarts \in 0 .. MaxRestarts
        /\ sessions \in 0 .. MaxSessions /\ sender \in 0 .. sessions
        /\ accepted \in [timer : Nat, sender : Nat] /\ audioFirst \in BOOLEAN
        /\ live # {} \/ Sends => sender >= 1
        /\ plays = 0 => ~dlnaPlaybackActive /\ dlna = "none" /\ NoDlna(posted)
        /\ receiver \in Receivers
    BY <1>a DEF BaseInv, RuntimeTypeOK, CountersOK, PartsInv
  <1>e. Connect => sender' >= 1
    BY <1>d DEF Connect
  (* What is left to show of a step that keeps the receiver up. *)
  <1>f. ASSUME UpKept, posted' \in Seq(Messages), timers' \in Seq(Timers),
               dlnaPlaybackActive' \in BOOLEAN, attachedSurface' \in BOOLEAN,
               live' \subseteq Streams, dlna' \in {"none", "loading", "playing"},
               plays' \in Nat, restarts' \in 0 .. MaxRestarts,
               sessions' \in 0 .. MaxSessions, sender' \in 0 .. sessions',
               accepted' \in [timer : Nat, sender : Nat], audioFirst' \in BOOLEAN,
               live' # {} \/ Sends' => sender' >= 1,
               plays' = 0 => ~dlnaPlaybackActive' /\ dlna' = "none" /\ NoDlna(posted')
        PROVE  BaseInv'
    <2>1. receiver' \in Receivers /\ receiver'.state \in UpStates /\ HistoryKept(receiver') /\ Up'
      BY <1>f, UpAreStates DEF UpReceiver, Up
    <2>2. RuntimeTypeOK'
      BY <1>a, <1>c, <1>f, <2>1 DEF RuntimeTypeOK, Raops
    <2>3. CountersOK'
      BY <1>f DEF CountersOK
    <2>4. PartsInv'
      BY <1>f, <2>1 DEF PartsInv
    <2> QED BY <1>c, <2>1, <2>2, <2>3, <2>4 DEF BaseInv
  <1> HIDE DEF UpKept, Sends
  (* The same for a step of the media server. *)
  <1>g. ASSUME Kept, Up, live' \subseteq live, audioFirst' \in BOOLEAN, attachedSurface' \in BOOLEAN,
               UNCHANGED <<receiver, dlnaPlaybackActive, timers, accepted, restarts,
                           dlnaVars, sender, sessions>>
        PROVE  BaseInv'
    <2>1. UpKept
      BY <1>b, <1>g DEF UpKept
    <2>2. live' # {} \/ Sends' => sender' >= 1
      BY <1>c, <1>d, <1>e, <1>g
    <2> QED BY <1>d, <1>f, <1>g, <2>1, <2>2 DEF dlnaVars
  (* Start does not leave the receiver as it is. *)
  <1>h. receiver' = receiver => Up
    BY <1>a, <1>c, <1>d, StartedReceiver, UpAreStates DEF Start, Up, UpReceiver
  <1>1. CASE Connect
    <2>1. sessions' \in 0 .. MaxSessions /\ sender' \in 0 .. sessions' /\ live' \subseteq Streams
      BY <1>1, <1>d DEF Connect
    <2>2. /\ Up /\ UNCHANGED <<receiver, dlnaPlaybackActive, attachedSurface, timers, accepted,
                               restarts, dlna, plays, posted, audioFirst>>
      BY <1>1 DEF Connect, dlnaVars, runtimeVars
    <2>3. UpKept
      BY <2>2, <1>b DEF UpKept
    <2> QED BY <1>1, <1>d, <1>e, <1>f, <2>1, <2>2, <2>3
  <1>2. CASE FirstAudio
    <2>1. /\ posted' = posted /\ live' = live /\ audioFirst' \in BOOLEAN
          /\ UNCHANGED <<dlnaVars, runtimeVars, sender, sessions>>
      BY <1>2, <1>d DEF FirstAudio
    <2> QED BY <2>1, <1>d, <1>g, <1>h DEF runtimeVars
  <1>3. CASE EmitAudio
    <2>1. Kept
      BY <1>3, <1>d, Posting, Posted, StatePosts, MessageKinds DEF EmitAudio, Post
    <2>2. /\ live' \subseteq live /\ audioFirst' \in BOOLEAN /\ restarts' = restarts
          /\ UNCHANGED <<dlnaVars, runtimeVars, sender, sessions>>
      BY <1>3, <1>d DEF EmitAudio, nativeVars, runtimeVars
    <2> QED BY <2>1, <2>2, <1>3, <1>d, <1>g, <1>h DEF runtimeVars
  <1>4. CASE FirstVideo
    <2>1. UNCHANGED <<posted, live, audioFirst, dlnaVars, runtimeVars, sender, sessions>>
      BY <1>4 DEF FirstVideo, Mirrors
    <2> QED BY <2>1, <1>d, <1>g, <1>h DEF runtimeVars
  <1>5. CASE RouteVideo
    <2>1. Kept
      <3>1. posted' = posted \/ posted' = posted \o <<State("VIDEO_STARTING")>>
        BY <1>5 DEF RouteVideo, Post
      <3> QED BY <3>1, <1>d, Posting, Posted, StatePosts
    <2>2. /\ live' \subseteq live /\ audioFirst' \in BOOLEAN /\ restarts' = restarts
          /\ UNCHANGED <<dlnaVars, runtimeVars, sender, sessions>>
      BY <1>5, <1>d DEF RouteVideo, nativeVars, runtimeVars, Mirrors
    <2> QED BY <2>1, <2>2, <1>5, <1>d, <1>g, <1>h DEF runtimeVars
  <1>6. CASE EmitVideo
    <2>1. Kept
      BY <1>6, <1>d, Posting, Posted, StatePosts, MessageKinds DEF EmitVideo, Post
    <2>2. /\ live' \subseteq live /\ audioFirst' \in BOOLEAN /\ restarts' = restarts
          /\ UNCHANGED <<dlnaVars, runtimeVars, sender, sessions>>
      BY <1>6, <1>d DEF EmitVideo, nativeVars, runtimeVars, Mirrors
    <2> QED BY <2>1, <2>2, <1>6, <1>d, <1>g, <1>h DEF runtimeVars
  <1>24. CASE Rendered
    <2>1. Kept
      BY <1>24, <1>d, Posting, Posted, StatePosts, MessageKinds DEF Rendered, Post
    <2>2. /\ live' \subseteq live /\ audioFirst' \in BOOLEAN /\ restarts' = restarts
          /\ UNCHANGED <<dlnaVars, runtimeVars, sender, sessions>>
      BY <1>24, <1>d DEF Rendered, nativeVars, runtimeVars
    <2> QED BY <2>1, <2>2, <1>24, <1>d, <1>g, <1>h DEF runtimeVars
  <1>25. CASE OutlivedRendered
    <2>1. Kept
      BY <1>25, <1>d, Posting, Posted, StatePosts, MessageKinds DEF OutlivedRendered, Post
    <2>2. /\ live' \subseteq live /\ audioFirst' \in BOOLEAN /\ restarts' = restarts
          /\ UNCHANGED <<dlnaVars, runtimeVars, sender, sessions>>
      BY <1>25, <1>d DEF OutlivedRendered, nativeVars, runtimeVars
    <2> QED BY <2>1, <2>2, <1>25, <1>d, <1>g, <1>h DEF runtimeVars
  <1>26. CASE EarlierRendered
    <2>1. Kept
      BY <1>26, <1>d, Posting, Posted, StatePosts, MessageKinds DEF EarlierRendered, Post
    <2>2. /\ live' \subseteq live /\ audioFirst' \in BOOLEAN /\ restarts' = restarts
          /\ UNCHANGED <<dlnaVars, runtimeVars, sender, sessions>>
      BY <1>26, <1>d DEF EarlierRendered, nativeVars, runtimeVars
    <2> QED BY <2>1, <2>2, <1>26, <1>d, <1>g, <1>h DEF runtimeVars
  <1>7. CASE EndVideo
    <2>1. Kept
      BY <1>7, <1>d, Posting, Posted, StatePosts, MessageKinds DEF EndVideo, Post, Ended
    <2>2. /\ live' \subseteq live /\ audioFirst' \in BOOLEAN /\ restarts' = restarts
          /\ UNCHANGED <<dlnaVars, runtimeVars, sender, sessions>>
      BY <1>7, <1>d DEF EndVideo, nativeVars, runtimeVars
    <2> QED BY <2>1, <2>2, <1>7, <1>d, <1>g, <1>h DEF runtimeVars
  <1>8. CASE TeardownVideo
    <2>1. Kept
      BY <1>8, <1>d, Posting, Posted, StatePosts, MessageKinds DEF TeardownVideo, Post, Ended
    <2>2. /\ live' \subseteq live /\ audioFirst' \in BOOLEAN /\ restarts' = restarts
          /\ UNCHANGED <<dlnaVars, runtimeVars, sender, sessions>>
      BY <1>8, <1>d DEF TeardownVideo, nativeVars, runtimeVars
    <2> QED BY <2>1, <2>2, <1>8, <1>d, <1>g, <1>h DEF runtimeVars
  <1>9. CASE EndAudio
    <2>1. live' \subseteq live /\ UNCHANGED <<posted, audioFirst, dlnaVars, runtimeVars, sender, sessions>>
      BY <1>9 DEF EndAudio
    <2> QED BY <2>1, <1>d, <1>g, <1>h DEF runtimeVars
  <1>10. CASE DlnaPlay
    <2>1. posted' \in Seq(Messages) /\ dlna' \in {"none", "loading", "playing"}
      BY <1>10, <1>d, Posting, StatePosts, MessageKinds DEF DlnaPlay, Post
    <2>2. plays' \in Nat /\ plays' # 0
      BY <1>10, <1>d DEF DlnaPlay
    <2>3. UNCHANGED <<nativeVars, runtimeVars, raop>>
      BY <1>10 DEF DlnaPlay
    <2>4. UpKept /\ (live' # {} \/ Sends' => sender' >= 1)
      BY <2>3, <1>b, <1>d, <1>h DEF UpKept, Sends, Session, nativeVars, runtimeVars
    <2> QED BY <1>d, <1>f, <2>1, <2>2, <2>3, <2>4 DEF nativeVars, runtimeVars
  <1>11. CASE DlnaStarted
    <2>1. posted' \in Seq(Messages) /\ dlna' \in {"none", "loading", "playing"}
      BY <1>11, <1>d, Posting, StatePosts, MessageKinds DEF DlnaStarted, Post
    <2>2. plays' = plays /\ plays # 0
      BY <1>11, <1>d DEF DlnaStarted
    <2>3. UNCHANGED <<nativeVars, runtimeVars, raop>>
      BY <1>11 DEF DlnaStarted
    <2>4. UpKept /\ (live' # {} \/ Sends' => sender' >= 1)
      BY <2>3, <1>b, <1>d, <1>h DEF UpKept, Sends, Session, nativeVars, runtimeVars
    <2> QED BY <1>d, <1>f, <2>1, <2>2, <2>3, <2>4 DEF nativeVars, runtimeVars
  <1>12. CASE DlnaEnds
    <2>1. posted' \in Seq(Messages) /\ dlna' \in {"none", "loading", "playing"}
      BY <1>12, <1>d, Posting, StatePosts, MessageKinds DEF DlnaEnds, Post
    <2>2. plays' = plays /\ plays # 0
      BY <1>12, <1>d DEF DlnaEnds
    <2>3. UNCHANGED <<nativeVars, runtimeVars, raop>>
      BY <1>12 DEF DlnaEnds
    <2>4. UpKept /\ (live' # {} \/ Sends' => sender' >= 1)
      BY <2>3, <1>b, <1>d, <1>h DEF UpKept, Sends, Session, nativeVars, runtimeVars
    <2> QED BY <1>d, <1>f, <2>1, <2>2, <2>3, <2>4 DEF nativeVars, runtimeVars
  <1>13. CASE AttachSurface
    <2>1. RaopAttachPosts \in Seq(Messages) /\ NoDlna(RaopAttachPosts)
      BY Posted, StatePosts DEF RaopAttachPosts
    <2>2. Kept
      BY <1>13, <1>d, <2>1, Posting DEF AttachSurface, Post
    <2>3. /\ attachedSurface' \in BOOLEAN /\ live' = live /\ audioFirst' = audioFirst
          /\ UNCHANGED <<receiver, dlnaPlaybackActive, timers, accepted, restarts,
                         dlnaVars, sender, sessions>>
      BY <1>13 DEF AttachSurface, nativeVars
    <2> QED BY <2>2, <2>3, <1>d, <1>g, <1>h
  <1>14. CASE DetachSurface
    <2>1. RaopDetachPosts \in Seq(Messages) /\ NoDlna(RaopDetachPosts)
      BY Posted, StatePosts DEF RaopDetachPosts
    <2>2. Kept
      BY <1>14, <1>d, <2>1, Posting DEF DetachSurface, Post
    <2>3. /\ attachedSurface' \in BOOLEAN /\ live' = live /\ audioFirst' = audioFirst
          /\ UNCHANGED <<receiver, dlnaPlaybackActive, timers, accepted, restarts,
                         dlnaVars, sender, sessions>>
      BY <1>14 DEF DetachSurface, nativeVars
    <2> QED BY <2>2, <2>3, <1>d, <1>g, <1>h
  <1>15. CASE Stall
    <2>1. Kept
      BY <1>15, <1>d, Posting, Posted, StatePosts, MessageKinds DEF Stall, Post
    <2>2. /\ live' \subseteq live /\ audioFirst' \in BOOLEAN /\ restarts' = restarts
          /\ UNCHANGED <<dlnaVars, runtimeVars, sender, sessions>>
      BY <1>15, <1>d DEF Stall, nativeVars, runtimeVars
    <2> QED BY <2>1, <2>2, <1>15, <1>d, <1>g, <1>h DEF runtimeVars
  <1>i. ASSUME NEW q \in Seq(Messages), StopSession(q), NoDlna(posted) => NoDlna(q),
               UNCHANGED <<dlnaVars, runtimeVars, live, audioFirst, sender, sessions>>
        PROVE  BaseInv'
    BY <1>d, <1>g, <1>h, <1>i, Stopping DEF runtimeVars
  <1>16. CASE GiveUp
    BY <1>16, <1>d, <1>i DEF GiveUp
  <1>17. CASE handleStreamStopped
    <2>1. Tail(posted) \in Seq(Messages) /\ (NoDlna(posted) => NoDlna(Tail(posted)))
      BY <1>17, <1>d, Taking DEF handleStreamStopped
    <2>2. /\ StopSession(Tail(posted)) \/ posted' = Tail(posted)
          /\ UNCHANGED <<dlnaVars, runtimeVars, live, audioFirst, sender, sessions>>
      BY <1>17 DEF handleStreamStopped
    <2>3. CASE posted' = Tail(posted)
      BY <2>1, <2>2, <2>3, <1>d, <1>g, <1>h DEF runtimeVars
    <2> QED BY <2>1, <2>2, <2>3, <1>i
  <1>18. CASE HandleState
    <2> DEFINE new == Head(posted).state
               shown == [transitionTo(receiver, "PAIRING") EXCEPT !.pin = TRUE]
    <2>1. Kept
      BY <1>18, <1>d, Taking DEF HandleState
    <2>2. new \in UpStates
      BY <1>18, <1>d, Taking, MessageKinds DEF HandleState, UpStates
    <2>3. UpReceiver(receiver)
      BY <1>18, <1>b DEF HandleState, BaseInv, PartsInv, Up
    <2>4. "PAIRING" \in UpStates
      BY DEF UpStates
    <2>5. UpReceiver(transitionTo(receiver, new)) /\ UpReceiver(transitionTo(receiver, "PAIRING"))
      BY <2>2, <2>3, <2>4, UpReceivers
    <2>6. UpReceiver(shown)
      BY <2>5, UpReceivers
    <2>7. UpKept
      BY <1>18, <2>3, <2>5, <2>6 DEF HandleState, UpKept
    <2>8. timers' \in Seq(Timers)
      <3>1. shouldShowPairingPlaceholder(new) => Timer(new, sender) \in Timers
        BY <1>d DEF shouldShowPairingPlaceholder, Timers, Sends
      <3>2. timers' = timers \/ (timers' = Append(timers, Timer(new, sender))
                                  /\ shouldShowPairingPlaceholder(new))
        BY <1>18 DEF HandleState
      <3>3. \A m \in Timers : Append(timers, m) \in Seq(Timers)
        BY <1>d, AppendProperties
      <3> QED BY <1>d, <3>1, <3>2, <3>3
    <2>9. UNCHANGED <<nativeVars, dlnaVars, raop, dlnaPlaybackActive, attachedSurface,
                      accepted, restarts>>
      BY <1>18 DEF HandleState
    <2> QED BY <2>1, <2>7, <2>8, <2>9, <1>d, <1>f DEF nativeVars, dlnaVars, Sends, Session
  <1>19. CASE TimerDue
    <2>1. Head(timers) \in Timers /\ timers' \in Seq(Timers)
      BY <1>19, <1>d, EmptySeq, HeadTailProperties DEF TimerDue
    <2>2. Head(timers) \in Messages /\ Head(timers).kind # "dlna"
      <3>1. \A m \in Timers : m.kind = "timer"
        BY DEF Timers, Timer
      <3> QED BY <2>1, <3>1, MessageKinds
    <2>3. Kept
      BY <1>19, <1>d, <2>2, Posting, StatePosts DEF TimerDue, Post
    <2>4. UNCHANGED <<nativeVars, dlnaVars, receiver, dlnaPlaybackActive, attachedSurface,
                      accepted, restarts, raop>>
      BY <1>19 DEF TimerDue
    <2>5. UpKept
      BY <2>4, <1>b, <1>h DEF UpKept
    <2> QED BY <2>1, <2>3, <2>4, <2>5, <1>d, <1>f DEF nativeVars, dlnaVars, Sends, Session
  <1>20. CASE HandleTimer
    <2> DEFINE next == transitionTo(receiver, Head(posted).next)
    <2>1. Kept
      BY <1>20, <1>d, Taking DEF HandleTimer
    <2>2. Head(posted).next \in UpStates /\ Head(posted).for \in Nat
      BY <1>20, <1>d, Taking, MessageKinds DEF HandleTimer, UpStates, BeginStates, ActiveStates
    <2>3. UpReceiver(receiver)
      BY <1>20, <1>b DEF HandleTimer, BaseInv, PartsInv, Up
    <2>4. UpReceiver(next)
      BY <2>2, <2>3, UpReceivers
    <2>5. UpReceiver([next EXCEPT !.pin = FALSE])
      BY <2>4, UpReceivers
    <2>6. UpKept
      BY <1>20, <2>3, <2>5 DEF HandleTimer, UpKept
    <2>7. accepted' \in [timer : Nat, sender : Nat]
      BY <1>20, <1>d, <2>2 DEF HandleTimer, nativeVars
    <2>8. UNCHANGED <<nativeVars, dlnaVars, timers, dlnaPlaybackActive, attachedSurface, restarts>>
      BY <1>20 DEF HandleTimer
    <2>9. live' # {} \/ Sends' => sender' >= 1
      BY <2>8, <1>c, <1>d, <1>e DEF nativeVars
    <2> QED BY <2>1, <2>6, <2>7, <2>8, <2>9, <1>d, <1>f DEF nativeVars, dlnaVars
  <1>21. CASE HandleDlna
    <2>1. /\ Tail(posted) \in Seq(Messages)
          /\ Head(posted).active \in BOOLEAN /\ Head(posted).playing \in BOOLEAN
          /\ plays # 0
      BY <1>21, <1>d, Taking, MessageKinds DEF HandleDlna
    <2>2. posted' \in Seq(Messages)
      <3>1. /\ RaopDetachPosts \in Seq(Messages) /\ RaopAttachPosts \in Seq(Messages)
            /\ <<>> \in Seq(Messages)
        BY Posted, StatePosts DEF RaopDetachPosts, RaopAttachPosts
      <3>2. \A p \in {RaopDetachPosts, RaopAttachPosts, <<>>} :
              Tail(posted) \o p \in Seq(Messages)
        BY <2>1, <3>1, Posting
      <3>3. posted' \in {Tail(posted) \o RaopDetachPosts, Tail(posted) \o RaopAttachPosts,
                         Tail(posted) \o <<>>}
        BY <1>21 DEF HandleDlna
      <3> QED BY <3>2, <3>3
    <2>3. UpReceiver(receiver)
      BY <1>21, <1>b DEF HandleDlna, BaseInv, PartsInv, Up
    <2>4. UpReceiver(transitionTo(receiver, "IDLE_ADVERTISING"))
      BY <2>3, UpReceivers DEF UpStates, EndStates
    <2>5. UpReceiver(DlnaMoved(Head(posted).playing))
      BY <2>1, <2>3, DlnaMoves
    <2>6. UpKept
      BY <1>21, <2>4, <2>5 DEF HandleDlna, UpKept
    <2>7. /\ dlnaPlaybackActive' \in BOOLEAN
          /\ UNCHANGED <<nativeVars, dlnaVars, attachedSurface, timers, accepted, restarts>>
      BY <1>21, <2>1 DEF HandleDlna
    <2>8. live' # {} \/ Sends' => sender' >= 1
      BY <2>7, <1>c, <1>d, <1>e DEF nativeVars
    <2> QED BY <2>1, <2>2, <2>6, <2>7, <2>8, <1>d, <1>f DEF nativeVars, dlnaVars
  <1>22. CASE Start
    <2>1. UpKept
      BY <1>22, <1>d, StartedReceiver DEF Start, UpKept, Up
    <2>2. UNCHANGED <<nativeVars, dlnaVars, dlnaPlaybackActive, attachedSurface, timers,
                      accepted, restarts, raop, posted>>
      BY <1>22 DEF Start
    <2> QED BY <2>1, <2>2, <1>d, <1>f DEF nativeVars, dlnaVars, Sends, Session
  <1>23. CASE Restart
    <2> DEFINE r == [receiver EXCEPT !.history = "none"]
               s == transitionTo(r, "STOPPED")
    <2>1. r \in Receivers
      BY <1>d DEF Receivers
    <2>2. s \in Receivers /\ s.state = "STOPPED"
      BY <2>1, Transition, StartMoves DEF States, Receivers
    <2> HIDE DEF s
    <2>3. UpReceiver(Started(s))
      BY <2>2, StartedReceiver
    <2>4. UpKept
      BY <1>23, <2>3 DEF Restart, UpKept, s
    <2>5. restarts' \in 0 .. MaxRestarts
      BY <1>23, <1>d DEF Restart
    <2>6. live' = {} /\ dlna' = "none"
          /\ UNCHANGED <<dlnaPlaybackActive, attachedSurface, timers, accepted, audioFirst,
                         sender, sessions, plays, posted>>
      BY <1>23 DEF Restart
    <2>7. live' # {} \/ Sends' => sender' >= 1
      BY <2>6, <1>c, <1>d, <1>e
    <2> QED BY <2>4, <2>5, <2>6, <2>7, <1>d, <1>f
  <1> QED BY <1>1, <1>2, <1>3, <1>4, <1>5, <1>6, <1>7, <1>8, <1>9, <1>10, <1>11, <1>12, <1>13, <1>14, <1>15, <1>16, <1>17, <1>18, <1>19, <1>20, <1>21, <1>22, <1>23,
            <1>24, <1>25, <1>26
         DEF Next, Native, Renderer, Looper

LEMMA SettlesOne ==
  ASSUME NEW q \in Seq(Messages), NEW m \in Messages, NEW s, NEW A, NEW B \in SUBSET States,
         Settles(q, s, A), \A x \in A : After(x, m) \in B
  PROVE  Settles(q \o <<m>>, s, B)
  <1>1. q \o <<m>> = Append(q, m)
    OBVIOUS
  <1> QED BY <1>1, SettlesPost

LEMMA SettlesTwo ==
  ASSUME NEW q \in Seq(Messages), NEW m \in Messages, NEW n \in Messages, NEW s,
         NEW A \in SUBSET UpStates, NEW B \in SUBSET States,
         Settles(q, s, A), \A x \in A : After(After(x, m), n) \in B
  PROVE  Settles(q \o <<m, n>>, s, B)
  <1> DEFINE C == {After(x, m) : x \in A}
  <1>1. C \in SUBSET States
    BY AfterUp, UpAreStates
  <1>2. \A x \in A : After(x, m) \in C
    OBVIOUS
  <1>3. \A x \in C : After(x, n) \in B
    OBVIOUS
  <1> HIDE DEF C
  <1>4. Settles(Append(q, m), s, C)
    BY <1>1, <1>2, SettlesPost
  <1>5. Append(q, m) \in Seq(Messages)
    BY AppendProperties
  <1>6. Settles(Append(Append(q, m), n), s, B)
    BY <1>3, <1>4, <1>5, SettlesPost
  <1>7. q \o <<m, n>> = Append(Append(q, m), n)
    OBVIOUS
  <1> QED BY <1>6, <1>7

LEMMA SettlesNothing ==
  ASSUME NEW s, NEW A \in SUBSET States, s \in A
  PROVE  Settles(<<>>, s, A)
  <1> DEFINE F == [i \in 1 .. 1 |-> A]
  <1>1. Len(<<>>) = 0 /\ F \in [1 .. 1 -> SUBSET States] /\ F[1] = A
    OBVIOUS
  <1> HIDE DEF F
  <1> QED BY <1>1 DEF Settles

(* The state the media server is in moves with what it posts. *)
LEMMA SettleStep == RuntimeInv /\ Next => SettleInv'
  <1> SUFFICES ASSUME RuntimeInv, Next, Up', AirPlayOnly', ~raop'.late
               PROVE  Settles(posted', receiver'.state, Expected')
    BY DEF SettleInv
  <1> DEFINE Before == Settles(posted, receiver.state, Expected)
             After1 == Settles(posted', receiver'.state, Expected')
  <1>1. BaseInv /\ BaseInv'
    BY BaseStep DEF RuntimeInv
  <1>2. /\ receiver \in Receivers /\ posted \in Seq(Messages) /\ timers \in Seq(Timers)
        /\ raop \in Raops
        /\ audioFirst \in BOOLEAN /\ plays \in Nat /\ restarts \in Nat
        /\ accepted \in [timer : Nat, sender : Nat]
        /\ mirror \in {"none", "packet", "VIDEO_REQUESTED", "WAITING_FOR_SURFACE"}
        /\ raop.player => raop.surface
        /\ ~raop.late => (raop.player => raop.video) /\ (raop.started => raop.player)
        /\ mirror = "WAITING_FOR_SURFACE" /\ raop.video /\ raop.surface => raop.player
    BY <1>1 DEF BaseInv, RuntimeTypeOK, CountersOK, MediaInv, Receivers, Raops
  <1>3. /\ receiver.state \in UpStates \cup {"STOPPED"}
        /\ ~Up => /\ posted = <<>> /\ timers = <<>> /\ live = {} /\ ~audioFirst
                  /\ dlna = "none" /\ ~raop.video /\ ~raop.audio /\ ~raop.player
                  /\ mirror = "none"
        /\ raop.earlier => restarts # 0
        /\ plays = 0 => ~dlnaPlaybackActive /\ dlna = "none" /\ NoDlna(posted)
    BY <1>1 DEF BaseInv, MediaInv, PartsInv
  <1>4. Up /\ AirPlayOnly /\ ~raop.late => Before
    BY DEF RuntimeInv, SettleInv
  <1>5. Expected \in SUBSET UpStates /\ Expected' \in SUBSET States
    BY DEF Expected, UpStates, States, ActiveStates, EndStates
  <1>6. \A x, n : After(x, State(n)) = MovesTo(x, n)
    BY DEF After, State
  <1>7. \A n \in ActiveStates \cup EndStates : State(n) \in Messages
    BY MessageKinds
  (* A step that posts one message, or none. *)
  <1>8. ASSUME NEW m \in Messages, Before, posted' = posted \o <<m>>, receiver' = receiver,
               \A x \in Expected : After(x, m) \in Expected'
        PROVE  After1
    BY <1>2, <1>5, <1>8, SettlesOne
  <1>9. ASSUME Before, posted' = posted, receiver' = receiver, Expected \subseteq Expected'
        PROVE  After1
    BY <1>9, SettlesWithin
  <1> HIDE DEF Before, After1
  (* The media server after a step that sets one thing. *)
  <1>b. ASSUME raop'.surface = raop.surface, raop'.video = raop.video, raop'.audio = raop.audio,
               raop'.player = raop.player, raop'.started = raop.started,
               mirror' = mirror, audioFirst' = audioFirst
        PROVE  Expected' = Expected
    BY <1>b DEF Expected
  <1>c. ASSUME raop' = RaopAttached
        PROVE  /\ raop'.surface /\ raop'.video = raop.video /\ raop'.audio = raop.audio
               /\ raop'.player = (raop.player \/ raop.video) /\ raop'.started = raop.started
               /\ raop'.late = raop.late /\ raop'.pending = raop.pending
    <2> DEFINE b == raop.player \/ raop.video
    <2>1. raop' = [raop EXCEPT !.surface = TRUE, !.player = b] /\ b \in BOOLEAN
      BY <1>c DEF RaopAttached
    <2> HIDE DEF b
    <2>2. /\ raop'.surface /\ raop'.video = raop.video /\ raop'.audio = raop.audio
          /\ raop'.player = b /\ raop'.started = raop.started
          /\ raop'.late = raop.late /\ raop'.pending = raop.pending
      BY <2>1, <1>2 DEF Raops
    <2> QED BY <2>2 DEF b
  <1>d. ASSUME raop' = RaopDetached
        PROVE  /\ ~raop'.surface /\ raop'.video = raop.video /\ raop'.audio = raop.audio
               /\ ~raop'.player /\ ~raop'.started
               /\ raop'.late = raop.late /\ raop'.pending = raop.pending
    <2> DEFINE b == raop.outlived \/ raop.player
    <2>1. /\ b \in BOOLEAN
          /\ raop' = [raop EXCEPT !.surface = FALSE, !.player = FALSE, !.started = FALSE,
                                  !.outlived = b]
      BY <1>d DEF RaopDetached
    <2> HIDE DEF b
    <2> QED BY <2>1, <1>2 DEF Raops
  <1>10. CASE Connect
    <2>1. PICK pin \in Pins : raop' = [raop EXCEPT !.pending = @ \/ pin]
      BY <1>10 DEF Connect
    <2> DEFINE b == raop.pending \/ pin
    <2>2. b \in BOOLEAN /\ raop' = [raop EXCEPT !.pending = b] /\ (raop.pending => b)
      BY <2>1
    <2> HIDE DEF b
    <2>3. /\ raop'.surface = raop.surface /\ raop'.video = raop.video /\ raop'.audio = raop.audio
          /\ raop'.player = raop.player /\ raop'.started = raop.started
          /\ raop'.late = raop.late /\ (raop.pending => raop'.pending)
      BY <2>2, <1>2 DEF Raops
    <2>4. UNCHANGED <<dlnaVars, runtimeVars, posted, audioFirst, mirror>> /\ Up
      BY <1>10 DEF Connect
    <2>5. Before
      BY <2>3, <2>4, <1>4 DEF dlnaVars, runtimeVars, AirPlayOnly
    <2>6. Expected \subseteq Expected'
      BY <2>3, <2>4, <1>b
    <2> QED BY <2>4, <2>5, <2>6, <1>9 DEF After1, runtimeVars
  <1>11. CASE FirstAudio
    <2>1. /\ raop' = [raop EXCEPT !.audio = TRUE] /\ ~raop.audio /\ audioFirst' = ~raop.video
          /\ UNCHANGED <<dlnaVars, runtimeVars, posted, mirror>> /\ live # {}
      BY <1>11 DEF FirstAudio
    <2>2. /\ raop'.surface = raop.surface /\ raop'.video = raop.video /\ raop'.audio
          /\ raop'.player = raop.player /\ raop'.started = raop.started
          /\ raop'.late = raop.late /\ raop'.pending = raop.pending
      BY <2>1, <1>2 DEF Raops
    <2>3. Before
      BY <2>1, <2>2, <1>3, <1>4 DEF dlnaVars, runtimeVars, AirPlayOnly
    <2>4. Expected \subseteq Expected'
      BY <2>1, <2>2 DEF Expected
    <2> QED BY <2>1, <2>3, <2>4, <1>9 DEF After1, runtimeVars
  <1>12. CASE EmitAudio
    <2>1. Before /\ posted' = posted \o <<State("AUDIO_ACTIVE")>> /\ receiver' = receiver
      BY <1>12, <1>2, <1>3, <1>4 DEF EmitAudio, nativeVars, dlnaVars, runtimeVars, AirPlayOnly, Up, Post
    <2>2. \A x \in Expected : MovesTo(x, "AUDIO_ACTIVE") \in Expected'
      BY <1>12, <1>2, MediaMoves DEF EmitAudio, nativeVars, dlnaVars, runtimeVars, Expected
    <2> QED BY <2>1, <2>2, <1>6, <1>7, <1>8, Posted DEF After1
  <1>13. CASE FirstVideo
    <2>1. /\ ~raop.late /\ posted' = posted /\ receiver' = receiver
          /\ raop' = [raop EXCEPT !.video = TRUE] /\ mirror' = "VIDEO_REQUESTED"
          /\ ~raop.video /\ live # {}
      BY <1>13, <1>2 DEF FirstVideo, Mirrors, runtimeVars, Raops
    <2>2. Before
      BY <1>13, <2>1, <1>2, <1>3, <1>4 DEF FirstVideo, dlnaVars, runtimeVars, AirPlayOnly, Up, Raops
    <2>3. Expected \subseteq Expected'
      BY <2>1, <1>2 DEF Expected, Raops
    <2> QED BY <2>1, <2>2, <2>3, <1>9 DEF After1
  <1>14. CASE RouteVideo
    <2>1. /\ ~raop.late /\ receiver' = receiver /\ mirror # "VIDEO_REQUESTED"
          /\ mirror' # "VIDEO_REQUESTED" /\ audioFirst' = audioFirst
          /\ Up /\ AirPlayOnly
      BY <1>14, <1>2, <1>3 DEF RouteVideo, Mirrors, InPacket, dlnaVars, runtimeVars, AirPlayOnly, Up, Raops
    <2>2. CASE raop.surface /\ ~raop.player
      <3>1. /\ posted' = posted \o <<State("VIDEO_STARTING")>>
            /\ raop' = [raop EXCEPT !.player = TRUE, !.late = @ \/ ~raop.video]
        BY <1>14, <2>2 DEF RouteVideo, Post
      <3>2. raop.video
        BY <3>1, <1>2 DEF Raops
      <3>3. \A x \in Expected : MovesTo(x, "VIDEO_STARTING") \in Expected'
        BY <2>1, <2>2, <3>1, <3>2, <1>2, MediaMoves DEF Expected, Raops
      <3> QED BY <2>1, <3>1, <3>3, <1>4, <1>6, <1>7, <1>8, Posted DEF After1
    <2>3. CASE ~(raop.surface /\ ~raop.player)
      <3>1. posted' = posted /\ raop' = raop
        BY <1>14, <2>3 DEF RouteVideo
      <3>2. Expected \subseteq Expected'
        BY <2>1, <3>1 DEF Expected
      <3> QED BY <2>1, <3>1, <3>2, <1>4, <1>9 DEF After1
    <2> QED BY <2>2, <2>3
  <1>15. CASE EmitVideo
    <2>1. /\ posted' = posted \o <<State(mirror)>> /\ receiver' = receiver
          /\ mirror \in {"VIDEO_REQUESTED", "WAITING_FOR_SURFACE"}
          /\ mirror' # "VIDEO_REQUESTED" /\ audioFirst' = audioFirst
          /\ raop' = [raop EXCEPT !.late = @ \/ raop.player \/ ~raop.video]
          /\ UNCHANGED <<dlnaVars, accepted, restarts>>
      BY <1>15 DEF EmitVideo, Mirrors, runtimeVars, Post
    <2>2. ~raop.late /\ ~raop.player /\ raop.video /\ raop' = raop /\ ~raop.started
      BY <2>1, <1>2 DEF Raops
    <2>3. Before
      BY <2>1, <2>2, <1>3, <1>4 DEF dlnaVars, AirPlayOnly, Up
    <2>4. \A x \in Expected : MovesTo(x, mirror) \in Expected'
      <3>1. CASE mirror = "VIDEO_REQUESTED"
        BY <3>1, <2>1, <2>2, MediaMoves, EarlyMoves DEF Expected
      <3>2. CASE mirror = "WAITING_FOR_SURFACE"
        BY <3>2, <2>1, <2>2, <1>2, MediaMoves DEF Expected
      <3> QED BY <2>1, <3>1, <3>2
    <2>5. mirror \in ActiveStates \cup EndStates
      BY <2>1, Posted
    <2> QED BY <2>1, <2>3, <2>4, <2>5, <1>6, <1>7, <1>8 DEF After1
  <1>31. CASE Rendered
    <2>1. /\ ~raop.late /\ posted' = posted \o <<State("VIDEO_ACTIVE")>> /\ receiver' = receiver
          /\ raop' = [raop EXCEPT !.started = TRUE] /\ raop.player /\ ~raop.started
          /\ UNCHANGED <<nativeVars, dlnaVars, accepted, restarts>>
      BY <1>31, <1>2 DEF Rendered, runtimeVars, Post, Raops
    <2>2. Before /\ raop.video
      BY <2>1, <1>2, <1>3, <1>4 DEF dlnaVars, AirPlayOnly, Up, Raops
    <2>3. \A x \in Expected : MovesTo(x, "VIDEO_ACTIVE") \in Expected'
      BY <2>1, <2>2, <1>2, MediaMoves, EarlyMoves DEF nativeVars, Expected, Raops
    <2> QED BY <2>1, <2>2, <2>3, <1>6, <1>7, <1>8, Posted DEF After1
  <1>32. CASE OutlivedRendered
    BY <1>32, <1>2 DEF OutlivedRendered, Raops
  <1>33. CASE EarlierRendered
    BY <1>33, <1>3 DEF EarlierRendered, runtimeVars, AirPlayOnly
  <1>16. CASE EndVideo
    <2>1. Before /\ posted' = posted \o <<Ended>> /\ receiver' = receiver /\ Expected' = Expected
      BY <1>16, <1>2, <1>3, <1>4 DEF EndVideo, dlnaVars, runtimeVars, AirPlayOnly, Up, Post, Expected
    <2>2. \A x \in Expected : After(x, Ended) = x
      BY DEF After, Ended
    <2> QED BY <1>8, <2>1, <2>2, <1>1, MessageKinds DEF BaseInv, CountersOK, After1
  <1>17. CASE TeardownVideo
    <2>1. /\ Before /\ posted' = posted \o <<Ended, Ended>> /\ receiver' = receiver
          /\ Expected' = Expected
      BY <1>17, <1>2, <1>3, <1>4 DEF TeardownVideo, dlnaVars, runtimeVars, AirPlayOnly, Up, Post, Expected
    <2>2. \A x \in Expected : After(After(x, Ended), Ended) = x
      BY DEF After, Ended
    <2>3. Ended \in Messages
      BY <1>1, MessageKinds DEF BaseInv, CountersOK
    <2>4. /\ Expected \in SUBSET UpStates /\ Expected \in SUBSET States
          /\ \A x \in Expected : After(After(x, Ended), Ended) \in Expected
          /\ Settles(posted, receiver.state, Expected)
      BY <2>1, <2>2, <1>5, UpAreStates DEF Before
    <2> DEFINE m == Ended
    <2>5. m \in Messages /\ \A x \in Expected : After(After(x, m), m) \in Expected
      BY <2>3, <2>4
    <2> HIDE DEF m
    <2>6. Settles(posted \o <<m, m>>, receiver.state, Expected)
      BY <2>4, <2>5, <1>2, SettlesTwo
    <2> QED BY <2>1, <2>6 DEF m
  <1>18. CASE EndAudio
    <2>1. Before /\ posted' = posted /\ receiver' = receiver
      BY <1>18, <1>2, <1>3, <1>4 DEF EndAudio, nativeVars, dlnaVars, runtimeVars, AirPlayOnly, Up
    <2>2. Expected \subseteq Expected'
      BY <1>18, <1>2 DEF EndAudio, nativeVars, dlnaVars, runtimeVars, Expected
    <2> QED BY <2>1, <2>2, <1>9 DEF After1
  <1>19. CASE DlnaPlay \/ DlnaStarted \/ DlnaEnds
    BY <1>19, <1>2, <1>3 DEF DlnaPlay, DlnaStarted, DlnaEnds, dlnaVars, AirPlayOnly
  <1>20. CASE AttachSurface
    <2>1. raop' = RaopAttached /\ posted' = posted \o RaopAttachPosts /\ Up
      BY <1>20, <1>3 DEF AttachSurface, dlnaVars, AirPlayOnly, Post
    <2>2. UNCHANGED <<nativeVars, dlnaVars, receiver, accepted, restarts>>
      BY <1>20 DEF AttachSurface
    <2>3. Before
      BY <2>1, <2>2, <1>4, <1>c DEF dlnaVars, AirPlayOnly
    <2>4. ~raop.late
      BY <2>1, <1>c
    <2>5. CASE Starts
      <3>1. \A x \in Expected : MovesTo(x, "VIDEO_STARTING") \in Expected'
        <4>1. /\ raop.video /\ ~raop.player /\ ~raop.started
              /\ raop'.video /\ raop'.player /\ ~raop'.started /\ mirror' = mirror
          BY <2>1, <2>2, <2>4, <2>5, <1>2, <1>c DEF Starts, nativeVars
        <4>2. CASE mirror = "VIDEO_REQUESTED"
          BY <4>1, <4>2, EarlyMoves, MediaMoves DEF Expected
        <4>3. CASE mirror # "VIDEO_REQUESTED"
          BY <4>1, <4>3, MediaMoves DEF Expected
        <4> QED BY <4>2, <4>3
      <3> QED BY <2>1, <2>2, <2>3, <2>5, <3>1, <1>6, <1>7, <1>8, Posted DEF RaopAttachPosts, After1
    <2>6. CASE ~Starts
      <3>1. Expected \subseteq Expected'
        BY <2>1, <2>2, <2>4, <2>6, <1>2, <1>c DEF Expected, Starts, nativeVars
      <3>2. posted' = posted
        BY <2>1, <2>6, <1>2 DEF RaopAttachPosts
      <3> QED BY <2>2, <2>3, <3>1, <3>2, <1>9 DEF After1
    <2> QED BY <2>5, <2>6
  <1>21. CASE DetachSurface
    <2>1. /\ raop' = RaopDetached /\ posted' = posted \o RaopDetachPosts /\ Up
          /\ UNCHANGED <<nativeVars, dlnaVars, receiver, accepted, restarts>>
      BY <1>21 DEF DetachSurface, Post
    <2>2. Before /\ ~raop.late
      BY <2>1, <1>4, <1>d DEF dlnaVars, AirPlayOnly
    <2>3. CASE raop.video
      <3>1. \A x \in Expected : MovesTo(x, "WAITING_FOR_SURFACE") \in Expected'
        <4>1. /\ raop.video /\ (raop.started => raop.player) /\ mirror' = mirror
              /\ raop'.video /\ ~raop'.player /\ ~raop'.started /\ ~raop'.surface
          BY <2>1, <2>2, <2>3, <1>2, <1>d DEF nativeVars
        <4>2. CASE mirror = "VIDEO_REQUESTED"
          BY <4>1, <4>2, EarlyMoves, MediaMoves DEF Expected
        <4>3. CASE mirror # "VIDEO_REQUESTED"
          BY <4>1, <4>3, MediaMoves DEF Expected
        <4> QED BY <4>2, <4>3
      <3> QED BY <2>1, <2>2, <2>3, <3>1, <1>6, <1>7, <1>8, Posted DEF RaopDetachPosts, After1
    <2>4. CASE ~raop.video
      <3>1. Expected \subseteq Expected'
        BY <2>1, <2>2, <2>4, <1>2, <1>d DEF Expected, nativeVars
      <3>2. posted' = posted
        BY <2>1, <2>4, <1>2 DEF RaopDetachPosts
      <3> QED BY <2>1, <2>2, <3>1, <3>2, <1>9 DEF After1
    <2> QED BY <2>3, <2>4
  <1>22. CASE Stall
    <2> DEFINE new == IF raop.surface THEN "VIDEO_STARTING" ELSE "WAITING_FOR_SURFACE"
               b == raop.outlived \/ raop.player
    <2>a. /\ raop.video /\ b \in BOOLEAN
          /\ raop' = [raop EXCEPT !.player = raop.surface, !.started = FALSE, !.outlived = b]
          /\ posted' = posted \o <<State("VIDEO_STALLED"), State(new)>>
          /\ UNCHANGED <<nativeVars, dlnaVars, runtimeVars>>
      BY <1>22 DEF Stall, Post
    <2> HIDE DEF b
    <2>b. /\ raop'.surface = raop.surface /\ raop'.video /\ raop'.audio = raop.audio
          /\ raop'.player = raop.surface /\ ~raop'.started
          /\ raop'.late = raop.late /\ raop'.pending = raop.pending
      BY <2>a, <1>2 DEF Raops
    <2>c. Up /\ ~raop.late
      BY <2>a, <2>b, <1>3
    <2>1. /\ Before /\ receiver' = receiver
          /\ posted' = posted \o <<State("VIDEO_STALLED"), State(new)>>
      BY <2>a, <2>b, <2>c, <1>4 DEF dlnaVars, runtimeVars, AirPlayOnly
    <2>2. \A x \in Expected : MovesTo(MovesTo(x, "VIDEO_STALLED"), new) \in Expected'
      <3>1. CASE mirror = "VIDEO_REQUESTED"
        <4>1. CASE raop.surface
          BY <3>1, <4>1, <2>a, <2>b, <2>c, <1>2, MediaMoves, EarlyMoves DEF Expected, nativeVars
        <4>2. CASE ~raop.surface
          BY <3>1, <4>2, <2>a, <2>b, <2>c, <1>2, MediaMoves, EarlyMoves DEF Expected, nativeVars
        <4> QED BY <4>1, <4>2
      <3>2. CASE mirror # "VIDEO_REQUESTED"
        BY <3>2, <2>a, <2>b, <2>c, <1>2, MediaMoves DEF Expected, nativeVars
      <3> QED BY <3>1, <3>2
    <2> DEFINE m == State("VIDEO_STALLED") l == State(new)
    <2>3. m \in Messages /\ l \in Messages
      BY <1>7, Posted
    <2>4. \A x \in Expected : After(After(x, m), l) \in Expected'
      BY <2>2, <1>6
    <2> HIDE DEF m, l
    <2>5. Settles(posted \o <<m, l>>, receiver.state, Expected')
      BY <2>1, <2>3, <2>4, <1>2, <1>5, SettlesTwo DEF Before
    <2> QED BY <2>1, <2>5 DEF m, l
  <1>a. ASSUME NEW q \in Seq(Messages), StopSession(q), receiver' = receiver,
               receiver.state \in UpStates
        PROVE  After1
    <2>1. raop' = RaopStopped /\ posted' = q \o StopPosts
      BY <1>a, <1>2, Stopping DEF RaopStopped, Raops
    <2>2. {"IDLE_ADVERTISING"} \subseteq Expected'
      BY <2>1, <1>2 DEF Expected, RaopStopped, Raops
    <2>3. Settles(q \o StopPosts, receiver.state, {"IDLE_ADVERTISING"})
      BY <1>a, SettlesStopped
    <2> QED BY <1>a, <2>1, <2>2, <2>3, SettlesWithin DEF After1
  <1>23. CASE GiveUp
    BY <1>23, <1>2, <1>3, <1>a DEF GiveUp, runtimeVars, Up, After1
  <1>24. CASE handleStreamStopped
    <2>1. /\ posted # <<>> /\ receiver' = receiver /\ receiver.state \in UpStates
          /\ Tail(posted) \in Seq(Messages)
      BY <1>24, <1>2, <1>3, Taking DEF handleStreamStopped, runtimeVars, Up
    <2>2. CASE Head(posted).server = restarts
      BY <1>24, <2>1, <2>2, <1>a DEF handleStreamStopped, After1
    <2>3. CASE Head(posted).server # restarts
      <3>1. /\ raop' = raop /\ mirror' = mirror /\ posted' = Tail(posted) /\ audioFirst' = audioFirst
            /\ Head(posted).kind = "ended" /\ UNCHANGED <<dlnaVars, runtimeVars>>
        BY <1>24, <2>3 DEF handleStreamStopped
      <3>2. Before /\ Expected' = Expected
        BY <3>1, <2>1, <1>3, <1>4 DEF dlnaVars, runtimeVars, AirPlayOnly, Up, Expected
      <3>3. After(receiver.state, Head(posted)) = receiver.state
        BY <3>1 DEF After
      <3>4. Settles(Tail(posted), After(receiver.state, Head(posted)), Expected)
        BY <2>1, <3>2, <1>2, SettlesHandled DEF Before
      <3> QED BY <2>1, <3>1, <3>2, <3>3, <3>4
    <2> QED BY <2>2, <2>3
  <1>25. CASE HandleState
    <2>1. /\ Before /\ posted # <<>> /\ posted' = Tail(posted) /\ Expected' = Expected
          /\ Head(posted).kind = "raop" /\ ~raop.pending /\ ~dlnaPlaybackActive
      BY <1>25, <1>3, <1>4 DEF HandleState, nativeVars, dlnaVars, AirPlayOnly, Up, Expected
    <2>2. Head(posted).state \in States
      BY <2>1, <1>2, Taking, MessageKinds, UpAreStates DEF UpStates
    <2>3. receiver' = transitionTo(receiver, Head(posted).state)
      BY <1>25, <2>1 DEF HandleState, shouldShowPairingPlaceholder
    <2>4. receiver'.state = After(receiver.state, Head(posted))
      BY <2>1, <2>2, <2>3, <1>2, Transition DEF After
    <2>5. Settles(Tail(posted), After(receiver.state, Head(posted)), Expected)
      BY <2>1, <1>2, SettlesHandled DEF Before
    <2> QED BY <2>1, <2>4, <2>5
  <1>26. CASE TimerDue
    <2>1. /\ Before /\ posted' = posted \o <<Head(timers)>> /\ receiver' = receiver
          /\ Expected' = Expected
      BY <1>26, <1>4 DEF TimerDue, nativeVars, dlnaVars, AirPlayOnly, Up, Post, Expected
    <2>2. Head(timers) \in Timers
      BY <1>26, <1>2, EmptySeq, HeadTailProperties DEF TimerDue
    <2>3. Head(timers) \in Messages /\ Head(timers).kind = "timer"
      <3>1. \A m \in Timers : m.kind = "timer"
        BY DEF Timers, Timer
      <3> QED BY <2>2, <3>1, MessageKinds
    <2>4. \A x \in Expected : After(x, Head(timers)) = x
      BY <2>3 DEF After, Expected
    <2> QED BY <2>1, <2>3, <2>4, <1>8 DEF After1
  <1>27. CASE HandleTimer
    <2>1. /\ posted # <<>> /\ posted' = Tail(posted) /\ Head(posted).kind = "timer"
          /\ audioFirst' = audioFirst /\ plays' = plays /\ restarts' = restarts
          /\ mirror' = mirror
      BY <1>27 DEF HandleTimer, nativeVars, dlnaVars
    <2>2. /\ Head(posted).for >= 1 /\ Head(posted).next \in BeginStates
      BY <2>1, <1>2, Taking, MessageKinds
    <2>3. CASE receiver.state = "PAIRING"
      <3>1. accepted'.timer # 0 \/ ~raop.pending
        BY <1>27, <2>2, <2>3 DEF HandleTimer
      <3>2. ~raop.pending /\ accepted' = accepted /\ raop' = [raop EXCEPT !.pending = FALSE]
        BY <1>27, <2>3, <3>1 DEF HandleTimer, AirPlayOnly
      <3>a. /\ raop'.surface = raop.surface /\ raop'.video = raop.video
            /\ raop'.audio = raop.audio /\ raop'.player = raop.player
            /\ raop'.started = raop.started /\ raop'.late = raop.late
        BY <3>2, <1>2 DEF Raops
      <3>3. Before
        BY <2>1, <2>3, <3>2, <3>a, <1>4 DEF AirPlayOnly, Up
      <3>4. Expected' = Expected
        BY <2>1, <3>a, <1>b
      <3>5. receiver' = [transitionTo(receiver, Head(posted).next) EXCEPT !.pin = FALSE]
        BY <1>27, <2>3 DEF HandleTimer
      <3>6. Head(posted).next \in States
        BY <2>2 DEF BeginStates, States, ActiveStates
      <3>7. /\ transitionTo(receiver, Head(posted).next) \in Receivers
            /\ transitionTo(receiver, Head(posted).next).state = Head(posted).next
        BY <2>2, <2>3, <3>6, <1>2, Transition, MediaMoves
      <3>8. receiver'.state = Head(posted).next
        BY <3>5, <3>7 DEF Receivers
      <3>9. receiver'.state = After(receiver.state, Head(posted))
        BY <3>8, <2>1, <2>3 DEF After
      <3>10. Settles(Tail(posted), After(receiver.state, Head(posted)), Expected)
        BY <2>1, <3>3, <1>2, SettlesHandled DEF Before
      <3> QED BY <2>1, <3>4, <3>9, <3>10
    <2>4. CASE receiver.state # "PAIRING"
      <3>1. receiver' = receiver /\ raop' = raop /\ accepted' = accepted
        BY <1>27, <2>4 DEF HandleTimer
      <3>a. Up
        BY <2>1, <1>3
      <3>2. Before /\ Expected' = Expected
        BY <2>1, <3>1, <3>a, <1>4, <1>b DEF AirPlayOnly
      <3>3. receiver'.state = After(receiver.state, Head(posted))
        BY <3>1, <2>1, <2>4 DEF After
      <3>4. Settles(Tail(posted), After(receiver.state, Head(posted)), Expected)
        BY <2>1, <3>2, <1>2, SettlesHandled DEF Before
      <3> QED BY <2>1, <3>2, <3>3, <3>4
    <2> QED BY <2>3, <2>4
  <1>28. CASE HandleDlna
    BY <1>28, <1>2, <1>3, Taking DEF HandleDlna, dlnaVars, AirPlayOnly
  <1>29. CASE Start
    <2>1. posted' = <<>> /\ receiver'.state = "IDLE_ADVERTISING" /\ Expected' = Expected
      BY <1>29, <1>2, <1>3, StartedReceiver DEF Start, nativeVars, Up, Expected
    <2>2. "IDLE_ADVERTISING" \in Expected'
      BY <1>29, <2>1, <1>3 DEF Start, Up, Expected
    <2> QED BY <2>1, <2>2, <1>5, SettlesNothing
  <1>30. CASE Restart
    BY <1>30, <1>2 DEF Restart, AirPlayOnly
  <1> QED BY <1>10, <1>11, <1>12, <1>13, <1>14, <1>15, <1>16, <1>17, <1>18, <1>19, <1>20, <1>21, <1>22, <1>23, <1>24, <1>25, <1>26, <1>27, <1>28, <1>29, <1>30,
            <1>31, <1>32, <1>33
         DEF Next, Native, Renderer, Looper

LEMMA RuntimeStep == RuntimeInv /\ [Next]_vars => RuntimeInv'
  <1>1. RuntimeInv /\ Next => RuntimeInv'
    BY BaseStep, SettleStep DEF RuntimeInv
  <1>2. RuntimeInv /\ UNCHANGED vars => RuntimeInv'
    <2> SUFFICES ASSUME RuntimeInv, UNCHANGED vars
                 PROVE  RuntimeInv'
      OBVIOUS
    <2>1. BaseInv'
      BY DEF RuntimeInv, BaseInv, RuntimeTypeOK, CountersOK, MediaInv, PartsInv, Up, Session, vars,
             nativeVars, dlnaVars, runtimeVars
    <2>2. SettleInv'
      BY DEF RuntimeInv, SettleInv, Up, AirPlayOnly, Expected, vars, nativeVars, dlnaVars, runtimeVars
    <2> QED BY <2>1, <2>2 DEF RuntimeInv
  <1> QED BY <1>1, <1>2

(***************************************************************************)
(* Whatever the threads of the media server, DLNA, the pairing placeholder *)
(* and a restart post, a screen that shows media has a history record: the *)
(* record is begun on the edge into the active states and ended only on    *)
(* the way to the ready screen (ReceiverRuntime.kt, transitionTo).  The    *)
(* converse is not claimed: see HistoryClosed.                             *)
(***************************************************************************)
THEOREM HistoryHeld == Spec => []HistoryWhileActive
  <1>1. RuntimeInv => HistoryWhileActive
    BY DEF RuntimeInv, BaseInv, HistoryKept, HistoryWhileActive
  <1> QED BY <1>1, RuntimeInitInv, RuntimeStep, PTL DEF Spec

(***************************************************************************)
(* With an empty looper the state of the runtime says what the media       *)
(* server is doing, for any number of sessions, posts and changes of the   *)
(* surface and whichever of the posted states isValidTransition refused,   *)
(* until DLNA, a restart or an accepted overlay takes part, or a thread    *)
(* posts what is no longer so (raop.late; RaopServer.kt:94, 121-124, 549). *)
(***************************************************************************)
THEOREM StateFollows == Spec => []Followed
  <1>1. RuntimeInv => Followed
    <2> SUFFICES ASSUME RuntimeInv, Quiet, Up, AirPlayOnly, ~raop.late
                 PROVE  /\ raop.video => receiver.state =
                            CASE raop.started -> "VIDEO_ACTIVE"
                              [] raop.player /\ ~raop.started -> "VIDEO_STARTING"
                              [] ~raop.player /\ raop.surface -> "VIDEO_REQUESTED"
                              [] OTHER -> receiver.state
                        /\ raop.video /\ ~raop.player =>
                             receiver.state \in {"VIDEO_REQUESTED", "WAITING_FOR_SURFACE"}
                        /\ raop.audio /\ ~raop.video => receiver.state = "AUDIO_ACTIVE"
                        /\ ~Session /\ live = {} =>
                             receiver.state \in {"IDLE_ADVERTISING", "AUDIO_ACTIVE"}
      BY DEF Followed
    <2>1. receiver.state \in Expected
      BY SettledNow DEF RuntimeInv, SettleInv, Quiet
    <2>2. /\ raop \in Raops
          /\ raop.started => raop.player
      BY DEF RuntimeInv, BaseInv, RuntimeTypeOK, MediaInv, Raops
    <2>3. ~audioFirst /\ mirror # "VIDEO_REQUESTED"
      BY DEF Quiet
    <2>4. raop.video => receiver.state =
            CASE raop.started -> "VIDEO_ACTIVE"
              [] raop.player /\ ~raop.started -> "VIDEO_STARTING"
              [] ~raop.player /\ raop.surface -> "VIDEO_REQUESTED"
              [] OTHER -> receiver.state
      <3>1. CASE raop.started
        BY <3>1, <2>1, <2>2, <2>3 DEF Expected
      <3>2. CASE ~raop.started /\ raop.player
        BY <3>2, <2>1, <2>2, <2>3 DEF Expected
      <3>3. CASE ~raop.started /\ ~raop.player /\ raop.surface
        BY <3>3, <2>1, <2>2, <2>3 DEF Expected
      <3>4. CASE ~raop.started /\ ~raop.player /\ ~raop.surface
        BY <3>4, <2>1, <2>2, <2>3 DEF Expected
      <3> QED BY <3>1, <3>2, <3>3, <3>4
    <2> QED BY <2>1, <2>2, <2>3, <2>4 DEF Expected, Session
  <1> QED BY <1>1, RuntimeInitInv, RuntimeStep, PTL DEF Spec

(***************************************************************************)
(* The renderer (DlnaRenderer)                                             *)
(***************************************************************************)
Live == {"preparing", "ready", "ended", "failed"}

(* The current players are of their kind and not released. *)
CurrentInv ==
    /\ player # 0 => ~object[player].exo /\ Alive(player)
    /\ exoPlayer # 0 => object[exoPlayer].exo /\ Alive(exoPlayer)

Releases(i, p) == exoQueue[i].do = "release" /\ exoQueue[i].player = p

(* A release in the queue is of an ExoPlayer that is not the current one, *)
(* that was not released, and that has no second release in the queue.     *)
QueueInv ==
    /\ \A i \in DOMAIN exoQueue, p \in Players :
         Releases(i, p) => p # exoPlayer /\ object[p].exo /\ Alive(p)
    /\ \A i, j \in DOMAIN exoQueue, p \in Players :
         Releases(i, p) /\ Releases(j, p) => i = j

(* A retry that has passed its check holds the thread: its player is an    *)
(* ExoPlayer that no release could reach since.                            *)
RetryInv == retrying # 0 => object[retrying].exo /\ Alive(retrying)

IInv == RendererTypeOK /\ CurrentInv /\ QueueInv /\ OneMediaPlayer /\ RetryInv

(* Who was let go is not started in this step, but by a retry under way. *)
StaysDown == \A p \in Players : LetGo(p) => StartsNoMore(p)

(* Who was let go has a release in the queue or is released. *)
LEMMA LetGoMeans ==
  ASSUME IInv, NEW p \in Players, LetGo(p)
  PROVE  object[p].state = "released" \/ \E i \in DOMAIN exoQueue : Releases(i, p)
  <1> DEFINE S == {i \in DOMAIN exoQueue : exoQueue[i] = Release(p)}
  <1>1. CASE S = {}
    BY <1>1, FS_EmptySet DEF LetGo, QueuedReleases
  <1>2. CASE S # {}
    BY <1>2 DEF Release, Releases
  <1> QED BY <1>1, <1>2

(* At most one release of a player in the queue, and none of a released one. *)
LEMMA OnceMeans == IInv => ReleasedOnce
  <1> SUFFICES ASSUME IInv, NEW p \in Players
               PROVE  QueuedReleases(p) + (IF object[p].state = "released" THEN 1 ELSE 0) <= 1
    BY DEF ReleasedOnce
  <1> DEFINE S == {i \in DOMAIN exoQueue : exoQueue[i] = Release(p)}
  <1>1. \A i \in S : Releases(i, p)
    BY DEF Release, Releases
  <1>2. \A i, j \in S : i = j
    BY <1>1 DEF IInv, QueueInv
  <1>3. S # {} => object[p].state # "released"
    BY <1>1 DEF IInv, QueueInv, Alive
  <1>4. CASE S = {}
    BY <1>4, FS_EmptySet DEF QueuedReleases
  <1>5. CASE S # {}
    <2>1. PICK i \in S : TRUE
      BY <1>5
    <2>2. S = {i}
      BY <1>2, <2>1
    <2>3. Cardinality(S) = 1
      BY <2>2, FS_Singleton
    <2> QED BY <1>3, <1>5, <2>3 DEF QueuedReleases
  <1> QED BY <1>4, <1>5

(***************************************************************************)
(* What a step may do to the players, one lemma for each.                  *)
(***************************************************************************)
(* Nothing. *)
LEMMA IdleStep ==
  ASSUME IInv, UNCHANGED <<player, exoPlayer, object, exoQueue, retrying>>,
         exoGeneration' \in Nat, building' \in Nat,
         delayed' \subseteq {r \in Jobs : r.do = "retry" /\ r.player \in Players}
  PROVE  IInv' /\ StaysDown
  <1>1. RendererTypeOK'
    BY DEF IInv, RendererTypeOK
  <1>2. CurrentInv' /\ QueueInv' /\ OneMediaPlayer' /\ RetryInv'
    BY DEF IInv, CurrentInv, QueueInv, OneMediaPlayer, RetryInv, Alive, Releases
  <1> QED BY <1>1, <1>2 DEF IInv, StaysDown, StartsNoMore

(* One player that is alive goes to another state, and stays alive. *)
LEMMA MoveStep ==
  ASSUME IInv, NEW p \in Players, NEW s \in Live, Alive(p), object' = Enter(p, s),
         object[p].exo \/ object[p].state # "abandoned",
         s = "preparing" => retrying = p, retrying' \in {0, retrying},
         UNCHANGED <<player, exoPlayer, exoQueue, exoGeneration, building>>,
         delayed' \subseteq {r \in Jobs : r.do = "retry" /\ r.player \in Players}
  PROVE  IInv' /\ StaysDown
  <1>1. /\ object' \in [Players -> Objects]
        /\ object'[p].state = s /\ object'[p].exo = object[p].exo
        /\ \A q \in Players \ {p} : object'[q] = object[q]
    BY DEF IInv, RendererTypeOK, Enter, Objects, Live
  <1>2. \A q \in Players : Alive(q)' <=> Alive(q)
    BY <1>1 DEF Alive, Live
  <1>3. \A q \in Players : object'[q].exo = object[q].exo
    BY <1>1
  <1>4. RendererTypeOK'
    BY <1>1 DEF IInv, RendererTypeOK
  <1>5. CurrentInv' /\ QueueInv' /\ RetryInv'
    BY <1>2, <1>3 DEF IInv, RendererTypeOK, CurrentInv, QueueInv, RetryInv, Releases
  <1>6. OneMediaPlayer'
    BY <1>1, <1>2, <1>3 DEF IInv, OneMediaPlayer
  <1>7. StaysDown
    <2>1. 0 \notin Players
      BY DEF Players
    <2> QED BY <1>1, <2>1 DEF StaysDown, StartsNoMore, Alive
  <1> QED BY <1>4, <1>5, <1>6, <1>7 DEF IInv

(* The thread of the ExoPlayers takes a job and does nothing with players. *)
LEMMA TailStep ==
  ASSUME IInv, exoQueue # <<>>, exoQueue' = Tail(exoQueue), building' \in Nat,
         retrying' \in {0, retrying, exoPlayer},
         UNCHANGED <<player, exoPlayer, object, exoGeneration, delayed>>
  PROVE  IInv' /\ StaysDown
  <1>1. /\ exoQueue' \in Seq(Jobs)
        /\ \A i \in DOMAIN exoQueue' : i + 1 \in DOMAIN exoQueue /\ exoQueue'[i] = exoQueue[i + 1]
    BY DEF IInv, RendererTypeOK
  <1>2. RendererTypeOK'
    BY <1>1 DEF IInv, RendererTypeOK
  <1>3. QueueInv'
    <2>1. \A i \in DOMAIN exoQueue', p \in Players :
            Releases(i, p)' => i + 1 \in DOMAIN exoQueue /\ Releases(i + 1, p)
      BY <1>1 DEF Releases
    <2>2. \A i, j \in DOMAIN exoQueue' : i \in Int /\ j \in Int
      BY <1>1
    <2> QED BY <2>1, <2>2 DEF IInv, QueueInv, Alive
  <1>4. CurrentInv' /\ OneMediaPlayer' /\ RetryInv'
    BY DEF IInv, CurrentInv, OneMediaPlayer, RetryInv, Alive
  <1>5. StaysDown
    <2>1. \A p \in Players : p = exoPlayer => ~LetGo(p)
      BY LetGoMeans, 0 \notin Players DEF IInv, CurrentInv, QueueInv, Alive, Players
    <2>2. 0 \notin Players
      BY DEF Players
    <2> QED BY <2>1, <2>2 DEF StaysDown, StartsNoMore
  <1> QED BY <1>2, <1>3, <1>4, <1>5 DEF IInv

(* A retry whose delay is over takes its place. *)
LEMMA DelayStep ==
  ASSUME IInv, NEW r \in Jobs, r.do = "retry", r.player \in Players, exoQueue' = Append(exoQueue, r),
         UNCHANGED <<player, exoPlayer, object, exoGeneration, building, retrying>>,
         delayed' \subseteq delayed
  PROVE  IInv' /\ StaysDown
  <1>1. /\ exoQueue' \in Seq(Jobs)
        /\ \A i \in DOMAIN exoQueue' :
              \/ i \in DOMAIN exoQueue /\ exoQueue'[i] = exoQueue[i]
              \/ exoQueue'[i] = r
    BY DEF IInv, RendererTypeOK
  <1>2. RendererTypeOK'
    BY <1>1 DEF IInv, RendererTypeOK
  <1>3. QueueInv'
    <2>1. \A i \in DOMAIN exoQueue', p \in Players :
            Releases(i, p)' => i \in DOMAIN exoQueue /\ Releases(i, p)
      BY <1>1 DEF Releases
    <2> QED BY <2>1 DEF IInv, QueueInv, Alive
  <1>4. CurrentInv' /\ OneMediaPlayer' /\ RetryInv'
    BY DEF IInv, CurrentInv, OneMediaPlayer, RetryInv, Alive
  <1> QED BY <1>2, <1>3, <1>4 DEF IInv, StaysDown, StartsNoMore

(* A release runs. *)
LEMMA ReleaseStep ==
  ASSUME IInv, ReleaseRuns
  PROVE  IInv' /\ StaysDown
  <1> DEFINE p == exoQueue[1].player
  <1>1. /\ exoQueue # <<>> /\ exoQueue[1].do = "release" /\ exoQueue' = Tail(exoQueue)
        /\ object' = Enter(p, "released")
        /\ retrying = 0
        /\ UNCHANGED <<player, exoPlayer, exoGeneration, building, retrying, delayed>>
    BY DEF ReleaseRuns, NextIs, ExoIdle, threadVars, stateVars, IInv, RendererTypeOK
  <1>2. 1 \in DOMAIN exoQueue
    BY <1>1 DEF IInv, RendererTypeOK
  <1>3. p \in Players
    BY <1>1, <1>2 DEF IInv, RendererTypeOK
  <1> HIDE DEF p
  <1>4. Releases(1, p)
    BY <1>1 DEF Releases, p
  <1>5. p # exoPlayer /\ object[p].exo /\ Alive(p)
    BY <1>2, <1>3, <1>4 DEF IInv, QueueInv
  <1>6. /\ object' \in [Players -> Objects]
        /\ object'[p].state = "released" /\ object'[p].exo = object[p].exo
        /\ \A q \in Players \ {p} : object'[q] = object[q]
    BY <1>1, <1>3 DEF IInv, RendererTypeOK, Enter, Objects
  <1>7. /\ exoQueue' \in Seq(Jobs)
        /\ \A i \in DOMAIN exoQueue' : i \in Nat /\ i > 0 /\ i + 1 \in DOMAIN exoQueue /\ exoQueue'[i] = exoQueue[i + 1]
    BY <1>1 DEF IInv, RendererTypeOK
  <1>8. RendererTypeOK'
    BY <1>1, <1>6, <1>7 DEF IInv, RendererTypeOK
  <1>9. QueueInv'
    <2>1. \A i \in DOMAIN exoQueue', q \in Players :
            Releases(i, q)' => i + 1 \in DOMAIN exoQueue /\ Releases(i + 1, q) /\ q # p
      <3>1. \A i \in DOMAIN exoQueue', q \in Players :
              Releases(i, q)' => i + 1 \in DOMAIN exoQueue /\ Releases(i + 1, q)
        BY <1>7 DEF Releases
      <3>2. \A i \in DOMAIN exoQueue' : i + 1 # 1
        BY <1>7
      <3> QED BY <3>1, <3>2, <1>2, <1>3, <1>4 DEF IInv, QueueInv
    <2>2. \A i, j \in DOMAIN exoQueue' : i \in Nat /\ j \in Nat
      BY <1>7
    <2>3. \A q \in Players \ {p} : Alive(q)' <=> Alive(q)
      BY <1>6 DEF Alive
    <2> QED BY <1>1, <1>6, <2>1, <2>2, <2>3 DEF IInv, QueueInv
  <1>10. CurrentInv' /\ OneMediaPlayer' /\ RetryInv'
    BY <1>1, <1>3, <1>5, <1>6 DEF IInv, RendererTypeOK, CurrentInv, OneMediaPlayer, RetryInv, Alive
  <1>11. StaysDown
    BY <1>1, <1>6 DEF StaysDown, StartsNoMore
  <1> QED BY <1>8, <1>9, <1>10, <1>11 DEF IInv

(***************************************************************************)
(* releasePlayer: both current players are let go.                         *)
(***************************************************************************)
LEMMA LetGoStep ==
  ASSUME IInv, NEW more \in {<<>>, <<Create(exoGeneration + 1)>>}, releasePlayer(more),
         object' = Released, player' = 0, building' \in Nat,
         retrying' = retrying, delayed' \subseteq delayed
  PROVE  IInv' /\ StaysDown
  <1> DEFINE n == Len(exoQueue)
  <1>1. /\ exoGeneration' = exoGeneration + 1 /\ exoPlayer' = 0
        /\ exoQueue' = exoQueue \o ReleaseExo \o more
    BY DEF releasePlayer
  <1>2. /\ exoQueue' \in Seq(Jobs)
        /\ \A i \in DOMAIN exoQueue' :
             \/ i \in DOMAIN exoQueue /\ exoQueue'[i] = exoQueue[i]
             \/ i = n + 1 /\ exoPlayer # 0 /\ exoQueue'[i] = Release(exoPlayer)
             \/ exoQueue'[i] = Create(exoGeneration + 1)
    <2>1. Create(exoGeneration + 1) \in Jobs /\ exoQueue \in Seq(Jobs)
      BY DEF IInv, RendererTypeOK, Create, Jobs
    <2>2. exoPlayer # 0 => Release(exoPlayer) \in Jobs
      BY DEF IInv, RendererTypeOK, Release, Jobs
    <2> DEFINE first == exoQueue \o ReleaseExo
               c == Create(exoGeneration + 1)
               d == Release(exoPlayer)
    <2>3. c \in Jobs /\ (exoPlayer # 0 => d \in Jobs) /\ more \in {<<>>, <<c>>}
          /\ ReleaseExo = IF exoPlayer = 0 THEN <<>> ELSE <<d>>
      BY <2>1, <2>2 DEF ReleaseExo
    <2> HIDE DEF c, d
    <2>4. /\ ReleaseExo \in Seq(Jobs) /\ more \in Seq(Jobs)
          /\ \A i \in DOMAIN ReleaseExo : i = 1 /\ exoPlayer # 0 /\ ReleaseExo[i] = d
          /\ \A i \in DOMAIN more : more[i] = c
      <3>1. <<>> \in Seq(Jobs) /\ DOMAIN <<>> = {}
        OBVIOUS
      <3>2. \A j \in Jobs : /\ <<j>> \in Seq(Jobs)
                            /\ \A i \in DOMAIN <<j>> : i = 1 /\ <<j>>[i] = j
        OBVIOUS
      <3>3. /\ ReleaseExo \in Seq(Jobs)
            /\ \A i \in DOMAIN ReleaseExo : i = 1 /\ exoPlayer # 0 /\ ReleaseExo[i] = d
        BY <2>3, <3>1, <3>2, Zenon
      <3>4. more \in Seq(Jobs) /\ \A i \in DOMAIN more : more[i] = c
        <4>1. CASE more = <<>>
          BY <3>1, <4>1, Zenon
        <4>2. CASE more = <<c>>
          BY <2>3, <3>2, <4>2, Zenon
        <4> QED BY <2>3, <4>1, <4>2
      <3> QED BY <3>3, <3>4
    <2>5. /\ first \in Seq(Jobs)
          /\ \A i \in DOMAIN first :
               \/ i \in DOMAIN exoQueue /\ first[i] = exoQueue[i]
               \/ i = n + 1 /\ exoPlayer # 0 /\ first[i] = d
      BY <2>1, <2>4, ConcatProperties
    <2> HIDE DEF first
    <2>6. /\ exoQueue' \in Seq(Jobs)
          /\ \A i \in DOMAIN exoQueue' :
               \/ i \in DOMAIN first /\ exoQueue'[i] = first[i]
               \/ exoQueue'[i] = c
      <3>1. exoQueue' = first \o more
        BY <1>1 DEF first
      <3> QED BY <2>4, <2>5, <3>1, ConcatProperties
    <2> QED BY <2>5, <2>6 DEF c, d
  <1>3. /\ object' \in [Players -> Objects]
        /\ \A p \in Players : p # player => object'[p] = object[p]
        /\ \A p \in Players : object'[p].exo = object[p].exo
        /\ player # 0 => object'[player].state = "released"
    BY DEF IInv, RendererTypeOK, Released, Enter, Objects
  <1>4. \A p \in Players : p = player => ~Alive(p)' /\ ~object[p].exo
    <2>1. 0 \notin Players
      BY DEF Players
    <2> QED BY <1>3, <2>1 DEF Alive, IInv, CurrentInv
  <1>5. \A p \in Players : p # player => (Alive(p)' <=> Alive(p))
    BY <1>3 DEF Alive
  <1>6. RendererTypeOK'
    <2>1. \A i \in DOMAIN exoQueue' : exoQueue'[i].do # "create" => exoQueue'[i].player \in Players
      BY <1>2 DEF IInv, RendererTypeOK, Release, Create
    <2> QED BY <1>1, <1>2, <1>3, <2>1 DEF IInv, RendererTypeOK
  <1>7. QueueInv'
    <2>1. \A i \in DOMAIN exoQueue', p \in Players : Releases(i, p)' =>
            \/ i \in DOMAIN exoQueue /\ Releases(i, p)
            \/ i = n + 1 /\ exoPlayer # 0 /\ p = exoPlayer
      BY <1>2 DEF Releases, Release, Create
    <2>2. \A i \in DOMAIN exoQueue', p \in Players :
            Releases(i, p)' => p # exoPlayer' /\ object'[p].exo /\ Alive(p)'
      BY <1>1, <1>3, <1>4, <1>5, <2>1 DEF IInv, RendererTypeOK, QueueInv, CurrentInv, Players
    <2>3. \A i, j \in DOMAIN exoQueue', p \in Players :
            Releases(i, p)' /\ Releases(j, p)' => i = j
      BY <2>1 DEF IInv, QueueInv
    <2> QED BY <2>2, <2>3 DEF QueueInv
  <1>8. \A p \in Players : Alive(p)' => object'[p].exo \/ object'[p].state = "abandoned"
    BY <1>3, <1>4, <1>5 DEF IInv, OneMediaPlayer
  <1>9. CurrentInv' /\ OneMediaPlayer'
    BY <1>1, <1>8 DEF CurrentInv, OneMediaPlayer
  <1>10. RetryInv'
    BY <1>3, <1>4, <1>5 DEF IInv, RendererTypeOK, RetryInv
  <1>11. StaysDown
    <2>1. \A p \in Players : p = player => object'[p].state = "released"
      BY <1>3, 0 \notin Players DEF Players
    <2> QED BY <1>3, <2>1 DEF StaysDown, StartsNoMore
  <1> QED BY <1>6, <1>7, <1>9, <1>10, <1>11 DEF IInv

(* playWithExoPlayer, from play or from the fallback of a failed player. *)
LEMMA WithExoStep ==
  ASSUME IInv, playWithExoPlayer, UNCHANGED <<building, retrying, delayed>>
  PROVE  IInv' /\ StaysDown
  <1>1. CASE exoPlayer # 0 /\ transportState = "PAUSED_PLAYBACK"
    BY <1>1, IdleStep DEF playWithExoPlayer, playerVars, IInv, RendererTypeOK
  <1>2. CASE ~(exoPlayer # 0 /\ transportState = "PAUSED_PLAYBACK")
    <2>1. /\ releasePlayer(<<Create(exoGeneration + 1)>>)
          /\ object' = Released /\ player' = 0
      BY <1>2 DEF playWithExoPlayer
    <2> QED BY <2>1, LetGoStep DEF IInv, RendererTypeOK
  <1> QED BY <1>1, <1>2

(***************************************************************************)
(* play makes a MediaPlayer in place of the players that were there.  The  *)
(* step is LetGoStep with one player more, so what holds after LetGoStep   *)
(* is shown first, of the objects without the new player.                  *)
(***************************************************************************)
LEMMA MakeStep ==
  ASSUME IInv, MakeSystem, Fresh # {}, UNCHANGED <<building, retrying, delayed>>
  PROVE  IInv' /\ StaysDown
  <1>1. releasePlayer(<<>>)
    BY DEF MakeSystem, MakeFrom
  <1>2. PICK made \in {"preparing", "abandoned"} :
          /\ object' = [Released EXCEPT ![NewPlayer] =
                         [state |-> made, exo |-> FALSE, generation |-> 0]]
          /\ player' = IF made = "preparing" THEN NewPlayer ELSE 0
    BY DEF MakeSystem, MakeFrom
  <1> DEFINE p == NewPlayer
  <1>3. p \in Players /\ object[p].state = "none"
    BY DEF NewPlayer, Fresh
  <1> HIDE DEF p
  <1>4. /\ exoGeneration' = exoGeneration + 1 /\ exoPlayer' = 0
        /\ exoQueue' = exoQueue \o ReleaseExo \o <<>>
    BY <1>1 DEF releasePlayer
  <1>5. /\ exoQueue' \in Seq(Jobs)
        /\ \A i \in DOMAIN exoQueue' :
             \/ i \in DOMAIN exoQueue /\ exoQueue'[i] = exoQueue[i]
             \/ i = Len(exoQueue) + 1 /\ exoPlayer # 0 /\ exoQueue'[i] = Release(exoPlayer)
    <2>1. exoQueue \in Seq(Jobs) /\ (exoPlayer # 0 => Release(exoPlayer) \in Jobs)
      BY DEF IInv, RendererTypeOK, Release, Jobs
    <2> DEFINE d == Release(exoPlayer)
    <2>2. exoQueue' = IF exoPlayer = 0 THEN exoQueue ELSE Append(exoQueue, d)
      <3> HIDE DEF d
      <3>1. ReleaseExo = IF exoPlayer = 0 THEN <<>> ELSE <<d>>
        BY DEF ReleaseExo, d
      <3>2. exoPlayer # 0 => d \in Jobs
        BY <2>1 DEF d
      <3> QED BY <1>4, <2>1, <3>1, <3>2
    <2> HIDE DEF d
    <2> QED BY <2>1, <2>2 DEF d
  <1>6. /\ object' \in [Players -> Objects]
        /\ object'[p].state = made /\ ~object'[p].exo
        /\ \A q \in Players \ {p} : object'[q].exo = object[q].exo
        /\ \A q \in Players \ {p} : q # player => object'[q] = object[q]
        /\ \A q \in Players \ {p} : q = player => object'[q].state = "released"
    <2>1. player # 0 => player \in Players
      BY DEF IInv, RendererTypeOK
    <2>2. 0 \notin Players
      BY DEF Players
    <2>3. object' = [Released EXCEPT ![p] =
                       [state |-> made, exo |-> FALSE, generation |-> 0]]
      BY <1>2 DEF p
    <2> QED BY <1>3, <2>1, <2>2, <2>3 DEF IInv, RendererTypeOK, Released, Enter, Objects, Live
  <1>7. p # player /\ p # exoPlayer
    BY <1>3, 0 \notin Players DEF IInv, CurrentInv, Alive, Players
  <1>8. \A i \in DOMAIN exoQueue, q \in Players : Releases(i, q) => q # p
    BY <1>3 DEF IInv, QueueInv, Alive
  <1>9. \A q \in Players \ {p} : object[q].exo => q # player
    BY 0 \notin Players DEF IInv, CurrentInv, RendererTypeOK, Players
  <1>10. RendererTypeOK'
    <2>1. \A i \in DOMAIN exoQueue' :
            exoQueue'[i].do # "create" => exoQueue'[i].player \in Players
      BY <1>5 DEF IInv, RendererTypeOK, Release
    <2> QED BY <1>2, <1>3, <1>4, <1>5, <1>6, <2>1 DEF IInv, RendererTypeOK, p
  <1>11. QueueInv'
    <2>1. \A i \in DOMAIN exoQueue', q \in Players : Releases(i, q)' =>
            \/ i \in DOMAIN exoQueue /\ Releases(i, q)
            \/ i = Len(exoQueue) + 1 /\ exoPlayer # 0 /\ q = exoPlayer
      BY <1>5 DEF Releases, Release
    <2>2. \A i \in DOMAIN exoQueue', q \in Players : Releases(i, q)' =>
            q # 0 /\ q # p /\ object[q].exo /\ Alive(q)
      BY <1>7, <1>8, <2>1 DEF IInv, QueueInv, CurrentInv, Players
    <2>3. \A i \in DOMAIN exoQueue', q \in Players : Releases(i, q)' =>
            q # exoPlayer' /\ object'[q].exo /\ Alive(q)'
      BY <1>4, <1>6, <1>9, <2>2 DEF Alive
    <2>4. \A i, j \in DOMAIN exoQueue', q \in Players :
            Releases(i, q)' /\ Releases(j, q)' => i = j
      BY <2>1 DEF IInv, QueueInv
    <2> QED BY <2>3, <2>4 DEF QueueInv
  <1>12. OneMediaPlayer'
    <2>1. \A q \in Players \ {p} :
            Alive(q)' => object'[q].exo \/ object'[q].state = "abandoned"
      BY <1>6 DEF IInv, OneMediaPlayer, Alive
    <2>2. p = player' \/ object'[p].state = "abandoned"
      BY <1>2, <1>6 DEF p
    <2> QED BY <2>1, <2>2 DEF OneMediaPlayer
  <1>13. CurrentInv'
    BY <1>2, <1>3, <1>4, <1>6 DEF CurrentInv, Alive, p
  <1>14. RetryInv'
    <2>1. retrying # p /\ (retrying # 0 => retrying # player /\ retrying \in Players)
      BY <1>3, 0 \notin Players DEF IInv, RendererTypeOK, CurrentInv, RetryInv, Alive, Players
    <2> QED BY <1>6, <2>1 DEF IInv, RetryInv, Alive
  <1>15. StaysDown
    <2>1. ~LetGo(p)
      BY <1>3, <1>8, LetGoMeans
    <2>2. \A q \in Players \ {p} :
            object'[q].state = "preparing" => object[q].state = "preparing"
      BY <1>6
    <2> QED BY <2>1, <2>2 DEF StaysDown, StartsNoMore
  <1> QED BY <1>10, <1>11, <1>12, <1>13, <1>14, <1>15 DEF IInv

(* The ExoPlayer thread has built a player: it becomes the current one. *)
LEMMA BuiltStep ==
  ASSUME IInv, Built
  PROVE  IInv' /\ StaysDown
  <1> DEFINE p == NewPlayer
  <1>1. p \in Players /\ object[p].state = "none"
    BY DEF NewPlayer, Fresh, Built
  <1>2. /\ exoPlayer' \in {0, p} /\ building' = 0
        /\ object' = [object EXCEPT ![p] =
                        [state |-> "preparing", exo |-> TRUE, generation |-> building]]
        /\ UNCHANGED <<player, exoGeneration, exoQueue, retrying, delayed>>
    BY DEF Built
  <1> HIDE DEF p
  <1>3. /\ object' \in [Players -> Objects]
        /\ object'[p].state = "preparing" /\ object'[p].exo
        /\ \A q \in Players \ {p} : object'[q] = object[q]
    BY <1>1, <1>2 DEF IInv, RendererTypeOK, Objects, Live
  <1>4. p # player /\ p # 0
    BY <1>1, 0 \notin Players DEF IInv, CurrentInv, Alive, Players
  <1>5. \A i \in DOMAIN exoQueue, q \in Players : Releases(i, q) => q # p
    BY <1>1 DEF IInv, QueueInv, Alive
  <1>6. RendererTypeOK'
    BY <1>1, <1>2, <1>3 DEF IInv, RendererTypeOK
  <1>7. QueueInv'
    BY <1>2, <1>3, <1>5, 0 \notin Players DEF IInv, QueueInv, Releases, Alive, Players
  <1>8. CurrentInv' /\ OneMediaPlayer'
    BY <1>1, <1>2, <1>3, <1>4 DEF IInv, RendererTypeOK, CurrentInv, OneMediaPlayer, Alive
  <1>9. RetryInv'
    BY <1>1, <1>2, <1>3, 0 \notin Players DEF IInv, RendererTypeOK, RetryInv, Alive, Players
  <1>10. StaysDown
    <2>1. ~LetGo(p)
      BY <1>1, <1>5, LetGoMeans
    <2> QED BY <1>2, <1>3, <2>1 DEF StaysDown, StartsNoMore
  <1> QED BY <1>6, <1>7, <1>8, <1>9, <1>10 DEF IInv

(* A retry asks for its player, and starts it. *)
LEMMA RetryStep ==
  ASSUME IInv, RetryRuns \/ RetryPrepares
  PROVE  IInv' /\ StaysDown
  <1>1. CASE RetryRuns
    <2>1. /\ exoQueue # <<>> /\ exoQueue' = Tail(exoQueue)
          /\ retrying' = IF Head(exoQueue).generation = exoGeneration
                             /\ Head(exoQueue).player = exoPlayer
                           THEN Head(exoQueue).player ELSE 0
          /\ UNCHANGED <<playerVars, building, delayed>>
      BY <1>1 DEF RetryRuns, RetryIf, NextIs
    <2>2. retrying' \in {0, retrying, exoPlayer}
      BY <2>1
    <2>3. building' \in Nat
      BY <2>1 DEF IInv, RendererTypeOK
    <2> QED BY <2>1, <2>2, <2>3, TailStep DEF playerVars
  <1>2. CASE RetryPrepares
    <2>1. /\ retrying # 0 /\ retrying' = 0 /\ object' = Enter(retrying, "preparing")
          /\ UNCHANGED <<player, exoPlayer, exoQueue, exoGeneration, building, delayed>>
      BY <1>2 DEF RetryPrepares
    <2>2. retrying \in Players /\ object[retrying].exo /\ Alive(retrying)
      BY <2>1 DEF IInv, RendererTypeOK, RetryInv
    <2> QED BY <2>1, <2>2, MoveStep DEF Live, IInv, RendererTypeOK
  <1> QED BY <1>1, <1>2

(* What a MediaPlayer calls, and what the listener of an ExoPlayer hears. *)
LEMMA EventStep ==
  ASSUME IInv, CallBack \/ Events
  PROVE  IInv' /\ StaysDown
  <1>1. CASE CallBack
    <2>1. PICK p \in Players, event \in {"prepared", "completion", "error"} :
            /\ Alive(p) /\ object[p].state # "abandoned"
            /\ object' = Enter(p, CASE event = "prepared" -> "ready"
                                    [] event = "completion" -> "ended"
                                    [] event = "error" -> "failed")
      BY <1>1 DEF CallBack
    <2>2. PICK s \in {"ready", "ended", "failed"} : object' = Enter(p, s)
      BY <2>1
    <2>3. UNCHANGED <<player, exoPlayer, exoQueue, exoGeneration, building, retrying, delayed>>
      BY <1>1 DEF CallBack
    <2> QED BY <2>1, <2>2, <2>3, MoveStep DEF Live, IInv, RendererTypeOK
  <1>2. CASE Events
    <2>1. PICK p \in Players : Buffering(p) \/ ReadyState(p) \/ EndedState(p) \/ PlayerError(p)
      BY <1>2 DEF Events
    <2>2. PICK s \in {"ready", "ended", "failed"} :
            object' = Enter(p, s) /\ object[p].state \in {"preparing", "ready"}
      BY <2>1 DEF Buffering, ReadyState, EndedState, PlayerError, Listener
    <2>3. UNCHANGED <<player, exoPlayer, exoQueue, exoGeneration, building, retrying>>
      BY <2>1 DEF Buffering, ReadyState, EndedState, PlayerError, Listener
    <2>4. delayed' \subseteq delayed \cup {Retry(object[p].generation, p)}
      BY <2>1 DEF Buffering, ReadyState, EndedState, PlayerError
    <2>5. Retry(object[p].generation, p) \in {r \in Jobs : r.do = "retry" /\ r.player \in Players}
      BY DEF Retry, Jobs, IInv, RendererTypeOK, Objects
    <2>6. delayed' \subseteq {r \in Jobs : r.do = "retry" /\ r.player \in Players}
      BY <2>4, <2>5 DEF IInv, RendererTypeOK
    <2>7. Alive(p)
      BY <2>2 DEF Alive
    <2> QED BY <2>2, <2>3, <2>6, <2>7, MoveStep DEF Live
  <1> QED BY <1>1, <1>2

(***************************************************************************)
(* Every step.                                                             *)
(***************************************************************************)
LEMMA NextStep ==
  ASSUME IInv, RendererNext
  PROVE  IInv' /\ StaysDown
  <1> USE DEF requestVars, playerVars, threadVars, stateVars, Request
  <1>1. CASE SetAVTransportURI \/ togglePlayback \/ Pause \/ PauseReports \/ seek
             \/ Prepared \/ Completion \/ Error
    <2>1. UNCHANGED <<playerVars, exoQueue, building, retrying, delayed>>
      BY <1>1 DEF SetAVTransportURI, togglePlayback, Pause, PauseReports, seek, Prepared,
         Completion, Error
    <2> QED BY <2>1, IdleStep DEF IInv, RendererTypeOK
  <1>2. CASE play
    <2>1. UNCHANGED <<building, retrying, delayed>> /\ Fresh # {}
      BY <1>2 DEF play
    <2>2. CASE playWithExoPlayer
      BY <2>1, <2>2, WithExoStep
    <2>3. CASE ResumeSystem
      BY <2>1, <2>3, IdleStep DEF ResumeSystem, IInv, RendererTypeOK
    <2>4. CASE MakeSystem
      BY <2>1, <2>4, MakeStep
    <2> QED BY <1>2, <2>2, <2>3, <2>4 DEF play
  <1>3. CASE stopPlayback \/ stop
    <2>1. /\ releasePlayer(<<>>) /\ object' = Released /\ player' = 0
          /\ UNCHANGED <<building, retrying, delayed>>
      BY <1>3 DEF stopPlayback, stop
    <2> QED BY <2>1, LetGoStep DEF IInv, RendererTypeOK
  <1>4. CASE Fallback
    BY <1>4, WithExoStep DEF Fallback
  <1>5. CASE CallBack \/ Events
    BY <1>5, EventStep
  <1>6. CASE BeginBuild
    <2>1. building' \in Nat /\ retrying' \in {0, retrying, exoPlayer}
      BY <1>6 DEF BeginBuild, IInv, RendererTypeOK
    <2> QED BY <1>6, <2>1, TailStep DEF BeginBuild, NextIs
  <1>7. CASE Built \/ ReleaseRuns \/ RetryRuns \/ RetryPrepares
    BY <1>7, BuiltStep, ReleaseStep, RetryStep
  <1>8. CASE DelayOver
    <2>1. PICK r \in delayed : delayed' = delayed \ {r} /\ exoQueue' = Append(exoQueue, r)
      BY <1>8 DEF DelayOver
    <2>2. r \in Jobs /\ r.do = "retry" /\ r.player \in Players
      BY DEF IInv, RendererTypeOK
    <2>3. UNCHANGED <<playerVars, building, retrying>> /\ delayed' \subseteq delayed
      BY <1>8, <2>1 DEF DelayOver
    <2> QED BY <2>1, <2>2, <2>3, DelayStep
  <1> QED BY <1>1, <1>2, <1>3, <1>4, <1>5, <1>6, <1>7, <1>8 DEF RendererNext, Requests, System, Exo

LEMMA StutterStep ==
  ASSUME IInv, UNCHANGED rendererVars
  PROVE  IInv'
  BY IdleStep DEF rendererVars, playerVars, threadVars, IInv, RendererTypeOK

LEMMA InitInv == RendererInit => IInv
  <1> SUFFICES ASSUME RendererInit PROVE IInv
    OBVIOUS
  <1>1. RendererTypeOK
    BY DEF RendererInit, RendererTypeOK, Objects
  <1>2. CurrentInv /\ QueueInv /\ OneMediaPlayer /\ RetryInv
    BY DEF RendererInit, CurrentInv, QueueInv, OneMediaPlayer, RetryInv, Alive
  <1> QED BY <1>1, <1>2 DEF IInv

(***************************************************************************)
(* For any number of players, requests and retries: however Play, Stop,    *)
(* the end of the service and the fallback of a failed player follow each  *)
(* other, a MediaPlayer that is not released is the current one (:331-366) *)
(* or the one whose setDataSource or prepareAsync threw (:364-365), which  *)
(* the code forgets, and an ExoPlayer is released at most once (:421 of    *)
(* DlnaMediaRenderer.kt).                                                  *)
(***************************************************************************)
THEOREM PlayersKept == RendererSpec => []PlayersInv
  <1>1. IInv => PlayersInv
    BY OnceMeans DEF IInv, PlayersInv
  <1>2. RendererInit => IInv
    BY InitInv
  <1>3. IInv /\ [RendererNext]_rendererVars => IInv'
    BY NextStep, StutterStep
  <1> QED BY <1>1, <1>2, <1>3, PTL DEF RendererSpec

(***************************************************************************)
(* No retry passes its check (DlnaMediaRenderer.kt:402) for a player whose *)
(* release is queued or done, whatever was requested since it was          *)
(* scheduled.  A retry that had passed it before may still start such a    *)
(* player (:403-404, without the monitor), but never a released one: the   *)
(* release runs on the same thread, after it.                              *)
(***************************************************************************)
THEOREM RetiredStays == RendererSpec => RetiredStaysDown
  <1>1. RendererInit => IInv
    BY InitInv
  <1>2. IInv /\ [RendererNext]_rendererVars => IInv'
    BY NextStep, StutterStep
  <1>3. IInv /\ [RendererNext]_rendererVars =>
          [\A p \in Players : LetGo(p) => StartsNoMore(p)]_rendererVars
    BY NextStep DEF StaysDown
  <1> QED BY <1>1, <1>2, <1>3, PTL DEF RendererSpec, RetiredStaysDown

(***************************************************************************)
(* The controller (AdaptiveQuality)                                        *)
(***************************************************************************)
Votes == {-1, 0, 1}

(* The readings of this vote that evaluate has counted and not used up.     *)
Run(vote) == IF ctl.lastVote = vote THEN ctl.consecutiveVotes ELSE 0

(* The profile may still move the way this vote asks.                       *)
Open(vote) == IF vote = -1 THEN ctl.active # PROFILE_ORDER[1] ELSE ctl.active # ctl.baseline

Controllers ==
    [baseline : Profiles, active : Profiles, lastVote : Votes, consecutiveVotes : Nat,
     healthyReadings : Nat, coolReadings : Nat]

ControllerTypeOK ==
    /\ ctl \in Controllers
    /\ recent \in Seq(Votes) /\ Len(recent) <= VoteThreshold
    /\ choice \in UserChoices /\ session \in Nat

(* What the counters say of each other: votes that reach the threshold are  *)
(* used up at once, since as many healthy and cool readings came with them. *)
CountersInv ==
    /\ profileIndex(ctl.active) <= profileIndex(ctl.baseline)
    /\ ctl.consecutiveVotes < VoteThreshold
    /\ ctl.healthyReadings <= ctl.coolReadings
    /\ ctl.lastVote = 1 => ctl.consecutiveVotes <= ctl.healthyReadings
    /\ ctl.healthyReadings <= VoteThreshold /\ ctl.coolReadings <= VoteThreshold

(* Where the profile may move, the votes counted are exactly the latest      *)
(* readings that agree.  (At the end of the range the count starts over     *)
(* while the readings go on.)                                               *)
RunInv ==
    \A vote \in {-1, 1} : Open(vote) =>
        /\ Run(vote) <= Len(recent)
        /\ \A i \in Len(recent) - Run(vote) + 1 .. Len(recent) : recent[i] = vote
        /\ Run(vote) < Len(recent) => recent[Len(recent) - Run(vote)] # vote

ControllerInv == ControllerTypeOK /\ CountersInv /\ RunInv

(* Profiles and their places in the order correspond. *)
LEMMA ProfilePlaces ==
    /\ \A i \in 1 .. 4 : PROFILE_ORDER[i] \in Profiles /\ profileIndex(PROFILE_ORDER[i]) = i
    /\ \A p \in Profiles : profileIndex(p) \in 1 .. 4 /\ PROFILE_ORDER[profileIndex(p)] = p
  <1>1. DOMAIN PROFILE_ORDER = 1 .. 4
    BY DEF PROFILE_ORDER
  <1>2. \A i, j \in 1 .. 4 : PROFILE_ORDER[i] = PROFILE_ORDER[j] => i = j
    BY DEF PROFILE_ORDER
  <1>3. ASSUME NEW i \in 1 .. 4
        PROVE  PROFILE_ORDER[i] \in Profiles /\ profileIndex(PROFILE_ORDER[i]) = i
    BY <1>1, <1>2, <1>3 DEF Profiles, profileIndex
  <1>4. \A p \in Profiles : \E i \in 1 .. 4 : p = PROFILE_ORDER[i]
    BY <1>1 DEF Profiles
  <1> QED BY <1>3, <1>4

(* The profile of a new controller is one of those that are ordered. *)
LEMMA NormalProfile ==
  ASSUME NEW p \in UserChoices
  PROVE  normalizeProfile(p) \in Profiles
  <1>1. Profiles = {"compatibility", "low_latency", "balanced", "best_quality"}
    BY DEF Profiles, PROFILE_ORDER
  <1> QED BY <1>1, AdaptiveAssumption DEF normalizeProfile

(* The readings kept after one more: the latest, with this one at the end. *)
LEMMA Remembered ==
  ASSUME ControllerTypeOK, NEW vote \in Votes
  PROVE  LET readings == Remember(vote)
         IN  /\ readings \in Seq(Votes)
             /\ Len(readings) = IF Len(recent) < VoteThreshold THEN Len(recent) + 1
                                ELSE VoteThreshold
             /\ readings[Len(readings)] = vote
             /\ \A j \in 1 .. Len(readings) - 1 :
                  readings[Len(readings) - j] = recent[Len(recent) - j + 1]
  <1> DEFINE longer == Append(recent, vote)
  <1>1. /\ longer \in Seq(Votes) /\ Len(longer) = Len(recent) + 1
        /\ longer[Len(recent) + 1] = vote
        /\ \A i \in 1 .. Len(recent) : longer[i] = recent[i]
        /\ VoteThreshold \in Nat \ {0} /\ Len(recent) \in Nat /\ Len(recent) <= VoteThreshold
    BY AdaptiveAssumption DEF ControllerTypeOK
  <1> HIDE DEF longer
  <1>2. CASE Len(recent) < VoteThreshold
    <2>1. Remember(vote) = longer
      BY <1>1, <1>2 DEF Remember, longer
    <2> QED BY <1>1, <1>2, <2>1
  <1>3. CASE Len(recent) >= VoteThreshold
    <2>1. Remember(vote) = Tail(longer)
      BY <1>1, <1>3 DEF Remember, longer
    <2>2. /\ Tail(longer) \in Seq(Votes) /\ Len(Tail(longer)) = Len(recent)
          /\ \A i \in 1 .. Len(recent) : Tail(longer)[i] = longer[i + 1]
      BY <1>1
    <2> QED BY <1>1, <1>3, <2>1, <2>2
  <1>4. Len(recent) < VoteThreshold \/ Len(recent) >= VoteThreshold
    BY <1>1
  <1> QED BY <1>2, <1>3, <1>4

(* The counters of a controller after a reading.                            *)
CountersOf(next) ==
    /\ next \in Controllers /\ next.baseline = ctl.baseline
    /\ profileIndex(next.active) <= profileIndex(next.baseline)
    /\ next.consecutiveVotes < VoteThreshold
    /\ next.healthyReadings <= next.coolReadings
    /\ next.lastVote = 1 => next.consecutiveVotes <= next.healthyReadings
    /\ next.healthyReadings <= VoteThreshold /\ next.coolReadings <= VoteThreshold

(* A vote below the threshold is counted; one that reaches it moves the     *)
(* profile if it may, and the count starts over.                            *)
Advanced(next, vote) ==
    /\ vote = 0 => next.active = ctl.active /\ next.lastVote = 0 /\ next.consecutiveVotes = 0
    /\ vote # 0 /\ Run(vote) + 1 < VoteThreshold =>
         /\ next.active = ctl.active
         /\ next.lastVote = vote /\ next.consecutiveVotes = Run(vote) + 1
    /\ vote # 0 /\ Run(vote) + 1 >= VoteThreshold =>
         /\ next.lastVote = 0 /\ next.consecutiveVotes = 0
         /\ IF Open(vote) THEN profileIndex(next.active) = profileIndex(ctl.active) + vote
            ELSE next.active = ctl.active

(***************************************************************************)
(* evaluate does that, whatever it reads (AdaptiveController.kt:27-69).    *)
(***************************************************************************)
LEMMA Evaluated ==
  ASSUME ControllerTypeOK, CountersInv,
         NEW vote \in Votes, NEW cool \in BOOLEAN, vote = 1 => cool
  PROVE  CountersOf(evaluate(ctl, vote, cool)) /\ Advanced(evaluate(ctl, vote, cool), vote)
  <1> DEFINE read == trackVote(Read(ctl, vote, cool), vote)
             enough == read.consecutiveVotes >= VoteThreshold
             steady == read.healthyReadings >= VoteThreshold /\ read.coolReadings >= VoteThreshold
             next == evaluate(ctl, vote, cool)
  <1> USE DEF Controllers, Votes
  <1>0. VoteThreshold \in Nat \ {0} /\ ctl \in Controllers /\ Run(vote) \in Nat
    BY AdaptiveAssumption DEF ControllerTypeOK, Run
  <1>a. next = IF vote < 0 /\ enough THEN [resetVotes(read) EXCEPT !.active = downgrade(ctl)]
               ELSE IF vote > 0 /\ enough /\ steady
                 THEN [resetVotes(read) EXCEPT !.active = upgrade(ctl)]
               ELSE read
    BY DEF evaluate
  <1>1. /\ read \in Controllers
        /\ read.baseline = ctl.baseline /\ read.active = ctl.active
        /\ read.healthyReadings = IF vote = 1 THEN More(ctl.healthyReadings) ELSE 0
        /\ read.coolReadings = IF cool THEN More(ctl.coolReadings) ELSE 0
        /\ read.lastVote = vote
        /\ read.consecutiveVotes =
             IF vote = 0 THEN 0 ELSE IF vote # ctl.lastVote THEN 1 ELSE More(ctl.consecutiveVotes)
    <2> DEFINE c == Read(ctl, vote, cool)
    <2>1. \A n \in Nat : More(n) \in Nat
      BY <1>0 DEF More
    <2>2. /\ c \in Controllers
          /\ c.baseline = ctl.baseline /\ c.active = ctl.active
          /\ c.healthyReadings = IF vote = 1 THEN More(ctl.healthyReadings) ELSE 0
          /\ c.coolReadings = IF cool THEN More(ctl.coolReadings) ELSE 0
          /\ c.lastVote = ctl.lastVote /\ c.consecutiveVotes = ctl.consecutiveVotes
      BY <1>0, <2>1 DEF Read, Controllers
    <2> HIDE DEF c
    <2>3. read = IF vote = 0 THEN resetVotes(c) ELSE Count(c, vote)
      BY DEF trackVote, c
    <2> HIDE DEF read
    <2>4. CASE vote = 0
      BY <2>2, <2>3, <2>4 DEF resetVotes, Controllers, Votes
    <2>5. CASE vote # 0
      BY <2>1, <2>2, <2>3, <2>5 DEF Count, Controllers, Votes
    <2> QED BY <2>4, <2>5
  <1> HIDE DEF read, next
  <1>2. /\ read.consecutiveVotes = IF vote = 0 THEN 0 ELSE Run(vote) + 1
        /\ read.consecutiveVotes <= VoteThreshold
        /\ read.healthyReadings <= read.coolReadings
        /\ read.healthyReadings <= VoteThreshold /\ read.coolReadings <= VoteThreshold
        /\ vote = 1 => read.consecutiveVotes <= read.healthyReadings
    BY <1>0, <1>1 DEF CountersInv, ControllerTypeOK, More, Run, Votes
  <1>3. vote = 1 /\ enough => steady
    BY <1>0, <1>1, <1>2
  <1>4. /\ downgrade(ctl) \in Profiles
        /\ profileIndex(downgrade(ctl)) =
             IF Open(-1) THEN profileIndex(ctl.active) - 1 ELSE profileIndex(ctl.active)
    <2>1. ctl.active \in Profiles
      BY DEF ControllerTypeOK
    <2>2. Open(-1) <=> profileIndex(ctl.active) # 1
      BY <2>1, ProfilePlaces DEF Open
    <2> QED BY <2>1, <2>2, ProfilePlaces DEF downgrade
  <1>5. /\ upgrade(ctl) \in Profiles
        /\ profileIndex(upgrade(ctl)) =
             IF Open(1) THEN profileIndex(ctl.active) + 1 ELSE profileIndex(ctl.active)
        /\ profileIndex(upgrade(ctl)) <= profileIndex(ctl.baseline)
    <2>1. ctl.active \in Profiles /\ ctl.baseline \in Profiles
      BY DEF ControllerTypeOK
    <2>2. Open(1) <=> profileIndex(ctl.active) < profileIndex(ctl.baseline)
      BY <2>1, ProfilePlaces DEF Open, CountersInv
    <2> QED BY <2>1, <2>2, ProfilePlaces DEF upgrade, CountersInv
  <1>6. \A p, q \in Profiles : profileIndex(p) = profileIndex(q) => p = q
    BY ProfilePlaces
  <1>7. ctl.active \in Profiles /\ profileIndex(ctl.active) <= profileIndex(ctl.baseline)
        /\ profileIndex(ctl.active) \in Int /\ profileIndex(ctl.baseline) \in Int
    BY ProfilePlaces DEF ControllerTypeOK, CountersInv
  <1>8. CASE vote = -1 /\ enough
    <2>1. next = [resetVotes(read) EXCEPT !.active = downgrade(ctl)]
      BY <1>a, <1>8
    <2>2. /\ next \in Controllers /\ next.active = downgrade(ctl) /\ next.baseline = ctl.baseline
          /\ next.lastVote = 0 /\ next.consecutiveVotes = 0
          /\ next.healthyReadings = read.healthyReadings /\ next.coolReadings = read.coolReadings
      BY <1>1, <1>4, <2>1 DEF resetVotes, Votes, Controllers
    <2>3. CountersOf(next)
      BY <1>0, <1>2, <1>4, <1>7, <2>2 DEF CountersOf
    <2>4. Run(vote) + 1 >= VoteThreshold
      BY <1>2, <1>8
    <2>5. IF Open(vote) THEN profileIndex(next.active) = profileIndex(ctl.active) + vote
          ELSE next.active = ctl.active
      BY <1>4, <1>6, <1>7, <1>8, <2>2
    <2>6. Advanced(next, vote)
      BY <1>0, <1>8, <2>2, <2>4, <2>5 DEF Advanced
    <2> QED BY <2>3, <2>6 DEF next
  <1>9. CASE vote = 1 /\ enough
    <2>1. next = [resetVotes(read) EXCEPT !.active = upgrade(ctl)]
      BY <1>a, <1>3, <1>9
    <2>2. /\ next \in Controllers /\ next.active = upgrade(ctl) /\ next.baseline = ctl.baseline
          /\ next.lastVote = 0 /\ next.consecutiveVotes = 0
          /\ next.healthyReadings = read.healthyReadings /\ next.coolReadings = read.coolReadings
      BY <1>1, <1>5, <2>1 DEF resetVotes, Votes, Controllers
    <2>3. CountersOf(next)
      BY <1>0, <1>2, <1>5, <2>2 DEF CountersOf
    <2>4. Run(vote) + 1 >= VoteThreshold
      BY <1>2, <1>9
    <2>5. IF Open(vote) THEN profileIndex(next.active) = profileIndex(ctl.active) + vote
          ELSE next.active = ctl.active
      BY <1>5, <1>6, <1>7, <1>9, <2>2
    <2>6. Advanced(next, vote)
      BY <1>0, <1>9, <2>2, <2>4, <2>5 DEF Advanced
    <2> QED BY <2>3, <2>6 DEF next
  <1>10. CASE vote = 0 \/ ~enough
    <2>1. next = read
      BY <1>a, <1>10
    <2>2. vote # 0 => Run(vote) + 1 < VoteThreshold
      BY <1>0, <1>1, <1>2, <1>10 DEF Controllers
    <2>3. read.consecutiveVotes < VoteThreshold
      BY <1>0, <1>1, <1>2, <1>10 DEF Controllers
    <2>4. CountersOf(next)
      BY <1>0, <1>1, <1>2, <1>7, <2>1, <2>3 DEF CountersOf
    <2>5. Advanced(next, vote)
      BY <1>0, <1>1, <1>2, <2>1, <2>2 DEF Advanced
    <2> QED BY <2>4, <2>5 DEF next
  <1> QED BY <1>8, <1>9, <1>10 DEF Votes

(* The last readings, as many as the threshold, are unanimous exactly when  *)
(* the vote completes its count: for a vote that may still move the profile. *)
LEMMA UnanimousWhen ==
  ASSUME ControllerInv, NEW vote \in Votes, NEW asked \in {-1, 1}, Open(asked)
  PROVE  Unanimous(Remember(vote), asked) <=> vote = asked /\ Run(vote) + 1 >= VoteThreshold
  <1> DEFINE readings == Remember(vote)
             size == Len(readings)
  <1> USE DEF ControllerInv
  <1>1. /\ VoteThreshold \in Nat \ {0} /\ Run(asked) \in Nat /\ Len(recent) \in Nat
        /\ Run(asked) < VoteThreshold
    BY AdaptiveAssumption DEF ControllerTypeOK, Controllers, Run, CountersInv
  <1>2. /\ size = IF Len(recent) < VoteThreshold THEN Len(recent) + 1 ELSE VoteThreshold
        /\ readings[size] = vote
        /\ \A j \in 1 .. size - 1 : readings[size - j] = recent[Len(recent) - j + 1]
    BY Remembered
  <1>3. /\ Run(asked) <= Len(recent)
        /\ \A i \in Len(recent) - Run(asked) + 1 .. Len(recent) : recent[i] = asked
        /\ Run(asked) < Len(recent) => recent[Len(recent) - Run(asked)] # asked
    BY DEF RunInv
  <1> HIDE DEF readings
  <1>4. ASSUME vote = asked, Run(vote) + 1 >= VoteThreshold
        PROVE  Unanimous(readings, asked)
    <2>1. Run(asked) + 1 = VoteThreshold /\ size = VoteThreshold
      BY <1>1, <1>2, <1>3, <1>4
    <2>2. ASSUME NEW i \in size - VoteThreshold + 1 .. size PROVE readings[i] = asked
      <3>1. CASE i = size BY <1>2, <1>4, <3>1
      <3>2. CASE i < size
        <4>1. size - i \in 1 .. size - 1 /\ size - (size - i) = i
          BY <1>1, <2>1, <3>2
        <4>2. readings[i] = recent[Len(recent) - (size - i) + 1]
          BY <1>2, <4>1
        <4>3. Len(recent) - (size - i) + 1 \in Len(recent) - Run(asked) + 1 .. Len(recent)
          BY <1>1, <2>1, <3>2
        <4> QED BY <1>3, <4>2, <4>3
      <3> QED BY <1>1, <2>1, <3>1, <3>2
    <2> QED BY <1>1, <2>1, <2>2 DEF Unanimous
  <1>5. ASSUME Unanimous(readings, asked)
        PROVE  vote = asked /\ Run(vote) + 1 >= VoteThreshold
    <2>1. /\ size >= VoteThreshold /\ size = VoteThreshold
          /\ \A i \in 1 .. size : readings[i] = asked
      BY <1>1, <1>2, <1>5 DEF Unanimous
    <2>2. vote = asked
      BY <1>1, <1>2, <2>1
    <2>3. ASSUME Run(asked) + 1 < VoteThreshold PROVE FALSE
      <3>0. size \in Nat /\ Len(recent) >= VoteThreshold - 1
        BY <1>1, <1>2, <2>1
      <3>1. /\ Run(asked) + 1 \in 1 .. size - 1
            /\ Len(recent) - (Run(asked) + 1) + 1 = Len(recent) - Run(asked)
            /\ size - (Run(asked) + 1) \in 1 .. size
            /\ Run(asked) < Len(recent)
        BY <1>1, <2>1, <2>3, <3>0
      <3>2. readings[size - (Run(asked) + 1)] = recent[Len(recent) - Run(asked)]
        BY <1>2, <3>1
      <3> QED BY <1>3, <2>1, <3>1, <3>2
    <2> QED BY <1>1, <2>2, <2>3
  <1> QED BY <1>4, <1>5 DEF readings

(***************************************************************************)
(* One reading: the counts follow the readings, and the profile moves as   *)
(* the property says.                                                      *)
(***************************************************************************)
LEMMA SampleStep ==
  ASSUME ControllerInv, sample
  PROVE  /\ ControllerInv'
         /\ \E vote \in {-1, 0, 1} :
              LET readings == Remember(vote)
                  moves == \/ Unanimous(readings, -1) /\ ctl.active # PROFILE_ORDER[1]
                           \/ Unanimous(readings, 1) /\ ctl.active # ctl.baseline
              IN  /\ recent' = IF moves THEN <<>> ELSE readings
                  /\ profileIndex(ctl'.active) =
                       profileIndex(ctl.active) + (IF moves THEN vote ELSE 0)
  <1>1. PICK vote \in Votes, cool \in BOOLEAN :
          /\ vote = 1 => cool
          /\ ctl' = evaluate(ctl, vote, cool)
          /\ recent' = IF ctl'.active = ctl.active THEN Remember(vote) ELSE <<>>
    BY DEF sample, Votes
  <1>2. UNCHANGED <<choice, session>>
    BY DEF sample
  <1>3. CountersOf(ctl') /\ Advanced(ctl', vote)
    BY <1>1, Evaluated DEF ControllerInv
  <1> DEFINE readings == Remember(vote)
             moves == \/ Unanimous(readings, -1) /\ ctl.active # PROFILE_ORDER[1]
                      \/ Unanimous(readings, 1) /\ ctl.active # ctl.baseline
             complete == vote # 0 /\ Run(vote) + 1 >= VoteThreshold /\ Open(vote)
  <1>4. moves <=> complete
    <2>1. moves <=> \E asked \in {-1, 1} : Open(asked) /\ Unanimous(readings, asked)
      BY DEF Open
    <2>2. \A asked \in {-1, 1} : Open(asked) =>
            (Unanimous(readings, asked) <=> vote = asked /\ Run(vote) + 1 >= VoteThreshold)
      BY UnanimousWhen
    <2> HIDE DEF moves, readings
    <2>3. vote \in {-1, 0, 1}
      BY DEF Votes
    <2> QED BY <2>1, <2>2, <2>3
  <1> HIDE DEF moves
  <1>5. ctl.active \in Profiles /\ profileIndex(ctl.active) \in Int
        /\ Run(-1) \in Nat /\ Run(0) \in Nat /\ Run(1) \in Nat
        /\ VoteThreshold \in Nat \ {0} /\ Len(recent) \in Nat
    BY ProfilePlaces, AdaptiveAssumption DEF ControllerInv, ControllerTypeOK, Controllers, Run
  <1>6. /\ profileIndex(ctl'.active) = profileIndex(ctl.active) + (IF moves THEN vote ELSE 0)
        /\ (ctl'.active = ctl.active) <=> ~moves
    BY <1>3, <1>4, <1>5 DEF Advanced, Votes
  <1>7. recent' = IF moves THEN <<>> ELSE readings
    BY <1>1, <1>6
  <1>8. /\ readings \in Seq(Votes)
        /\ Len(readings) = IF Len(recent) < VoteThreshold THEN Len(recent) + 1 ELSE VoteThreshold
        /\ readings[Len(readings)] = vote
        /\ \A j \in 1 .. Len(readings) - 1 :
             readings[Len(readings) - j] = recent[Len(recent) - j + 1]
    BY Remembered DEF ControllerInv
  <1> HIDE DEF readings
  <1>9. ControllerTypeOK'
    <2>1. recent' \in Seq(Votes) /\ Len(recent') <= VoteThreshold
      BY <1>5, <1>7, <1>8
    <2> QED BY <1>2, <1>3, <2>1 DEF ControllerTypeOK, CountersOf, ControllerInv
  <1>10. CountersInv'
    BY <1>3, <1>5 DEF CountersInv, CountersOf, Controllers
  <1>11. RunInv'
    <2>1. SUFFICES ASSUME NEW asked \in {-1, 1}, Open(asked)'
                   PROVE  /\ Run(asked)' <= Len(recent')
                          /\ \A i \in Len(recent') - Run(asked)' + 1 .. Len(recent') :
                               recent'[i] = asked
                          /\ Run(asked)' < Len(recent') =>
                               recent'[Len(recent') - Run(asked)'] # asked
      BY DEF RunInv
    <2>2. CASE moves
      <3>1. recent' = <<>> /\ Run(asked)' = 0
        BY <1>3, <1>4, <1>7, <2>2 DEF Advanced, Run
      <3> QED BY <3>1
    <2>3. CASE ~moves
      <3>1. recent' = readings /\ Open(asked)
        BY <1>3, <1>6, <1>7, <2>1, <2>3 DEF Open, CountersOf
      <3>2. /\ Run(asked) \in Nat /\ Run(asked) <= Len(recent)
            /\ \A i \in Len(recent) - Run(asked) + 1 .. Len(recent) : recent[i] = asked
            /\ Run(asked) < Len(recent) => recent[Len(recent) - Run(asked)] # asked
        BY <1>5, <3>1 DEF ControllerInv, RunInv
      <3>3. CASE vote = asked
        <4>1. /\ Run(asked)' = Run(asked) + 1 /\ Run(asked) + 1 < VoteThreshold
          BY <1>3, <1>4, <1>5, <2>3, <3>1, <3>3 DEF Advanced, Run
        <4>2. Run(asked) + 1 <= Len(readings) /\ Len(readings) \in Nat
          BY <1>5, <1>8, <3>2, <4>1
        <4>6. Len(readings) <= Len(recent) + 1
          BY <1>5, <1>8
        <4>3. ASSUME NEW i \in Len(readings) - Run(asked) .. Len(readings)
              PROVE  readings[i] = asked
          <5>1. CASE i = Len(readings) BY <1>8, <3>3, <5>1
          <5>2. CASE i < Len(readings)
            <6>1. /\ Len(readings) - i \in 1 .. Len(readings) - 1
                  /\ Len(readings) - (Len(readings) - i) = i
                  /\ Len(recent) - (Len(readings) - i) + 1 \in
                       Len(recent) - Run(asked) + 1 .. Len(recent)
              BY <1>5, <3>2, <4>2, <4>6, <5>2
            <6> QED BY <1>8, <3>2, <6>1
          <5> QED BY <1>5, <1>8, <3>2, <4>2, <5>1, <5>2
        <4>4. ASSUME Run(asked) + 1 < Len(readings)
              PROVE  readings[Len(readings) - (Run(asked) + 1)] # asked
          <5>0. \A a, b, c \in Nat : a + 1 < b /\ b <= c + 1 =>
                  a + 1 \in 1 .. b - 1 /\ c - (a + 1) + 1 = c - a /\ a < c
            OBVIOUS
          <5>1. /\ Run(asked) + 1 \in 1 .. Len(readings) - 1
                /\ Len(recent) - (Run(asked) + 1) + 1 = Len(recent) - Run(asked)
                /\ Run(asked) < Len(recent)
            BY <1>5, <3>2, <4>2, <4>4, <4>6, <5>0
          <5> QED BY <1>8, <3>2, <5>1
        <4>5. Len(readings) - (Run(asked) + 1) + 1 = Len(readings) - Run(asked)
          BY <3>2, <4>2
        <4> QED BY <3>1, <4>1, <4>2, <4>3, <4>4, <4>5
      <3>4. CASE vote # asked
        <4>1. Run(asked)' = 0
          BY <1>3, <1>4, <1>5, <3>4 DEF Advanced, Run, Votes
        <4>2. Len(readings) \in Nat
          BY <1>5, <1>8
        <4> QED BY <1>8, <3>1, <3>4, <4>1, <4>2
      <3> QED BY <3>3, <3>4
    <2> QED BY <2>2, <2>3
  <1> QED BY <1>6, <1>7, <1>9, <1>10, <1>11 DEF ControllerInv, moves, readings, Votes

(* A new controller has counted nothing. *)
LEMMA NewCounters ==
  ASSUME NEW p \in UserChoices
  PROVE  /\ NewController(p) \in Controllers
         /\ NewController(p).active = NewController(p).baseline
         /\ NewController(p).lastVote = 0 /\ NewController(p).consecutiveVotes = 0
         /\ NewController(p).healthyReadings = 0 /\ NewController(p).coolReadings = 0
  BY NormalProfile DEF NewController, Controllers, Votes

LEMMA InitController == QualityInit => ControllerInv
  <1> SUFFICES ASSUME QualityInit PROVE ControllerInv
    OBVIOUS
  <1>1. ctl = NewController(choice) /\ choice \in UserChoices /\ recent = <<>> /\ session = 0
    BY DEF QualityInit
  <1>2. ControllerTypeOK
    BY <1>1, NewCounters, AdaptiveAssumption DEF ControllerTypeOK
  <1>3. CountersInv
    BY <1>1, NewCounters, ProfilePlaces, AdaptiveAssumption DEF CountersInv, Controllers
  <1>4. RunInv
    BY <1>1, NewCounters DEF RunInv, Run
  <1> QED BY <1>2, <1>3, <1>4 DEF ControllerInv

(* Every step keeps the invariant; within a session only a reading changes  *)
(* the controller.                                                          *)
LEMMA ControllerStep ==
  ASSUME ControllerInv, [QualityNext]_qualityVars
  PROVE  /\ ControllerInv'
         /\ ctl' # ctl /\ session' = session => sample
  <1>1. CASE sample
    BY <1>1, SampleStep
  <1>2. CASE startPinnCollector
    <2>1. /\ ctl' = NewController(choice) /\ recent' = <<>> /\ choice' = choice
          /\ session' = session + 1 /\ choice \in UserChoices /\ session \in Nat
      BY <1>2 DEF startPinnCollector, ControllerInv, ControllerTypeOK
    <2>2. ControllerTypeOK'
      BY <2>1, NewCounters, AdaptiveAssumption DEF ControllerTypeOK
    <2>3. CountersInv'
      BY <2>1, NewCounters, ProfilePlaces, AdaptiveAssumption DEF CountersInv, Controllers
    <2>4. RunInv'
      BY <2>1, NewCounters DEF RunInv, Run
    <2> QED BY <2>1, <2>2, <2>3, <2>4 DEF ControllerInv
  <1>3. CASE UNCHANGED <<ctl, recent, session>> /\ choice' \in UserChoices
    BY <1>3 DEF ControllerInv, ControllerTypeOK, CountersInv, RunInv, Run, Open
  <1>4. ASSUME ~sample, ~startPinnCollector
        PROVE  UNCHANGED <<ctl, recent, session>> /\ choice' \in UserChoices
    BY <1>4 DEF QualityNext, qualityVars, collectorVars, EndObservation, AutoDisable,
       handlePinnDecision, stopPinnCollector, HandleDecision, setVideoMode, ControllerInv,
       ControllerTypeOK
  <1> QED BY <1>1, <1>2, <1>3, <1>4

(***************************************************************************)
(* For every threshold: the profile moves by one step, exactly when the    *)
(* last readings are unanimous and the range leaves room                   *)
(* (AdaptiveController.kt:27-69).                                          *)
(***************************************************************************)
THEOREM UnanimousMoves == QualitySpec => MovesOnUnanimity
  <1>1. ControllerInv /\ [QualityNext]_qualityVars => ControllerInv'
    BY ControllerStep
  <1>2. ControllerInv /\ [QualityNext]_qualityVars =>
          [ctl' # ctl /\ session' = session =>
             \E vote \in {-1, 0, 1} :
                LET readings == Remember(vote)
                    moves == \/ Unanimous(readings, -1) /\ ctl.active # PROFILE_ORDER[1]
                             \/ Unanimous(readings, 1) /\ ctl.active # ctl.baseline
                IN  /\ recent' = IF moves THEN <<>> ELSE readings
                    /\ profileIndex(ctl'.active) =
                         profileIndex(ctl.active) + (IF moves THEN vote ELSE 0)]_qualityVars
    BY ControllerStep, SampleStep
  <1> QED BY <1>1, <1>2, InitController, PTL DEF QualitySpec, MovesOnUnanimity
==============================================================================
