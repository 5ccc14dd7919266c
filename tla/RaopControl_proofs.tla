------------------------- MODULE RaopControl_proofs --------------------------
(***************************************************************************)
(* Proofs about the sessions and their owners (RaopSessions), for any      *)
(* number of connections and sessions and tables of any size; about the    *)
(* HTTP pool (Httpd), for a pool of any size; and about the composition of *)
(* the two (RaopControl), whose invariant is that of the pool, that of the *)
(* sessions and the link between them.                                     *)
(***************************************************************************)
EXTENDS RaopControl, FiniteSetTheorems, WellFoundedInduction, TLAPS

(***************************************************************************)
(* The sessions (RaopSessions)                                             *)
(***************************************************************************)

(* A full table drops the entry: that is all there is to know of it. *)
LEMMA AddActiveEither ==
    ASSUME NEW table, NEW s
    PROVE  AddActive(table, s) = table \/ AddActive(table, s) = table \cup {s}
  BY DEF AddActive

(* The initial state has the inductive invariant. *)
LEMMA InitIInv == Init => IInv
  <1> SUFFICES ASSUME Init PROVE IInv
    OBVIOUS
  <1>1. TypeOK
    BY SessionsAssumption DEF Init, TypeOK, ObjectStates
  <1>2. PointersInv /\ OwnedInv /\ ConnInv
    BY <1>1 DEF Init, PointersInv, OwnedInv, ConnInv, Exists
  <1>3. MadeInv /\ LeftInv /\ StopCountInv
    BY DEF Init, MadeInv, LeftInv, StopCountInv
  <1> QED
    BY <1>2, <1>3 DEF IInv

(* One lemma for each action that touches objects or pointers. *)
LEMMA FirstSetupStep ==
    ASSUME IInv, NEW c \in Conns, FirstSetup(c)
    PROVE  IInv'
  <1> USE SessionsAssumption DEF IInv
  <1> PICK s \in Sessions \ made, gotRtp \in BOOLEAN, gotMirror \in BOOLEAN :
         /\ made' = made \cup {s}
         /\ rtp' = [rtp EXCEPT ![s] = IF gotRtp THEN "created" ELSE "none"]
         /\ mirror' = [mirror EXCEPT ![s] = IF gotMirror THEN "created" ELSE "none"]
         /\ raop_rtp' =
              [raop_rtp EXCEPT ![c] = IF gotRtp THEN s ELSE NoSession]
         /\ raop_rtp_mirror' =
              [raop_rtp_mirror EXCEPT ![c] = IF gotMirror THEN s ELSE NoSession]
         /\ active_rtps' =
              IF gotRtp THEN AddActive(active_rtps, s) ELSE active_rtps
         /\ active_mirrors' =
              IF gotMirror THEN AddActive(active_mirrors, s) ELSE active_mirrors
    BY DEF FirstSetup
  <1>1. /\ rtp[s] = "none" /\ mirror[s] = "none"
        /\ s \notin active_rtps /\ s \notin active_mirrors
        /\ \A d \in Conns : raop_rtp[d] # s /\ raop_rtp_mirror[d] # s
    BY DEF MadeInv, PointersInv, Exists
  <1>2. /\ setup[c] = 0 /\ conn[c] = "open" /\ server # "gone"
        /\ raop_rtp[c] = NoSession /\ raop_rtp_mirror[c] = NoSession
    BY DEF FirstSetup, Ready, ConnInv
  <1>3. /\ active_rtps' = active_rtps \/ (gotRtp /\ active_rtps' = active_rtps \cup {s})
        /\ active_mirrors' = active_mirrors
             \/ (gotMirror /\ active_mirrors' = active_mirrors \cup {s})
    BY AddActiveEither
  <1>4. TypeOK'
    BY <1>3 DEF FirstSetup, PointersInv, TypeOK, ObjectStates, flags, hist
  <1>5. PointersInv'
    BY <1>1, <1>3, <1>4 DEF PointersInv, TypeOK, Exists
  <1>6. OwnedInv'
    BY <1>1, <1>2, <1>3 DEF OwnedInv, PointersInv, TypeOK, Exists
  <1>7. ConnInv'
    BY <1>1, <1>2 DEF ConnInv, FirstSetup, PointersInv, TypeOK, flags
  <1>8. MadeInv' /\ LeftInv' /\ StopCountInv'
    BY <1>1, <1>2 DEF MadeInv, LeftInv, StopCountInv, FirstSetup, PointersInv, TypeOK
  <1> QED
    BY <1>5, <1>6, <1>7, <1>8

LEMMA VideoSetupStep ==
    ASSUME IInv, NEW c \in Conns, VideoSetup(c)
    PROVE  IInv'
  <1> USE SessionsAssumption DEF IInv
  <1>1. TypeOK'
    <2> USE DEF VideoSetup, PointersInv, TypeOK, ObjectStates, pointers, tables
    <2>1. conn' \in [Conns -> {"closed", "open", "closing"}]
      OBVIOUS
    <2>2. setup' \in [Conns -> 0..2]
      OBVIOUS
    <2>3. mirror_started' \in [Conns -> BOOLEAN] /\ notified' \in [Conns -> BOOLEAN]
      BY Zenon
    <2>4. mirror' \in [Sessions -> ObjectStates] /\ ran' \subseteq Sessions
      OBVIOUS
    <2> QED
      BY <2>1, <2>2, <2>3, <2>4
  <1>2. PointersInv'
    BY <1>1 DEF VideoSetup, PointersInv, TypeOK, Exists, pointers, tables
  <1>3. OwnedInv'
    BY DEF VideoSetup, OwnedInv, PointersInv, TypeOK, Exists, pointers, tables
  <1>4. ConnInv'
    BY DEF VideoSetup, ConnInv, PointersInv, TypeOK, Ready, pointers, tables
  <1>5. MadeInv' /\ LeftInv' /\ StopCountInv'
    BY DEF VideoSetup, MadeInv, LeftInv, StopCountInv, PointersInv, TypeOK, Ready,
           pointers, tables, Exists
  <1> QED
    BY <1>2, <1>3, <1>4, <1>5

LEMMA AudioSetupStep ==
    ASSUME IInv, NEW c \in Conns, AudioSetup(c)
    PROVE  IInv'
  <1> USE SessionsAssumption DEF IInv
  <1>1. TypeOK'
    <2> USE DEF AudioSetup, PointersInv, TypeOK, ObjectStates, pointers, tables, hist
    <2>1. conn' \in [Conns -> {"closed", "open", "closing"}]
      OBVIOUS
    <2>2. setup' \in [Conns -> 0..2]
      OBVIOUS
    <2>3. audio_started' \in [Conns -> BOOLEAN]
      BY Zenon
    <2>4. rtp' \in [Sessions -> ObjectStates]
      OBVIOUS
    <2> QED
      BY <2>1, <2>2, <2>3, <2>4
  <1>2. PointersInv'
    BY <1>1 DEF AudioSetup, PointersInv, TypeOK, Exists, pointers, tables
  <1>3. OwnedInv'
    BY DEF AudioSetup, OwnedInv, PointersInv, TypeOK, Exists, pointers, tables
  <1>4. ConnInv'
    BY DEF AudioSetup, ConnInv, PointersInv, TypeOK, Ready, pointers, tables
  <1>5. MadeInv' /\ LeftInv' /\ StopCountInv'
    BY DEF AudioSetup, MadeInv, LeftInv, StopCountInv, PointersInv, TypeOK, Ready,
           pointers, tables, hist, Exists
  <1> QED
    BY <1>2, <1>3, <1>4, <1>5

(* What destroying a set of objects and ending their threads comes to. *)
LEMMA DestroyFacts ==
    ASSUME TypeOK, NEW S \in SUBSET Sessions
    PROVE  /\ Destroy(rtp, S) \in [Sessions -> ObjectStates]
           /\ Destroy(mirror, S) \in [Sessions -> ObjectStates]
           /\ ThreadStops(S) \in [Sessions -> Nat]
           /\ \A s \in Sessions :
                /\ Destroy(rtp, S)[s] = IF s \in S THEN "destroyed" ELSE rtp[s]
                /\ Destroy(mirror, S)[s] = IF s \in S THEN "destroyed" ELSE mirror[s]
                /\ ThreadStops(S)[s] =
                     IF s \in S /\ mirror[s] = "running" THEN stops[s] + 1 ELSE stops[s]
  BY DEF TypeOK, Destroy, ThreadStops, ObjectStates

LEMMA TeardownStep ==
    ASSUME IInv, NEW c \in Conns, NEW a \in BOOLEAN, NEW m \in BOOLEAN,
           Teardown(c, a, m)
    PROVE  IInv'
  <1> USE SessionsAssumption DEF IInv
  <1> DEFINE unused == a /\ ~mirror_started[c]
             noMirror == m \/ unused
             audioGone == (IF a THEN {raop_rtp[c]} ELSE {}) \ {NoSession}
             mirrorGone == (IF noMirror THEN {raop_rtp_mirror[c]} ELSE {}) \ {NoSession}
             notify == HadMirror(c, m) /\ ~notified[c]
  <1>1. TypeOK /\ audioGone \subseteq Sessions /\ mirrorGone \subseteq Sessions
    BY DEF PointersInv, TypeOK
  <1>2. /\ active_rtps' = active_rtps \ audioGone
        /\ active_mirrors' = active_mirrors \ mirrorGone
        /\ rtp' \in [Sessions -> ObjectStates]
        /\ mirror' \in [Sessions -> ObjectStates]
        /\ \A s \in Sessions :
             /\ rtp'[s] = IF s \in audioGone THEN "destroyed" ELSE rtp[s]
             /\ mirror'[s] = IF s \in mirrorGone THEN "destroyed" ELSE mirror[s]
    BY <1>1, DestroyFacts DEF Teardown
  <1>3. /\ stops' \in [Sessions -> Nat]
        /\ \A s \in Sessions :
             stops'[s] = (IF s \in mirrorGone /\ mirror[s] = "running"
                          THEN stops[s] + 1 ELSE stops[s])
                         + (IF notify /\ s = raop_rtp_mirror[c] THEN 1 ELSE 0)
    <2>1. \A s \in Sessions : ThreadStops(mirrorGone)[s] \in Nat
      BY <1>1, DestroyFacts
    <2>2. stops' = [s \in Sessions |-> ThreadStops(mirrorGone)[s] +
                      IF notify /\ s = raop_rtp_mirror[c] THEN 1 ELSE 0]
      BY DEF Teardown
    <2> QED
      BY <1>1, <2>1, <2>2, DestroyFacts
  <1>4. /\ raop_rtp' = [raop_rtp EXCEPT ![c] = IF a THEN NoSession ELSE @]
        /\ audio_started' = [audio_started EXCEPT ![c] = IF a THEN FALSE ELSE @]
        /\ raop_rtp_mirror' = [raop_rtp_mirror EXCEPT ![c] = IF noMirror THEN NoSession ELSE @]
        /\ mirror_started' = [mirror_started EXCEPT ![c] = IF noMirror THEN FALSE ELSE @]
        /\ notified' = [notified EXCEPT ![c] = @ \/ notify]
        /\ UNCHANGED <<server, conn, setup, made, ran>>
        /\ server # "gone" /\ conn[c] = "open"
    BY DEF Teardown, Ready, SetNull, SetFalse
  <1>5. mirror[raop_rtp_mirror[c]] # "none" \/ raop_rtp_mirror[c] = NoSession
    BY DEF PointersInv, Exists
  <1>6. notify => raop_rtp_mirror[c] \in mirrorGone
    BY <1>1 DEF HadMirror, TypeOK
  <1> HIDE DEF audioGone, mirrorGone, notify, noMirror
  <1>7. TypeOK'
    <2>1. /\ audio_started' \in [Conns -> BOOLEAN]
          /\ mirror_started' \in [Conns -> BOOLEAN]
          /\ notified' \in [Conns -> BOOLEAN]
      BY <1>1, <1>4, Zenon DEF TypeOK, notify, HadMirror
    <2>2. /\ raop_rtp' \in [Conns -> Sessions \cup {NoSession}]
          /\ raop_rtp_mirror' \in [Conns -> Sessions \cup {NoSession}]
      BY <1>1, <1>4 DEF TypeOK
    <2> QED
      BY <1>1, <1>2, <1>3, <1>4, <2>1, <2>2 DEF TypeOK
  <1>8. PointersInv'
    <2>1. ASSUME NEW d \in Conns, raop_rtp'[d] # NoSession
          PROVE  Exists(rtp'[raop_rtp'[d]])
      <3>1. raop_rtp'[d] = raop_rtp[d] /\ raop_rtp[d] \in Sessions
        BY <1>1, <1>4, <2>1 DEF TypeOK
      <3>2. raop_rtp[d] \notin audioGone
        BY <1>1, <1>4, <2>1, <3>1 DEF TypeOK, ConnInv, audioGone
      <3> QED
        BY <1>2, <3>1, <3>2, <2>1 DEF PointersInv
    <2>2. ASSUME NEW d \in Conns, raop_rtp_mirror'[d] # NoSession
          PROVE  Exists(mirror'[raop_rtp_mirror'[d]])
      <3>1. raop_rtp_mirror'[d] = raop_rtp_mirror[d] /\ raop_rtp_mirror[d] \in Sessions
        BY <1>1, <1>4, <2>2 DEF TypeOK
      <3>2. raop_rtp_mirror[d] \notin mirrorGone
        BY <1>1, <1>4, <2>2, <3>1 DEF TypeOK, ConnInv, mirrorGone
      <3> QED
        BY <1>2, <3>1, <3>2, <2>2 DEF PointersInv
    <2>3. \A s \in active_rtps' : Exists(rtp'[s])
      BY <1>1, <1>2 DEF PointersInv, TypeOK
    <2>4. \A s \in active_mirrors' : Exists(mirror'[s])
      BY <1>1, <1>2 DEF PointersInv, TypeOK
    <2> QED
      BY <1>7, <2>1, <2>2, <2>3, <2>4 DEF PointersInv
  <1>9. OwnedInv'
    BY <1>1, <1>2, <1>4 DEF OwnedInv, TypeOK, Exists, audioGone, mirrorGone
  <1>10. ConnInv'
    BY <1>1, <1>4 DEF ConnInv, TypeOK
  <1>11. MadeInv' /\ LeftInv'
    BY <1>1, <1>2, <1>4 DEF MadeInv, LeftInv, PointersInv, Exists, TypeOK, audioGone,
       mirrorGone
  <1>12. StopCountInv'
    <2> SUFFICES ASSUME NEW s \in Sessions
                 PROVE  /\ mirror'[s] \in {"none", "created"} => s \notin ran' /\ stops'[s] = 0
                        /\ mirror'[s] = "running" => stops'[s] = 0
                        /\ mirror'[s] = "ended" => stops'[s] = 1
                        /\ mirror'[s] = "destroyed" /\ s \in ran' => stops'[s] \in 1..2
      BY DEF StopCountInv
    <2> USE <1>1, <1>2, <1>3, <1>4
    <2>1. stops[s] \in Nat /\ mirror[s] \in ObjectStates
      BY DEF TypeOK
    <2>2. CASE s \notin mirrorGone
      <3>1. stops'[s] = stops[s] /\ mirror'[s] = mirror[s]
        BY <1>6, <2>1, <2>2
      <3> QED
        BY <3>1 DEF StopCountInv
    <2>3. CASE s \in mirrorGone
      <3>1. mirror[s] \in {"created", "running", "ended"} /\ mirror'[s] = "destroyed"
        BY <2>1, <2>3 DEF PointersInv, Exists, ObjectStates, mirrorGone
      <3>2. s \in ran => mirror[s] # "created"
        BY DEF StopCountInv
      <3> QED
        BY <2>1, <2>3, <3>1, <3>2 DEF StopCountInv
    <2> QED
      BY <2>2, <2>3
  <1> QED
    BY <1>8, <1>9, <1>10, <1>11, <1>12

LEMMA ConnDestroyStep ==
    ASSUME IInv, NEW c \in Conns, ConnDestroy(c)
    PROVE  IInv'
  <1> USE SessionsAssumption DEF IInv
  <1> DEFINE audioGone == {raop_rtp[c]} \ (active_rtps \cup {NoSession})
             mirrorGone == {raop_rtp_mirror[c]} \ (active_mirrors \cup {NoSession})
  <1>1. TypeOK /\ audioGone \subseteq Sessions /\ mirrorGone \subseteq Sessions
    BY DEF PointersInv, TypeOK
  <1>2. /\ rtp' \in [Sessions -> ObjectStates]
        /\ mirror' \in [Sessions -> ObjectStates]
        /\ stops' \in [Sessions -> Nat]
        /\ \A s \in Sessions :
             /\ rtp'[s] = IF s \in audioGone THEN "destroyed" ELSE rtp[s]
             /\ mirror'[s] = IF s \in mirrorGone THEN "destroyed" ELSE mirror[s]
             /\ stops'[s] = IF s \in mirrorGone /\ mirror[s] = "running"
                             THEN stops[s] + 1 ELSE stops[s]
    BY <1>1, DestroyFacts DEF ConnDestroy
  <1>3. /\ conn' = [conn EXCEPT ![c] = "closed"]
        /\ setup' = [setup EXCEPT ![c] = 0]
        /\ raop_rtp' = [raop_rtp EXCEPT ![c] = NoSession]
        /\ raop_rtp_mirror' = [raop_rtp_mirror EXCEPT ![c] = NoSession]
        /\ audio_started' = [audio_started EXCEPT ![c] = FALSE]
        /\ mirror_started' = [mirror_started EXCEPT ![c] = FALSE]
        /\ notified' = [notified EXCEPT ![c] = FALSE]
        /\ UNCHANGED <<server, tables, made, ran>>
        /\ server # "gone"
    BY DEF ConnDestroy
  <1> HIDE DEF audioGone, mirrorGone
  <1>4. TypeOK'
    BY <1>1, <1>2, <1>3 DEF TypeOK, tables
  <1>5. PointersInv'
    BY <1>1, <1>2, <1>3, <1>4 DEF PointersInv, TypeOK, Exists, ConnInv, tables,
       audioGone, mirrorGone
  <1>6. OwnedInv'
    BY <1>1, <1>2, <1>3 DEF OwnedInv, TypeOK, Exists, tables, audioGone, mirrorGone
  <1>7. ConnInv'
    BY <1>1, <1>3 DEF ConnInv, TypeOK
  <1>8. MadeInv' /\ LeftInv'
    BY <1>1, <1>2, <1>3 DEF MadeInv, LeftInv, PointersInv, Exists, TypeOK, tables,
       audioGone, mirrorGone
  <1>9. StopCountInv'
    <2>1. \A s \in mirrorGone : mirror[s] \in {"created", "running", "ended"}
      BY <1>1 DEF PointersInv, Exists, TypeOK, ObjectStates, mirrorGone
    <2> QED
      BY <1>1, <1>2, <1>3, <2>1 DEF StopCountInv, TypeOK
  <1> QED
    BY <1>5, <1>6, <1>7, <1>8, <1>9

LEMMA DestroyActiveStep ==
    ASSUME IInv, DestroyActive
    PROVE  IInv'
  <1> USE SessionsAssumption DEF IInv
  <1>1. TypeOK
    BY DEF PointersInv
  <1>2. /\ rtp' \in [Sessions -> ObjectStates]
        /\ mirror' \in [Sessions -> ObjectStates]
        /\ stops' \in [Sessions -> Nat]
        /\ \A s \in Sessions :
             /\ rtp'[s] = IF s \in active_rtps THEN "destroyed" ELSE rtp[s]
             /\ mirror'[s] = IF s \in active_mirrors THEN "destroyed" ELSE mirror[s]
             /\ stops'[s] = IF s \in active_mirrors /\ mirror[s] = "running"
                             THEN stops[s] + 1 ELSE stops[s]
    BY <1>1, DestroyFacts DEF DestroyActive, TypeOK
  <1>3. /\ \A c \in Conns : conn[c] = "closed"
        /\ active_rtps' = {} /\ active_mirrors' = {} /\ server' = "gone"
        /\ UNCHANGED <<connVars, made, ran>>
    BY DEF DestroyActive
  <1>4. TypeOK'
    BY <1>1, <1>2, <1>3 DEF TypeOK, connVars, pointers, flags
  <1>5. PointersInv' /\ ConnInv' /\ LeftInv'
    BY <1>1, <1>3, <1>4 DEF PointersInv, TypeOK, ConnInv, LeftInv, connVars, pointers, flags
  <1>6. OwnedInv'
    BY <1>1, <1>2, <1>3 DEF OwnedInv, TypeOK, Exists, ConnInv, connVars, pointers
  <1>7. MadeInv' /\ StopCountInv'
    <2>1. \A s \in active_rtps : rtp[s] # "none"
      BY <1>1 DEF PointersInv, Exists, TypeOK
    <2>2. \A s \in active_mirrors : mirror[s] \in {"created", "running", "ended"}
      BY <1>1 DEF PointersInv, Exists, TypeOK, ObjectStates
    <2>3. MadeInv'
      BY <1>2, <1>3, <2>1, <2>2 DEF MadeInv
    <2> QED
      BY <1>1, <1>2, <1>3, <2>2, <2>3 DEF StopCountInv, TypeOK
  <1> QED
    BY <1>5, <1>6, <1>7

(* The actions that touch no object but a mirror that ends. *)
LEMMA MirrorEndsStep ==
    ASSUME IInv, NEW s \in Sessions, MirrorEnds(s)
    PROVE  IInv'
  <1> USE SessionsAssumption
        DEF IInv, MirrorEnds, connVars, pointers, flags, tables
  <1>1. TypeOK'
    BY DEF PointersInv, TypeOK, ObjectStates
  <1>2. PointersInv' /\ OwnedInv'
    BY <1>1 DEF PointersInv, OwnedInv, TypeOK, Exists
  <1>3. ConnInv' /\ MadeInv' /\ LeftInv' /\ StopCountInv'
    BY DEF ConnInv, MadeInv, LeftInv, StopCountInv, PointersInv, TypeOK
  <1> QED
    BY <1>2, <1>3

LEMMA QuietStep ==
    ASSUME IInv,
           \/ \E c \in Conns : Connect(c) \/ SetupRefused(c) \/ AudioSetupUnsupported(c)
           \/ StopServer
           \/ UNCHANGED vars
    PROVE  IInv'
  <1> USE SessionsAssumption
        DEF IInv, connVars, pointers, flags, tables, objects, hist, Connect, SetupRefused,
            AudioSetupUnsupported, StopServer, Ready, vars
  <1>1. TypeOK'
    BY DEF PointersInv, TypeOK, ObjectStates
  <1>2. PointersInv' /\ OwnedInv'
    BY <1>1 DEF PointersInv, OwnedInv, TypeOK, Exists
  <1>3. ConnInv'
    BY DEF ConnInv, PointersInv, TypeOK
  <1>4. MadeInv' /\ LeftInv' /\ StopCountInv'
    BY DEF MadeInv, LeftInv, StopCountInv, PointersInv, TypeOK
  <1> QED
    BY <1>2, <1>3, <1>4

LEMMA Inductive == IInv /\ [Next]_vars => IInv'
  BY FirstSetupStep, VideoSetupStep, AudioSetupStep, TeardownStep, ConnDestroyStep,
     DestroyActiveStep, MirrorEndsStep, QuietStep DEF Next, Setup

(* What the inductive invariant is for. *)
LEMMA SessionsImplied ==
    IInv => PointersInv /\ OwnedInv /\ GoneInv /\ ConnInv /\ StopsInv
  <1>1. IInv => GoneInv
    <2> SUFFICES ASSUME IInv, server = "gone", NEW s \in Sessions
                 PROVE  ~Exists(rtp[s]) /\ ~Exists(mirror[s])
      BY DEF GoneInv
    <2>1. \A c \in Conns : raop_rtp[c] = NoSession /\ raop_rtp_mirror[c] = NoSession
      BY DEF IInv, LeftInv, ConnInv
    <2>2. active_rtps = {} /\ active_mirrors = {} /\ s # NoSession
      BY SessionsAssumption DEF IInv, LeftInv
    <2> QED
      BY <2>1, <2>2 DEF IInv, OwnedInv
  <1>2. IInv => StopsInv
    BY DEF IInv, StopsInv, StopCountInv, PointersInv, TypeOK, ObjectStates
  <1>3. IInv => PointersInv /\ OwnedInv /\ ConnInv
    BY DEF IInv
  <1> QED
    BY <1>1, <1>2, <1>3

(***************************************************************************)
(* For any number of connections and sessions and tables of any size:      *)
(* no pointer dangles, nothing that exists is lost, nothing exists after   *)
(* raop_destroy, and every mirror stream that stopped was announced once   *)
(* or twice (raop.c:236-458, 517-532).                                     *)
(***************************************************************************)
THEOREM Ownership == Spec => [](PointersInv /\ OwnedInv /\ GoneInv /\ ConnInv /\ StopsInv)
  BY InitIInv, Inductive, SessionsImplied, PTL DEF Spec

-----------------------------------------------------------------------------
(***************************************************************************)
(* The HTTP pool (Httpd), and the pool with the sessions (RaopControl)     *)
(***************************************************************************)
Records == [slot : Slots, user : Users]

(* The pool: the counter counts, a slot and a user have one connection. *)
CountInv ==
    /\ IsFiniteSet(connections)
    /\ open_connections = Cardinality(connections)
UniqueInv == \A c, d \in connections : c.slot = d.slot \/ c.user = d.user => c = d
LiveInv == live = {c.user : c \in connections}

(* select saw the server socket: the pool was not full, and nothing was added since. *)
RoomInv == thread = "accept" /\ 0 \in rfds => open_connections < MaxConnections

EmptyInv == thread \in {"none", "done"} => connections = {} /\ server_fd4 = "closed"

(* What the owner knows of the thread. *)
StartInv ==
    /\ JoinedInv
    /\ ~joined => thread # "none"
    /\ owner = "join" => ~joined /\ ~running

PoolIInv == HttpdTypeOK /\ CountInv /\ UniqueInv /\ LiveInv
HttpdIInv == PoolIInv /\ RoomInv /\ EmptyInv /\ StartInv

USE PoolAssumption DEF httpdVars, poolVars, ownerVars

(* The first free slot is free (the loop of httpd_add_connection). *)
LEMMA FirstFree ==
  ASSUME FreeSlots # {}
  PROVE  Min(FreeSlots) \in Slots \ Connected
  <1>1. FreeSlots \subseteq Nat
    BY DEF FreeSlots, Slots
  <1>2. PICK x \in FreeSlots : \A y \in FreeSlots : ~ (<<y, x>> \in OpToRel(<, Nat))
    BY <1>1, WFMin, NatLessThanWellFounded, Zenon
  <1>3. \A y \in FreeSlots : x =< y
    <2> TAKE y \in FreeSlots
    <2>1. ~ (y < x)
      BY <1>1, <1>2 DEF OpToRel
    <2> QED BY <1>1, <2>1
  <1>4. Min(FreeSlots) \in FreeSlots
    BY <1>2, <1>3, Zenon DEF Min
  <1> QED BY <1>4 DEF FreeSlots

(* A pool that counts fewer connections than slots has a free slot. *)
LEMMA Room ==
  ASSUME PoolIInv, open_connections < MaxConnections
  PROVE  FreeSlots # {}
  <1> SUFFICES ASSUME FreeSlots = {} PROVE FALSE
    OBVIOUS
  <1> DEFINE f == [c \in connections |-> c.slot]
  <1>1. f \in Surjection(connections, Connected)
    BY DEF Connected, Surjection
  <1>2. /\ IsFiniteSet(Connected)
        /\ Cardinality(Connected) =< Cardinality(connections)
    BY <1>1, FS_Surjection DEF PoolIInv, CountInv
  <1>3. Slots \in SUBSET Connected
    BY DEF FreeSlots
  <1>4. Cardinality(Slots) =< Cardinality(Connected)
    BY <1>2, <1>3, FS_Subset
  <1>5. Cardinality(Slots) = MaxConnections
    BY FS_Interval DEF Slots
  <1>6. Cardinality(Connected) \in Nat /\ Cardinality(connections) \in Nat
    BY <1>2, FS_CardinalityType DEF PoolIInv, CountInv
  <1> QED BY <1>2, <1>4, <1>5, <1>6 DEF PoolIInv, CountInv

(* httpd_remove_connection. *)
LEMMA RemoveStep ==
  ASSUME PoolIInv, NEW c \in connections, Remove(c)
  PROVE  /\ connections' \subseteq connections /\ live' \subseteq Users
         /\ open_connections' \in 0 .. MaxConnections
         /\ open_connections' =< open_connections
         /\ CountInv' /\ UniqueInv' /\ LiveInv'
  <1>1. connections' = connections \ {c} /\ live' = live \ {c.user}
        /\ open_connections' = open_connections - 1
    BY DEF Remove
  <1>2. CountInv' /\ open_connections' \in Nat
    <2>1. IsFiniteSet(connections') /\ Cardinality(connections') = Cardinality(connections) - 1
      BY <1>1, FS_RemoveElement DEF PoolIInv, CountInv
    <2> QED BY <1>1, <2>1, FS_CardinalityType DEF PoolIInv, CountInv
  <1>3. UniqueInv'
    BY <1>1 DEF PoolIInv, UniqueInv
  <1>4. LiveInv'
    <2>1. \A d \in connections \ {c} : d.user # c.user
      BY DEF PoolIInv, UniqueInv
    <2> QED BY <1>1, <2>1 DEF PoolIInv, LiveInv
  <1>5. live' \subseteq Users
    BY <1>1 DEF PoolIInv, HttpdTypeOK
  <1>6. open_connections' \in 0 .. MaxConnections /\ open_connections' =< open_connections
    BY <1>1, <1>2 DEF PoolIInv, HttpdTypeOK
  <1> QED BY <1>1, <1>2, <1>3, <1>4, <1>5, <1>6

(* httpd_add_connection. *)
LEMMA AddStep ==
  ASSUME HttpdIInv, AddConnection
  PROVE  HttpdIInv'
  <1>1. PICK u \in Users \ live :
          /\ connections' = connections \cup
                {[slot |-> Min(FreeSlots), user |-> u]}
          /\ live' = live \cup {u}
    BY DEF AddConnection
  <1> DEFINE new == [slot |-> Min(FreeSlots), user |-> u]
  <1>2. /\ FreeSlots # {} /\ thread = "accept" /\ 0 \in rfds
        /\ open_connections' = open_connections + 1 /\ thread' = "scan"
        /\ UNCHANGED <<ownerVars, server_fd4, rfds>>
    BY DEF AddConnection
  <1>3. Min(FreeSlots) \in Slots /\ \A c \in connections : c.slot # Min(FreeSlots)
    BY <1>2, FirstFree DEF Connected
  <1>4. new \in Records /\ new.slot = Min(FreeSlots) /\ new.user = u
    BY <1>3 DEF Records
  <1>5. \A c \in connections : c.slot # new.slot /\ c.user # new.user
    BY <1>3, <1>4 DEF HttpdIInv, PoolIInv, LiveInv
  <1>6. connections' = connections \cup {new}
    BY <1>1
  <1> HIDE DEF new
  <1>7. CountInv'
    <2>1. new \notin connections
      BY <1>5
    <2>2. IsFiniteSet(connections') /\ Cardinality(connections') = Cardinality(connections) + 1
      BY <1>6, <2>1, FS_AddElement DEF HttpdIInv, PoolIInv, CountInv
    <2> QED BY <1>2, <2>2 DEF HttpdIInv, PoolIInv, CountInv
  <1>8. UniqueInv'
    BY <1>5, <1>6 DEF HttpdIInv, PoolIInv, UniqueInv
  <1>9. LiveInv'
    BY <1>1, <1>4, <1>6 DEF HttpdIInv, PoolIInv, LiveInv
  <1>10. HttpdTypeOK'
    <2>1. open_connections' \in 0 .. MaxConnections
      BY <1>2 DEF HttpdIInv, PoolIInv, HttpdTypeOK, RoomInv
    <2>2. connections' \subseteq Records /\ live' \subseteq Users
      BY <1>1, <1>4, <1>6 DEF HttpdIInv, PoolIInv, HttpdTypeOK, Records
    <2> QED BY <1>2, <2>1, <2>2 DEF HttpdIInv, PoolIInv, HttpdTypeOK, Records
  <1>11. RoomInv' /\ EmptyInv' /\ StartInv'
    BY <1>2 DEF HttpdIInv, RoomInv, EmptyInv, StartInv, JoinedInv
  <1> QED BY <1>7, <1>8, <1>9, <1>10, <1>11 DEF HttpdIInv, PoolIInv

(* A connection ends: by its request, or in the cleanup of the thread. *)
LEMMA EndStep ==
  ASSUME HttpdIInv, ScanRemove \/ Cleanup
  PROVE  HttpdIInv'
  <1>1. PICK c \in connections : Remove(c)
    BY DEF ScanRemove, Cleanup, Due
  <1>2. /\ UNCHANGED <<ownerVars, server_fd4, thread>>
        /\ thread \in {"scan", "cleanup"} /\ rfds' \subseteq rfds
    BY DEF ScanRemove, Cleanup
  <1>3. PoolIInv
    BY DEF HttpdIInv
  <1>4. /\ connections' \subseteq connections /\ live' \subseteq Users
        /\ open_connections' \in 0 .. MaxConnections
        /\ CountInv' /\ UniqueInv' /\ LiveInv'
    BY <1>1, <1>3, RemoveStep
  <1>5. HttpdTypeOK'
    BY <1>2, <1>4 DEF HttpdIInv, PoolIInv, HttpdTypeOK
  <1>6. RoomInv' /\ EmptyInv' /\ StartInv'
    BY <1>2 DEF HttpdIInv, RoomInv, EmptyInv, StartInv, JoinedInv
  <1> QED BY <1>4, <1>5, <1>6 DEF HttpdIInv, PoolIInv

(* What leaves the pool alone: the owner, a request, and the steps between. *)
LEMMA OtherStep ==
  ASSUME HttpdIInv,
         \/ Start \/ StopBegin \/ StopJoined \/ Check \/ SelectReady \/ SelectTimeout
         \/ SelectError \/ NothingToAccept \/ AcceptError \/ AddFails \/ ScanKeep
         \/ ScanDone \/ Finish
  PROVE  HttpdIInv'
  <1>1. UNCHANGED poolVars
    BY DEF Start, StopBegin, StopJoined, Check, SelectReady, SelectTimeout, SelectError,
       NothingToAccept, AcceptError, AddFails, ScanKeep, ScanDone, Finish
  <1>2. CountInv' /\ UniqueInv' /\ LiveInv'
    BY <1>1 DEF HttpdIInv, PoolIInv, CountInv, UniqueInv, LiveInv
  <1>3. HttpdTypeOK'
    <2>1. rfds' \subseteq {0} \cup Slots
      <3>1. CASE SelectReady
        <4>1. rfds' \subseteq Watched
          BY <3>1 DEF SelectReady
        <4>2. Watched \subseteq {0} \cup Slots
          BY DEF Watched, Connected, HttpdIInv, PoolIInv, HttpdTypeOK
        <4> QED BY <4>1, <4>2
      <3>2. CASE rfds' \subseteq rfds
        BY <3>2 DEF HttpdIInv, PoolIInv, HttpdTypeOK
      <3> QED BY <3>1, <3>2 DEF Start, StopBegin, StopJoined, Check, SelectTimeout,
           SelectError, NothingToAccept, AcceptError, AddFails, ScanKeep, ScanDone, Finish
    <2>2. /\ running' \in BOOLEAN /\ joined' \in BOOLEAN
          /\ server_fd4' \in {"closed", "listening"} /\ owner' \in {"idle", "join"}
          /\ thread' \in {"none", "check", "select", "accept", "scan", "cleanup", "done"}
      BY DEF HttpdIInv, PoolIInv, HttpdTypeOK, Start, StopBegin, StopJoined, Check, SelectReady,
         SelectTimeout, SelectError, NothingToAccept, AcceptError, AddFails, ScanKeep, ScanDone, Finish
    <2> QED BY <1>1, <2>1, <2>2 DEF HttpdIInv, PoolIInv, HttpdTypeOK
  <1>4. RoomInv'
    <2>1. CASE SelectReady
      <3>1. rfds' \subseteq Watched
        BY <2>1 DEF SelectReady
      <3>2. 0 \notin Connected
        BY DEF Connected, Slots, HttpdIInv, PoolIInv, HttpdTypeOK
      <3>3. 0 \in rfds' => open_connections < MaxConnections
        BY <3>1, <3>2 DEF Watched
      <3> QED BY <1>1, <3>3 DEF RoomInv
    <2>2. CASE thread' = thread /\ rfds' \subseteq rfds
      BY <1>1, <2>2 DEF HttpdIInv, RoomInv
    <2>3. CASE thread' # "accept"
      BY <2>3 DEF RoomInv
    <2> QED BY <2>1, <2>2, <2>3 DEF Start, StopBegin, StopJoined, Check, SelectTimeout,
         SelectError, NothingToAccept, AcceptError, AddFails, ScanKeep, ScanDone, Finish
  <1>5. EmptyInv' /\ StartInv'
    BY <1>1 DEF HttpdIInv, PoolIInv, HttpdTypeOK, EmptyInv, StartInv, JoinedInv, Start, StopBegin,
       StopJoined, Check, SelectReady, SelectTimeout, SelectError, NothingToAccept,
       AcceptError, AddFails, ScanKeep, ScanDone, Finish
  <1> QED BY <1>2, <1>3, <1>4, <1>5 DEF HttpdIInv, PoolIInv

LEMMA InitInv == HttpdInit => HttpdIInv
  <1> SUFFICES ASSUME HttpdInit PROVE HttpdIInv
    OBVIOUS
  <1>1. CountInv /\ UniqueInv /\ LiveInv
    BY FS_EmptySet DEF HttpdInit, CountInv, UniqueInv, LiveInv
  <1>2. HttpdTypeOK
    <2>1. /\ connections \subseteq [slot : Slots, user : Users]
          /\ rfds \subseteq {0} \cup Slots /\ live \subseteq Users
      BY Zenon DEF HttpdInit
    <2>2. open_connections \in 0 .. MaxConnections
      BY DEF HttpdInit
    <2> QED BY <2>1, <2>2 DEF HttpdInit, HttpdTypeOK
  <1>3. RoomInv /\ EmptyInv /\ StartInv
    BY DEF HttpdInit, RoomInv, EmptyInv, StartInv, JoinedInv
  <1> QED BY <1>1, <1>2, <1>3 DEF HttpdIInv, PoolIInv

LEMMA NextInv ==
  ASSUME HttpdIInv, [HttpdNext]_httpdVars
  PROVE  HttpdIInv'
  <1>1. CASE UNCHANGED httpdVars
    BY <1>1 DEF HttpdIInv, PoolIInv, HttpdTypeOK, CountInv, UniqueInv, LiveInv, RoomInv, EmptyInv,
       StartInv, JoinedInv
  <1>2. CASE HttpdNext
    BY <1>2, AddStep, EndStep, OtherStep DEF HttpdNext, Thread
  <1> QED BY <1>1, <1>2

(* What the invariant of the pool is for. *)
LEMMA PoolImplied ==
  HttpdIInv => PoolInv /\ NeverFullInv /\ StoppedInv /\ JoinedInv
  <1> SUFFICES ASSUME HttpdIInv PROVE PoolInv /\ NeverFullInv /\ StoppedInv /\ JoinedInv
    OBVIOUS
  <1>1. PoolInv
    BY DEF HttpdIInv, PoolIInv, CountInv, UniqueInv, LiveInv, PoolInv
  <1>2. NeverFullInv
    BY Room DEF HttpdIInv, RoomInv, NeverFullInv
  <1>3. StoppedInv
    BY FS_EmptySet DEF HttpdIInv, PoolIInv, CountInv, LiveInv, EmptyInv, StoppedInv
  <1>4. JoinedInv
    BY DEF HttpdIInv, StartInv
  <1> QED BY <1>1, <1>2, <1>3, <1>4

(***************************************************************************)
(* For a pool of any size: the counter is the number of connections and    *)
(* the users of the slots are exactly those initialised and not destroyed  *)
(* (httpd.c:100-128, 170-182), an accepted connection finds a slot (:112), *)
(* a thread that ended left nothing (:337-361), and only a stop makes the  *)
(* server joined (:420-432).                                               *)
(***************************************************************************)
THEOREM PoolSafety == HttpdSpec => [](PoolInv /\ NeverFullInv /\ StoppedInv /\ JoinedInv)
  BY InitInv, NextInv, PoolImplied, PTL DEF HttpdSpec

(***************************************************************************)
(* The composition: a step of the control server is a step of the pool and *)
(* a step of the sessions, or leaves one of them alone.                    *)
(***************************************************************************)
LEMMA UserIsConn ==
  ASSUME HttpdIInv, NEW slot \in Due
  PROVE  slot.user \in Conns
  BY ControlAssumption DEF HttpdIInv, PoolIInv, HttpdTypeOK, Due

LEMMA RequestStep ==
  ASSUME HttpdIInv, conn_request
  PROVE  \E c \in Conns :
           /\ Setup(c) \/ \E a, m \in BOOLEAN : (a \/ m) /\ Teardown(c, a, m)
           /\ Served(c)
  <1>1. PICK slot \in Due :
          /\ \/ Setup(slot.user)
             \/ \E a, m \in BOOLEAN : (a \/ m) /\ Teardown(slot.user, a, m)
          /\ Served(slot.user)
    BY Zenon DEF conn_request
  <1> QED
    BY <1>1, UserIsConn, Zenon

LEMMA SessionsStep ==
  ASSUME HttpdIInv, [ControlNext]_controlVars, ~TimingJoinHangs
  PROVE  [Next]_vars
  <1> USE DEF sessionVars, vars
  <1>1. CASE HttpThread
    <2>1. CASE conn_request
      BY <2>1, RequestStep, Zenon DEF Next
    <2>2. CASE Accept \/ Disconnect
      BY <2>2, Zenon DEF Accept, Disconnect, Next
    <2>3. CASE OtherRequest \/ PoolOnly
      BY <2>3, Zenon DEF OtherRequest, PoolOnly
    <2> QED BY <1>1, <2>1, <2>2, <2>3 DEF HttpThread
  <1>2. CASE ~HttpThread
    <2>1. CASE UNCHANGED controlVars
      BY <2>1, Zenon DEF controlVars
    <2>2. CASE raop_start \/ PoolJoined
      BY <2>2, Zenon DEF raop_start, PoolJoined
    <2>3. CASE StopPool \/ StopNothing \/ raop_destroy_active_sessions \/ MirrorThreadEnds
      BY <2>3, Zenon DEF StopPool, StopNothing, raop_destroy_active_sessions,
         MirrorThreadEnds, Next
    <2> QED BY <1>2, <2>1, <2>2, <2>3 DEF ControlNext
  <1> QED BY <1>1, <1>2

LEMMA PoolStep ==
  ASSUME HttpdIInv, [ControlNext]_controlVars, ~TimingJoinHangs
  PROVE  [HttpdNext]_httpdVars
  <1>1. CASE HttpThread
    <2>1. CASE conn_request
      BY <2>1, RequestStep, Zenon DEF Served, HttpdNext, Thread
    <2>2. CASE Accept \/ Disconnect \/ OtherRequest \/ PoolOnly
      BY <2>2, Zenon DEF Accept, Disconnect, OtherRequest, PoolOnly, HttpdNext, Thread
    <2> QED BY <1>1, <2>1, <2>2 DEF HttpThread
  <1>2. CASE ~HttpThread
    BY <1>2, Zenon DEF ControlNext, controlVars, raop_start, StopPool, StopNothing,
       PoolJoined, raop_destroy_active_sessions, MirrorThreadEnds, HttpdNext
  <1> QED BY <1>1, <1>2

(* The connections that raop.c holds open are the live users of the pool. *)
LinkInv == {c \in Conns : conn[c] # "closed"} = live
ControlIInv == IInv /\ HttpdIInv /\ LinkInv

LEMMA LinkStep ==
  ASSUME ControlIInv, [ControlNext]_controlVars, ~TimingJoinHangs
  PROVE  LinkInv'
  <1>1. conn \in [Conns -> {"closed", "open", "closing"}] /\ LinkInv /\ HttpdIInv
    BY DEF ControlIInv, IInv, PointersInv, TypeOK
  <1>2. CASE UNCHANGED <<conn, live>>
    BY <1>1, <1>2 DEF LinkInv
  <1>3. CASE Accept
    <2>1. PICK c \in Conns : live' = live \cup {c} /\ conn' = [conn EXCEPT ![c] = "open"]
      BY <1>3 DEF Accept, Connect
    <2> QED BY <1>1, <2>1 DEF LinkInv
  <1>4. CASE Disconnect
    <2>1. PICK c \in Conns : live' = live \ {c} /\ conn' = [conn EXCEPT ![c] = "closed"]
      BY <1>4 DEF Disconnect, ConnDestroy
    <2> QED BY <1>1, <2>1 DEF LinkInv
  <1>5. CASE conn_request
    <2>1. PICK c \in Conns :
            /\ Setup(c) \/ \E a, m \in BOOLEAN : (a \/ m) /\ Teardown(c, a, m)
            /\ Served(c)
      BY <1>1, <1>5, RequestStep
    <2>2. UNCHANGED live
      BY <2>1 DEF Served, ScanKeep, poolVars, httpdVars
    <2>3. conn[c] = "open" /\ (conn' = conn \/ conn' = [conn EXCEPT ![c] = "closing"])
      BY <2>1 DEF Setup, SetupRefused, FirstSetup, VideoSetup, AudioSetup,
         AudioSetupUnsupported, Teardown, Ready
    <2> QED BY <1>1, <2>2, <2>3 DEF LinkInv
  <1>6. CASE OtherRequest \/ PoolOnly
    BY <1>2, <1>6 DEF OtherRequest, PoolOnly, ScanKeep, Check, SelectReady, SelectTimeout,
       SelectError, NothingToAccept, AcceptError, AddFails, ScanDone, Finish, poolVars,
       sessionVars, connVars
  <1>7. CASE raop_start \/ StopPool \/ StopNothing \/ PoolJoined
    BY <1>2, <1>7 DEF raop_start, StopPool, StopNothing, PoolJoined, Start, StopBegin,
       StopJoined, StopServer, poolVars, httpdVars, sessionVars, connVars
  <1>8. CASE raop_destroy_active_sessions \/ MirrorThreadEnds
    BY <1>2, <1>8 DEF raop_destroy_active_sessions, MirrorThreadEnds, DestroyActive,
       MirrorEnds, httpdVars, connVars
  <1>9. CASE UNCHANGED controlVars
    BY <1>2, <1>9 DEF controlVars, sessionVars, connVars, httpdVars
  <1> QED
    BY <1>3, <1>4, <1>5, <1>6, <1>7, <1>8, <1>9 DEF ControlNext, HttpThread

(* A join that hangs leaves the connection its pointer, so the session that *)
(* TEARDOWN took out of its table is still found.                           *)
LEMMA HangStep ==
  ASSUME ControlIInv, TimingJoinHangs
  PROVE  ControlIInv'
  <1>1. PICK s \in Sessions :
          TeardownHangs(s) \/ ConnDestroyHangs(s) \/ DestroyActiveHangs(s)
    BY Zenon DEF TimingJoinHangs
  <1>2. UNCHANGED <<server, connVars, active_mirrors, objects, hist, httpdVars>>
    BY Zenon DEF TimingJoinHangs
  <1>3. /\ server' = server /\ conn' = conn /\ setup' = setup
        /\ raop_rtp' = raop_rtp /\ raop_rtp_mirror' = raop_rtp_mirror
        /\ audio_started' = audio_started /\ mirror_started' = mirror_started
        /\ notified' = notified /\ active_mirrors' = active_mirrors
        /\ rtp' = rtp /\ mirror' = mirror /\ made' = made /\ ran' = ran
        /\ stops' = stops /\ live' = live
    BY <1>2, Zenon DEF connVars, pointers, flags, objects, hist, httpdVars
  <1>4. HttpdIInv'
    <2>1. [HttpdNext]_httpdVars
      BY <1>2
    <2> QED BY <2>1, NextInv DEF ControlIInv
  <1>5. LinkInv'
    BY <1>3 DEF ControlIInv, LinkInv
  <1>6. /\ active_rtps' \subseteq active_rtps
        /\ \A t \in active_rtps \ active_rtps' : \E c \in Conns : raop_rtp[c] = t
    <2>1. CASE TeardownHangs(s)
      <3>1. PICK slot \in Due : raop_rtp[slot.user] = s /\ active_rtps' = active_rtps \ {s}
        BY <2>1 DEF TeardownHangs
      <3> QED BY <3>1, UserIsConn DEF ControlIInv
    <2>2. CASE ConnDestroyHangs(s) \/ DestroyActiveHangs(s)
      BY <2>2 DEF ConnDestroyHangs, DestroyActiveHangs
    <2> QED BY <1>1, <2>1, <2>2
  <1>7. IInv
    BY DEF ControlIInv
  <1>8. PointersInv'
    BY <1>3, <1>6, <1>7 DEF IInv, PointersInv, TypeOK
  <1>9. OwnedInv'
    BY <1>3, <1>6, <1>7 DEF IInv, OwnedInv
  <1>10. ConnInv' /\ MadeInv' /\ StopCountInv'
    BY <1>3, <1>7 DEF IInv, ConnInv, MadeInv, StopCountInv
  <1>11. LeftInv'
    BY <1>3, <1>6, <1>7 DEF IInv, LeftInv
  <1> QED
    BY <1>4, <1>5, <1>8, <1>9, <1>10, <1>11 DEF ControlIInv, IInv

(***************************************************************************)
(* The control server, with any number of connections, slots, sessions and *)
(* table entries: the pool and the handlers agree on the connections, no   *)
(* pointer dangles and nothing is lost, and once raop_destroy has returned *)
(* nothing is left that could call back (httpd.c:100-182, raop.c:236-532,  *)
(* jni_raop_server.cpp:385-394).                                           *)
(***************************************************************************)
THEOREM ControlSafety ==
    ControlSpec => [](ServedInv /\ PointersInv /\ OwnedInv /\ GoneInv /\ StopsInv)
  <1>1. ControlInit => ControlIInv
    <2>1. ControlInit => LinkInv
      BY DEF ControlInit, Init, HttpdInit, LinkInv
    <2> QED BY <2>1, InitIInv, InitInv DEF ControlInit, ControlIInv
  <1>2. ControlIInv /\ [ControlNext]_controlVars => ControlIInv'
    <2>1. CASE TimingJoinHangs
      BY <2>1, HangStep
    <2>2. CASE ~TimingJoinHangs
      BY <2>2, LinkStep, SessionsStep, PoolStep, Inductive, NextInv DEF ControlIInv
    <2> QED BY <2>1, <2>2
  <1>3. ControlIInv => ServedInv /\ PointersInv /\ OwnedInv /\ GoneInv /\ StopsInv
    BY SessionsImplied, PoolImplied DEF ControlIInv, LinkInv, ServedInv
  <1> QED BY <1>1, <1>2, <1>3, PTL DEF ControlSpec

(***************************************************************************)
(* Of that, for a reader of raop.c: whatever requests, closed connections  *)
(* and raop_destroy come in whatever order, no connection and no table     *)
(* points to a session that was destroyed (raop.c:236-458).                *)
(***************************************************************************)
THEOREM NoDanglingPointer == ControlSpec => []PointersInv
  BY ControlSafety, PTL

(***************************************************************************)
(* And for a reader of RaopServer.kt: the callback that a mirror stream    *)
(* stopped comes at least once and at most twice for each stream, with a   *)
(* server of any size (raop.c:183-191, 399-420, and for the mirror thread  *)
(* raop_rtp_mirror.c:562-567).                                             *)
(***************************************************************************)
THEOREM StopsAnnounced == ControlSpec => []StopsInv
  BY ControlSafety, PTL
=============================================================================
