-------------------------- MODULE RaopVideo_proofs ---------------------------
(***************************************************************************)
(* Proofs about RaopVideo, for any number of players, sessions and         *)
(* packets and a buffer of any size: whichever thread makes a player, it   *)
(* is the only one that runs, and the field holds it.                      *)
(***************************************************************************)
EXTENDS RaopVideo, TLAPS

Places == {"none", "wait", "route", "add", "ensure", "buffer", "waiting", "replay", "drain",
           "idle", "native", "stop", "join", "stopped", "leave", "reset", "clear"}

(* Where the main thread is under the monitor, whatever it came from. *)
Held == {"ensure", "replay", "drain", "join", "stopped", "leave"}

(***************************************************************************)
(* The monitor: both threads keep to it, so the main thread never stops a  *)
(* player while the mirror thread fills it, nor the other way round.       *)
(***************************************************************************)
LockInv ==
    /\ pc \in [Threads -> Places]
    /\ lock \in Threads \cup {"none"}
    /\ lock = "mirror" <=> pc["mirror"] \in {"replay", "drain"}
    /\ pc["main"] \in Held => lock = "main"
    /\ lock = "main" => pc["main"] \in Held \cup {"stop"}

(* Between stopDecode and the end of stopVideoPlayer nothing runs. *)
JoinInv == pc["main"] = "join" => \A p \in Players : status[p] # "running"

StatusInv ==
    /\ status \in [Players -> {"none", "running", "stopping"}]
    /\ videoPlayer \in Players \cup {0}

IInv == LockInv /\ StatusInv /\ JoinInv /\ OnePlayer

USE DEF sessionVars, playerVars, bufferVars, callVars, nativeVars, vars, Threads

(* Only three steps make, stop or give up a player; the others leave them. *)
LEMMA StatusStep ==
  ASSUME IInv, UNCHANGED <<videoPlayer, status>>, pc["main"] # "join" => pc'["main"] # "join"
  PROVE  StatusInv' /\ OnePlayer' /\ JoinInv'
  BY DEF IInv, StatusInv, OnePlayer, JoinInv

LEMMA InitInv == Init => IInv
  <1> SUFFICES ASSUME Init PROVE IInv
    OBVIOUS
  <1>1. pc \in [Threads -> Places]
    BY DEF Init, Places
  <1>2. LockInv
    BY <1>1 DEF Init, LockInv, Held
  <1>3. StatusInv /\ JoinInv /\ OnePlayer
    BY DEF Init, StatusInv, JoinInv, OnePlayer
  <1> QED BY <1>2, <1>3 DEF IInv

(***************************************************************************)
(* ensureVideoPlayer, on either thread.                                    *)
(***************************************************************************)
LEMMA EnsureStep ==
  ASSUME IInv, NEW t \in Threads, Ensure(t)
  PROVE  IInv'
  <1>1. CASE Create(t)
    <2>1. PICK p \in Players :
            /\ videoPlayer' = p
            /\ status' = [status EXCEPT ![p] = "running"]
      BY <1>1 DEF Create, CreateIf
    <2>2. /\ pc[t] = "ensure" /\ lock \in {"none", t} /\ videoPlayer = 0
          /\ lock' = t /\ pc' = [pc EXCEPT ![t] = "replay"]
      BY <1>1 DEF Create, CreateIf, Free, Goto
    <2>3. LockInv'
      <3>1. pc' \in [Threads -> Places]
        BY <2>2 DEF IInv, LockInv, Places
      <3>2. CASE t = "main"
        BY <2>2, <3>1, <3>2 DEF IInv, LockInv, Held
      <3>3. CASE t = "mirror"
        BY <2>2, <3>1, <3>3 DEF IInv, LockInv, Held
      <3> QED BY <3>2, <3>3
    <2>4. \A q \in Players : status[q] # "running"
      BY <2>2, 0 \notin Players DEF IInv, OnePlayer, Players
    <2>5. StatusInv' /\ OnePlayer'
      BY <2>1, <2>4 DEF IInv, StatusInv, OnePlayer
    <2>6. pc'["main"] # "join"
      BY <2>2 DEF IInv, LockInv, Held
    <2> QED BY <2>3, <2>5, <2>6 DEF IInv, JoinInv
  <1>2. CASE ~Create(t)
    <2>1. UNCHANGED <<videoPlayer, status>>
      BY <1>2 DEF Ensure, EnsureExists, EnsureNoSurface, Replay, DrainOne, DrainDone
    <2>2. \/ UNCHANGED <<pc, lock>>
          \/ /\ pc[t] = "ensure" /\ lock' = lock
             /\ pc' = [pc EXCEPT ![t] = IF t = "mirror" THEN "add" ELSE "leave"]
          \/ /\ pc[t] = "ensure" /\ lock' = lock
             /\ pc' = [pc EXCEPT ![t] = IF t = "mirror" THEN "buffer" ELSE "leave"]
          \/ pc[t] = "replay" /\ lock' = lock /\ pc' = [pc EXCEPT ![t] = "drain"]
          \/ /\ pc[t] = "drain" /\ lock' = IF t = "mirror" THEN "none" ELSE lock
             /\ pc' = [pc EXCEPT ![t] = IF t = "mirror" THEN "add" ELSE "leave"]
      BY <1>2 DEF Ensure, EnsureExists, EnsureNoSurface, Replay, DrainOne, DrainDone, Goto
    <2>3. pc' \in [Threads -> Places]
      BY <2>2 DEF IInv, LockInv, Places
    <2>4. LockInv'
      <3>1. CASE t = "main"
        BY <2>2, <2>3, <3>1 DEF IInv, LockInv, Held
      <3>2. CASE t = "mirror"
        BY <2>2, <2>3, <3>2 DEF IInv, LockInv, Held
      <3> QED BY <3>1, <3>2
    <2>5. pc["main"] # "join" => pc'["main"] # "join"
      BY <2>2 DEF IInv, LockInv
    <2> QED BY <2>1, <2>4, <2>5, StatusStep DEF IInv
  <1> QED BY <1>1, <1>2

(***************************************************************************)
(* The mirror thread outside of the monitor.                               *)
(***************************************************************************)
LEMMA MirrorStepInv ==
  ASSUME IInv, StartStream \/ Receive \/ EndStream \/ Route \/ AddPacket \/ BufferPacket \/ Buffered
  PROVE  IInv'
  <1>1. UNCHANGED <<videoPlayer, status, lock>>
    BY DEF StartStream, Receive, EndStream, Route, AddPacket, BufferPacket, Buffered
  <1>2. PICK l \in Places \ {"replay", "drain"} : pc' = [pc EXCEPT !["mirror"] = l]
    BY DEF StartStream, Receive, EndStream, Route, AddPacket, BufferPacket,
       Buffered, Goto, Places
  <1>3. pc["mirror"] \notin {"replay", "drain"}
    BY DEF StartStream, Receive, EndStream, Route, AddPacket, BufferPacket, Buffered
  <1>4. LockInv' /\ pc'["main"] = pc["main"]
    BY <1>1, <1>2, <1>3 DEF IInv, LockInv
  <1> QED BY <1>1, <1>4, StatusStep DEF IInv

(***************************************************************************)
(* The main thread: stopVideoPlayer.                                       *)
(***************************************************************************)
LEMMA StopStep ==
  ASSUME IInv, StopDecode \/ Join
  PROVE  IInv'
  <1>1. CASE StopDecode
    <2>1. /\ pc["main"] = "stop" /\ lock \in {"none", "main"} /\ lock' = "main"
          /\ pc' = [pc EXCEPT !["main"] = "join"] /\ videoPlayer' = videoPlayer
          /\ status' = IF videoPlayer = 0 THEN status
                       ELSE [status EXCEPT ![videoPlayer] = "stopping"]
      BY <1>1 DEF StopDecode, Free, Goto
    <2>2. LockInv'
      BY <2>1 DEF IInv, LockInv, Held, Places
    <2>3. \A p \in Players : status'[p] # "running"
      BY <2>1, 0 \notin Players DEF IInv, StatusInv, OnePlayer, Players
    <2>4. StatusInv'
      BY <2>1 DEF IInv, StatusInv
    <2> QED BY <2>2, <2>3, <2>4 DEF IInv, JoinInv, OnePlayer
  <1>2. CASE Join
    <2>1. /\ pc["main"] = "join" /\ lock' \in {"none", lock} /\ videoPlayer' = 0
          /\ status' = status
      BY <1>2 DEF Join
    <2>2. \/ lock' = "none" /\ pc' \in {[pc EXCEPT !["main"] = "idle"], [pc EXCEPT !["main"] = "reset"]}
          \/ lock' = lock /\ pc' = [pc EXCEPT !["main"] = "stopped"]
      BY <1>2 DEF Join, Return, Goto
    <2>3. LockInv'
      BY <2>1, <2>2 DEF IInv, LockInv, Held, Places
    <2>4. StatusInv' /\ OnePlayer'
      BY <2>1 DEF IInv, StatusInv, JoinInv, OnePlayer
    <2>5. pc'["main"] # "join"
      BY <2>2 DEF IInv, LockInv
    <2> QED BY <2>3, <2>4, <2>5 DEF IInv, JoinInv
  <1> QED BY <1>1, <1>2

(***************************************************************************)
(* The main thread: everything else.                                       *)
(***************************************************************************)
LEMMA MainStepInv ==
  ASSUME IInv,
         \/ attachSurface \/ detachSurface \/ setVideoMode \/ stopServer \/ Watchdogs
         \/ HandleStop \/ NativeStopped \/ Detached \/ Restart \/ LeaveMain
         \/ resetSessionCounters \/ clearPreSurfaceBuffer
  PROVE  IInv'
  <1>1. UNCHANGED <<videoPlayer, status>>
    BY DEF attachSurface, detachSurface, setVideoMode, stopServer, StopServerWith, Watchdogs,
       StartupWatchdog, FinalWatchdog, RenderWatchdog, HandleStop, NativeStopped,
       Detached, Restart, LeaveMain, LeaveArming, resetSessionCounters,
       clearPreSurfaceBuffer, ClearTo
  <1>2. CASE attachSurface \/ detachSurface
    <2>1. pc["main"] = "idle" /\ lock \in {"none", "main"} /\ lock' \in {"none", "main"}
      BY <1>2 DEF attachSurface, detachSurface, Begin, Free
    <2>2. PICK l \in {"idle", "ensure", "stop"} :
            /\ pc' = [pc EXCEPT !["main"] = l]
            /\ l = "ensure" => lock' = "main"
            /\ l = "idle" => lock' = "none"
      BY <1>2, <2>1 DEF attachSurface, detachSurface, Begin, Goto, IInv, LockInv
    <2>3. LockInv' /\ pc'["main"] # "join"
      BY <2>1, <2>2 DEF IInv, LockInv, Held, Places
    <2> QED BY <1>1, <2>3, StatusStep DEF IInv
  <1>3. CASE setVideoMode \/ stopServer \/ Watchdogs \/ HandleStop \/ NativeStopped
             \/ resetSessionCounters \/ clearPreSurfaceBuffer
    <2>1. lock' = lock
      BY <1>3 DEF setVideoMode, stopServer, StopServerWith, Watchdogs, StartupWatchdog,
         FinalWatchdog, RenderWatchdog, HandleStop, NativeStopped,
         resetSessionCounters, clearPreSurfaceBuffer, ClearTo
    <2>2. PICK l \in {"idle", "stop", "native", "clear"} :
            pc' = pc \/ pc' = [pc EXCEPT !["main"] = l]
      BY <1>3 DEF setVideoMode, stopServer, StopServerWith, Watchdogs, StartupWatchdog,
         FinalWatchdog, RenderWatchdog, HandleStop, NativeStopped,
         resetSessionCounters, clearPreSurfaceBuffer, ClearTo, Begin, Return, Goto
    <2>3. pc["main"] \in {"idle", "native", "reset", "clear"}
      BY <1>3 DEF setVideoMode, stopServer, StopServerWith, Watchdogs, StartupWatchdog,
         FinalWatchdog, RenderWatchdog, HandleStop, NativeStopped,
         resetSessionCounters, clearPreSurfaceBuffer, ClearTo, Begin
    <2>4. LockInv' /\ (pc["main"] # "join" => pc'["main"] # "join")
      BY <2>1, <2>2, <2>3 DEF IInv, LockInv, Held, Places
    <2> QED BY <1>1, <2>4, StatusStep DEF IInv
  <1>4. CASE Detached \/ Restart \/ LeaveMain
    <2>1. pc["main"] \in {"stopped", "leave"}
      BY <1>4 DEF Detached, Restart, LeaveMain, LeaveArming
    <2>2. PICK l \in {"idle", "ensure", "leave"} :
            /\ pc' = [pc EXCEPT !["main"] = l]
            /\ lock' = IF l = "idle" THEN "none" ELSE lock
      BY <1>4 DEF Detached, Restart, LeaveMain, LeaveArming, Return, Goto
    <2>3. LockInv' /\ pc'["main"] # "join"
      BY <2>1, <2>2 DEF IInv, LockInv, Held, Places
    <2> QED BY <1>1, <2>3, StatusStep DEF IInv
  <1> QED BY <1>2, <1>3, <1>4

(***************************************************************************)
(* The thread of a player: it renders, or it ends.                         *)
(***************************************************************************)
LEMMA PlayerStep ==
  ASSUME IInv, NEW p \in Players, Render(p) \/ PlayerEnds(p)
  PROVE  IInv'
  <1>1. /\ UNCHANGED <<videoPlayer, lock, pc>>
        /\ status' \in {status, [status EXCEPT ![p] = "none"]}
    BY DEF Render, PlayerEnds
  <1>2. LockInv'
    BY <1>1 DEF IInv, LockInv
  <1>3. StatusInv' /\ OnePlayer' /\ JoinInv'
    BY <1>1 DEF IInv, StatusInv, OnePlayer, JoinInv
  <1> QED BY <1>2, <1>3 DEF IInv

LEMMA NextInv ==
  ASSUME IInv, [Next]_vars
  PROVE  IInv'
  <1>1. CASE UNCHANGED vars
    BY <1>1 DEF IInv, LockInv, StatusInv, JoinInv, OnePlayer
  <1>2. CASE Next
    BY <1>2, EnsureStep, MirrorStepInv, StopStep, MainStepInv, PlayerStep
    DEF Next, MirrorStep, MainStep
  <1> QED BY <1>1, <1>2

(***************************************************************************)
(* For any number of players and packets: although attachSurface and the   *)
(* mirror thread may both call ensureVideoPlayer, the watchdogs restart    *)
(* the decoder and a late onStreamStopped stops it, one player runs and it *)
(* is the one of the field (RaopServer.kt:514-555).                        *)
(***************************************************************************)
THEOREM OnePlayerAlways == Spec => []OnePlayer
  <1>1. Init => IInv
    BY InitInv
  <1>2. IInv /\ [Next]_vars => IInv'
    BY NextInv
  <1>3. IInv => OnePlayer
    BY DEF IInv
  <1> QED BY <1>1, <1>2, <1>3, PTL DEF Spec

-----------------------------------------------------------------------------
(***************************************************************************)
(* The memory of the frames                                                *)
(***************************************************************************)
Given(n) == \E p \in Players : \E i \in DOMAIN fed[p] : fed[p][i] = n
Waits(n) == \E j \in DOMAIN preSurfaceBuffer : preSurfaceBuffer[j] = n

(* Where the mirror thread has a packet that it handed to nobody yet. *)
InHand == {"route", "add", "ensure", "buffer", "replay", "drain"}

SequencesInv ==
    /\ sent \in Seq([session : Nat, config : BOOLEAN]) /\ session \in Nat
    /\ fed \in [Players -> Seq(DOMAIN sent)]
    /\ preSurfaceBuffer \in Seq(DOMAIN sent) /\ Len(preSurfaceBuffer) <= PreSurface
    /\ cachedCodecConfig \in {0} \cup DOMAIN sent
    /\ cachedCodecConfig # 0 => isCodecConfig(cachedCodecConfig)
    /\ surface \in BOOLEAN /\ timers \subseteq {"startup", "final", "render"}

(* The player that a thread feeds exists. *)
FieldInv ==
    /\ \A t \in Threads : pc[t] \in {"replay", "drain"} => videoPlayer # 0
    /\ pc["mirror"] = "add" => player \in Players

(* Frames are given once. *)
GivenInv ==
    \A p, q \in Players : \A i \in DOMAIN fed[p], j \in DOMAIN fed[q] :
        IsFrame(fed[p][i]) /\ fed[p][i] = fed[q][j] => p = q /\ i = j

(* Frames alone wait, each in one place, and none that was given. *)
WaitsInv ==
    /\ \A i, j \in DOMAIN preSurfaceBuffer :
         IsFrame(preSurfaceBuffer[i]) /\ (preSurfaceBuffer[i] = preSurfaceBuffer[j] => i = j)
    /\ \A n \in DOMAIN sent : Waits(n) => ~Given(n)

(* A frame in the hand of the mirror thread is nowhere else. *)
HandInv ==
    pc["mirror"] \in InHand =>
        /\ sent # <<>>
        /\ IsFrame(Len(sent)) => ~Given(Len(sent)) /\ ~Waits(Len(sent))

FrameInv == SequencesInv /\ FieldInv /\ GivenInv /\ WaitsInv /\ HandInv

(***************************************************************************)
(* What addPacket does to what the players have.                           *)
(***************************************************************************)
LEMMA GiveStep ==
  ASSUME SequencesInv, GivenInv, NEW p \in Players, NEW n \in DOMAIN sent,
         fed' = [fed EXCEPT ![p] = Append(@, n)], sent' = sent,
         IsFrame(n) => ~Given(n)
  PROVE  /\ fed' \in [Players -> Seq(DOMAIN sent)]
         /\ GivenInv'
         /\ \A m : Given(m)' => Given(m) \/ m = n
  <1>1. \A q \in Players : fed[q] \in Seq(DOMAIN sent)
    BY DEF SequencesInv
  <1>2. \A q \in Players : q # p => fed'[q] = fed[q]
    BY DEF SequencesInv
  <1>3. fed'[p] = Append(fed[p], n)
    BY DEF SequencesInv
  <1>4. /\ DOMAIN fed'[p] = DOMAIN fed[p] \cup {Len(fed[p]) + 1}
        /\ Len(fed[p]) + 1 \notin DOMAIN fed[p]
        /\ fed'[p][Len(fed[p]) + 1] = n
        /\ \A i \in DOMAIN fed[p] : fed'[p][i] = fed[p][i]
    BY <1>1, <1>3
  <1>5. \A q \in Players : \A i \in DOMAIN fed'[q] :
          \/ i \in DOMAIN fed[q] /\ fed'[q][i] = fed[q][i]
          \/ q = p /\ i = Len(fed[p]) + 1 /\ fed'[q][i] = n
    BY <1>2, <1>4
  <1>6. fed' \in [Players -> Seq(DOMAIN sent)]
    BY <1>1 DEF SequencesInv
  <1>7. GivenInv'
    BY <1>5 DEF GivenInv, IsFrame, isCodecConfig, Given
  <1>8. \A m : Given(m)' => Given(m) \/ m = n
    BY <1>5 DEF Given
  <1> QED BY <1>6, <1>7, <1>8

(* A new player, or one that ended, has nothing. *)
LEMMA EmptyStep ==
  ASSUME SequencesInv, GivenInv, NEW p \in Players,
         fed' = [fed EXCEPT ![p] = <<>>], sent' = sent
  PROVE  /\ fed' \in [Players -> Seq(DOMAIN sent)]
         /\ GivenInv'
         /\ \A m : Given(m)' => Given(m)
  <1>1. \A q \in Players : q # p => fed'[q] = fed[q]
    BY DEF SequencesInv
  <1>2. DOMAIN fed'[p] = {}
    BY DEF SequencesInv
  <1>3. \A q \in Players : \A i \in DOMAIN fed'[q] : i \in DOMAIN fed[q] /\ fed'[q][i] = fed[q][i]
    BY <1>1, <1>2
  <1>4. fed' \in [Players -> Seq(DOMAIN sent)]
    BY DEF SequencesInv
  <1>5. GivenInv'
    BY <1>3 DEF GivenInv, IsFrame, isCodecConfig
  <1>6. \A m : Given(m)' => Given(m)
    BY <1>3 DEF Given
  <1> QED BY <1>4, <1>5, <1>6

(* Steps that give, receive and keep no packet. *)
LEMMA KeepStep ==
  ASSUME SequencesInv, GivenInv, WaitsInv, HandInv,
         UNCHANGED <<fed, preSurfaceBuffer, cachedCodecConfig, sent>>,
         session' \in Nat, surface' \in BOOLEAN, timers' \subseteq {"startup", "final", "render"},
         pc'["mirror"] \in InHand => pc["mirror"] \in InHand
  PROVE  SequencesInv' /\ GivenInv' /\ WaitsInv' /\ HandInv'
  <1>1. SequencesInv'
    BY DEF SequencesInv, isCodecConfig
  <1>2. GivenInv' /\ WaitsInv'
    BY DEF GivenInv, WaitsInv, Given, Waits, IsFrame, isCodecConfig
  <1>3. HandInv'
    BY DEF HandInv, Given, Waits, IsFrame, isCodecConfig
  <1> QED BY <1>1, <1>2, <1>3

(***************************************************************************)
(* ensureVideoPlayer: a new player starts with the codec config and what   *)
(* waited; on the mirror thread with the packet in its hand still apart.   *)
(***************************************************************************)
LEMMA EnsureFrames ==
  ASSUME IInv, FrameInv, NEW t \in Threads, Ensure(t)
  PROVE  SequencesInv' /\ GivenInv' /\ WaitsInv' /\ HandInv'
  <1> USE DEF FrameInv
  <1>1. /\ UNCHANGED <<surface, timers, session, sent, cachedCodecConfig>>
        /\ pc'["mirror"] \in InHand => pc["mirror"] \in InHand
    BY DEF Ensure, EnsureExists, EnsureNoSurface, Create, CreateIf, Replay, DrainOne,
       DrainDone, Goto, InHand, IInv, LockInv
  <1>2. CASE EnsureExists(t) \/ EnsureNoSurface(t) \/ DrainDone(t)
    BY <1>1, <1>2, KeepStep DEF EnsureExists, EnsureNoSurface, DrainDone, SequencesInv
  <1>3. CASE Create(t)
    <2>1. PICK p \in Players : fed' = [fed EXCEPT ![p] = <<>>] /\ preSurfaceBuffer' = preSurfaceBuffer
      BY <1>3 DEF Create, CreateIf
    <2>2. /\ fed' \in [Players -> Seq(DOMAIN sent)]
          /\ GivenInv'
          /\ \A m : Given(m)' => Given(m)
      BY <1>1, <2>1, EmptyStep
    <2>3. SequencesInv'
      BY <1>1, <2>1, <2>2 DEF SequencesInv, isCodecConfig
    <2>4. WaitsInv'
      BY <1>1, <2>1, <2>2 DEF WaitsInv, Waits, IsFrame, isCodecConfig
    <2>5. HandInv'
      BY <1>1, <2>1, <2>2 DEF HandInv, Waits, IsFrame, isCodecConfig
    <2> QED BY <2>2, <2>3, <2>4, <2>5
  <1>4. CASE Replay(t)
    <2>1. CASE cachedCodecConfig = 0
      BY <1>1, <1>4, <2>1, KeepStep DEF Replay, SequencesInv
    <2>2. CASE cachedCodecConfig # 0
      <3>1. /\ videoPlayer \in Players /\ preSurfaceBuffer' = preSurfaceBuffer
            /\ fed' = [fed EXCEPT ![videoPlayer] = Append(@, cachedCodecConfig)]
        BY <1>4, <2>2 DEF Replay, FieldInv, IInv, StatusInv
      <3>2. cachedCodecConfig \in DOMAIN sent /\ ~IsFrame(cachedCodecConfig)
        BY <2>2 DEF SequencesInv, IsFrame
      <3>3. /\ fed' \in [Players -> Seq(DOMAIN sent)]
            /\ GivenInv'
            /\ \A m : Given(m)' => Given(m) \/ m = cachedCodecConfig
        BY <1>1, <3>1, <3>2, GiveStep
      <3>4. SequencesInv'
        BY <1>1, <3>1, <3>3 DEF SequencesInv, isCodecConfig
      <3>5. WaitsInv'
        BY <1>1, <3>1, <3>2, <3>3 DEF WaitsInv, Waits, IsFrame, isCodecConfig
      <3>6. HandInv'
        BY <1>1, <3>1, <3>2, <3>3 DEF HandInv, Waits, IsFrame, isCodecConfig
      <3> QED BY <3>3, <3>4, <3>5, <3>6
    <2> QED BY <2>1, <2>2
  <1>5. CASE DrainOne(t)
    <2> DEFINE n == Head(preSurfaceBuffer)
    <2>1. /\ videoPlayer \in Players
          /\ fed' = [fed EXCEPT ![videoPlayer] = Append(@, n)]
          /\ preSurfaceBuffer # <<>> /\ preSurfaceBuffer' = Tail(preSurfaceBuffer)
          /\ pc' = pc
      BY <1>5 DEF DrainOne, FieldInv, IInv, StatusInv
    <2>2. n \in DOMAIN sent /\ 1 \in DOMAIN preSurfaceBuffer /\ preSurfaceBuffer[1] = n /\ Waits(n)
      BY <2>1 DEF SequencesInv, Waits
    <2>3. /\ \A j \in DOMAIN Tail(preSurfaceBuffer) :
                j + 1 \in DOMAIN preSurfaceBuffer /\ j + 1 # 1
                /\ Tail(preSurfaceBuffer)[j] = preSurfaceBuffer[j + 1]
          /\ Tail(preSurfaceBuffer) \in Seq(DOMAIN sent)
          /\ Len(Tail(preSurfaceBuffer)) <= PreSurface
      <3>1. preSurfaceBuffer \in Seq(DOMAIN sent) /\ Len(preSurfaceBuffer) <= PreSurface
        BY DEF SequencesInv
      <3>2. /\ Tail(preSurfaceBuffer) \in Seq(DOMAIN sent)
            /\ Len(Tail(preSurfaceBuffer)) = Len(preSurfaceBuffer) - 1
            /\ DOMAIN Tail(preSurfaceBuffer) = 1 .. (Len(preSurfaceBuffer) - 1)
            /\ DOMAIN preSurfaceBuffer = 1 .. Len(preSurfaceBuffer)
            /\ Len(preSurfaceBuffer) \in Nat \ {0}
        BY <2>1, <3>1
      <3>3. \A j \in 1 .. (Len(preSurfaceBuffer) - 1) :
              Tail(preSurfaceBuffer)[j] = preSurfaceBuffer[j + 1]
        BY <2>1, <3>1
      <3> QED BY <3>1, <3>2, <3>3, BoundsAssumption
    <2>4. /\ fed' \in [Players -> Seq(DOMAIN sent)]
          /\ GivenInv'
          /\ \A m : Given(m)' => Given(m) \/ m = n
      BY <1>1, <2>1, <2>2, GiveStep DEF WaitsInv
    <2>5. SequencesInv'
      BY <1>1, <2>1, <2>3, <2>4 DEF SequencesInv, isCodecConfig
    <2>6. \A m : Waits(m)' => Waits(m) /\ m # n
      BY <2>1, <2>2, <2>3 DEF Waits, WaitsInv
    <2>7. \A i, j \in DOMAIN preSurfaceBuffer' :
            /\ IsFrame(preSurfaceBuffer'[i])
            /\ preSurfaceBuffer'[i] = preSurfaceBuffer'[j] => i = j
      <3> TAKE i, j \in DOMAIN preSurfaceBuffer'
      <3>1. i \in Nat /\ j \in Nat
        BY <2>1, <2>3
      <3>2. i + 1 = j + 1 => i = j
        BY <3>1
      <3> QED BY <2>1, <2>3, <3>2 DEF WaitsInv
    <2>8. WaitsInv'
      BY <1>1, <2>4, <2>6, <2>7 DEF WaitsInv, IsFrame, isCodecConfig
    <2>9. HandInv'
      BY <1>1, <2>1, <2>2, <2>4, <2>6 DEF HandInv, IsFrame, isCodecConfig
    <2> QED BY <2>4, <2>5, <2>8, <2>9
  <1> QED BY <1>2, <1>3, <1>4, <1>5 DEF Ensure

(***************************************************************************)
(* The mirror thread receives a packet and hands it over or buffers it.    *)
(***************************************************************************)
LEMMA MirrorFrames ==
  ASSUME IInv, FrameInv,
         StartStream \/ Receive \/ EndStream \/ Route \/ AddPacket \/ BufferPacket \/ Buffered
  PROVE  SequencesInv' /\ GivenInv' /\ WaitsInv' /\ HandInv'
  <1> USE DEF FrameInv
  <1>0. pc \in [Threads -> Places]
    BY DEF IInv, LockInv
  <1>1. CASE StartStream \/ EndStream \/ Route \/ Buffered
    <2>1. /\ UNCHANGED <<fed, preSurfaceBuffer, cachedCodecConfig, sent, surface, timers>>
          /\ session' \in {session, session + 1}
          /\ pc'["mirror"] \in InHand => pc["mirror"] \in InHand
      BY <1>0, <1>1 DEF StartStream, EndStream, Route, Buffered, Goto, InHand
    <2> QED BY <2>1, KeepStep DEF SequencesInv
  <1>2. CASE Receive
    <2> DEFINE n == Len(sent) + 1
    <2>1. PICK config \in BOOLEAN :
            /\ sent' = Append(sent, [session |-> session, config |-> config])
            /\ cachedCodecConfig' = IF config THEN n ELSE cachedCodecConfig
      BY <1>2 DEF Receive
    <2>2. /\ UNCHANGED <<fed, preSurfaceBuffer, session, surface>>
          /\ timers' \subseteq {"startup", "final", "render"}
          /\ pc'["mirror"] = "route"
      BY <1>0, <1>2 DEF Receive, Goto, SequencesInv
    <2>3. /\ sent' \in Seq([session : Nat, config : BOOLEAN])
          /\ DOMAIN sent' = DOMAIN sent \cup {n} /\ n \notin DOMAIN sent /\ Len(sent') = n
          /\ \A i \in DOMAIN sent : sent'[i] = sent[i]
          /\ sent'[n].config = config
      BY <2>1 DEF SequencesInv
    <2>4. \A p \in Players : fed[p] \in Seq(DOMAIN sent)
      BY DEF SequencesInv
    <2>5. \A m : Given(m) \/ Waits(m) => m \in DOMAIN sent
      BY <2>4 DEF Given, Waits, SequencesInv
    <2>6. \A p \in Players : fed[p] \in Seq(DOMAIN sent')
      BY <2>3, <2>4
    <2>7. SequencesInv'
      BY <2>1, <2>2, <2>3, <2>6 DEF SequencesInv, isCodecConfig
    <2>8. \A m \in DOMAIN sent : isCodecConfig(m)' = isCodecConfig(m)
      BY <2>3 DEF isCodecConfig
    <2>9. \A m : /\ Given(m)' <=> Given(m)
                 /\ Waits(m)' <=> Waits(m)
      BY <2>2 DEF Given, Waits
    <2>10. \A p \in Players : \A i \in DOMAIN fed[p] : fed[p][i] \in DOMAIN sent
      BY <2>4
    <2>11. GivenInv'
      BY <2>2, <2>8, <2>10 DEF GivenInv, IsFrame
    <2>12. WaitsInv'
      BY <2>2, <2>3, <2>5, <2>8, <2>9 DEF WaitsInv, IsFrame, SequencesInv
    <2>13. HandInv'
      BY <2>2, <2>3, <2>5, <2>9 DEF HandInv
    <2> QED BY <2>7, <2>11, <2>12, <2>13
  <1>3. CASE AddPacket
    <2>1. /\ UNCHANGED <<preSurfaceBuffer, cachedCodecConfig, sent, session, surface, timers>>
          /\ pc["mirror"] \in InHand /\ pc'["mirror"] \notin InHand
      BY <1>0, <1>3 DEF AddPacket, Goto, InHand
    <2>2. player \in Players /\ Len(sent) \in DOMAIN sent
      BY <1>3, <2>1 DEF AddPacket, FieldInv, HandInv, SequencesInv
    <2>3. CASE status[player] = "none"
      <3>1. fed' = fed
        BY <1>3, <2>2, <2>3 DEF AddPacket, SequencesInv
      <3> QED BY <2>1, <3>1, KeepStep DEF SequencesInv
    <2>4. CASE status[player] # "none"
      <3>1. fed' = [fed EXCEPT ![player] = Append(@, Len(sent))]
        BY <1>3, <2>4 DEF AddPacket
      <3>2. /\ fed' \in [Players -> Seq(DOMAIN sent)]
            /\ GivenInv'
            /\ \A m : Given(m)' => Given(m) \/ m = Len(sent)
        BY <2>1, <2>2, <3>1, GiveStep DEF HandInv
      <3>3. SequencesInv'
        BY <2>1, <3>2 DEF SequencesInv, isCodecConfig
      <3>4. ~Waits(Len(sent))
        BY <2>1 DEF HandInv, WaitsInv, Waits
      <3>5. WaitsInv'
        BY <2>1, <3>2, <3>4 DEF WaitsInv, Waits, IsFrame, isCodecConfig
      <3>6. HandInv'
        BY <2>1 DEF HandInv
      <3> QED BY <3>2, <3>3, <3>5, <3>6
    <2> QED BY <2>3, <2>4
  <1>4. CASE BufferPacket
    <2>1. /\ UNCHANGED <<fed, cachedCodecConfig, sent, session, surface, timers>>
          /\ pc["mirror"] \in InHand /\ pc'["mirror"] \notin InHand
      BY <1>0, <1>4 DEF BufferPacket, Goto, InHand
    <2>2. CASE isCodecConfig(Len(sent))
      BY <1>4, <2>1, <2>2, KeepStep DEF BufferPacket, SequencesInv
    <2>3. CASE ~isCodecConfig(Len(sent))
      <3> DEFINE n == Len(sent)
      <3>1. preSurfaceBuffer' = Append(Room, n) /\ n \in DOMAIN sent /\ ~Given(n) /\ ~Waits(n)
        BY <1>4, <2>1, <2>3 DEF BufferPacket, HandInv, SequencesInv, IsFrame
      <3>2. \/ Room = preSurfaceBuffer /\ Len(preSurfaceBuffer) < PreSurface
            \/ /\ preSurfaceBuffer # <<>> /\ Room = Tail(preSurfaceBuffer)
               /\ Len(preSurfaceBuffer) = PreSurface
        BY BoundsAssumption DEF Room, SequencesInv
      <3>3. /\ Room \in Seq(DOMAIN sent) /\ Len(Room) < PreSurface
            /\ \A i, j \in DOMAIN Room : Room[i] = Room[j] => i = j
            /\ \A i \in DOMAIN Room : Waits(Room[i]) /\ IsFrame(Room[i])
        <4>1. CASE Room = preSurfaceBuffer /\ Len(preSurfaceBuffer) < PreSurface
          BY <4>1 DEF SequencesInv, WaitsInv, Waits
        <4>2. CASE /\ preSurfaceBuffer # <<>> /\ Room = Tail(preSurfaceBuffer)
                   /\ Len(preSurfaceBuffer) = PreSurface
          <5>1. /\ Room \in Seq(DOMAIN sent) /\ Len(Room) < PreSurface
                /\ \A i \in DOMAIN Room : /\ i + 1 \in DOMAIN preSurfaceBuffer
                                          /\ Room[i] = preSurfaceBuffer[i + 1] /\ i \in Nat
            BY <4>2, BoundsAssumption DEF SequencesInv
          <5>2. \A i, j \in DOMAIN Room : Room[i] = Room[j] => i = j
            <6> TAKE i, j \in DOMAIN Room
            <6>1. i + 1 = j + 1 => i = j
              BY <5>1
            <6> QED BY <5>1, <6>1 DEF WaitsInv
          <5>3. \A i \in DOMAIN Room : Waits(Room[i]) /\ IsFrame(Room[i])
            BY <5>1 DEF WaitsInv, Waits
          <5> QED BY <5>1, <5>2, <5>3
        <4> QED BY <3>2, <4>1, <4>2
      <3>4. /\ preSurfaceBuffer' \in Seq(DOMAIN sent) /\ Len(preSurfaceBuffer') <= PreSurface
            /\ DOMAIN preSurfaceBuffer' = DOMAIN Room \cup {Len(Room) + 1}
            /\ preSurfaceBuffer'[Len(Room) + 1] = n
            /\ \A i \in DOMAIN Room : preSurfaceBuffer'[i] = Room[i]
        BY <3>1, <3>3, BoundsAssumption
      <3>5. SequencesInv'
        BY <2>1, <3>4 DEF SequencesInv, isCodecConfig
      <3>6. \A i \in DOMAIN Room : Room[i] # n
        BY <3>1, <3>3
      <3>7. \A i, j \in DOMAIN preSurfaceBuffer' :
              /\ ~isCodecConfig(preSurfaceBuffer'[i])
              /\ preSurfaceBuffer'[i] = preSurfaceBuffer'[j] => i = j
        BY <2>3, <3>3, <3>4, <3>6 DEF IsFrame
      <3>8. \A m : Waits(m)' => Waits(m) \/ m = n
        BY <3>3, <3>4 DEF Waits
      <3>9. WaitsInv' /\ GivenInv'
        BY <2>1, <3>1, <3>7, <3>8 DEF WaitsInv, GivenInv, Given, IsFrame, isCodecConfig
      <3> QED BY <2>1, <3>5, <3>9 DEF HandInv
    <2> QED BY <2>2, <2>3
  <1> QED BY <1>1, <1>2, <1>3, <1>4

(***************************************************************************)
(* The main thread gives no packet away but under ensureVideoPlayer; a     *)
(* player that ends has drained what it had.                               *)
(***************************************************************************)
Quiets ==
    \/ attachSurface \/ detachSurface \/ setVideoMode \/ stopServer \/ Watchdogs
    \/ HandleStop \/ NativeStopped \/ Detached \/ Restart \/ LeaveMain
    \/ resetSessionCounters \/ StopDecode \/ Join

LEMMA MainFrames ==
  ASSUME IInv, FrameInv, Quiets \/ clearPreSurfaceBuffer
  PROVE  SequencesInv' /\ GivenInv' /\ WaitsInv' /\ HandInv'
  <1> USE DEF FrameInv
  <1>0. pc \in [Threads -> Places]
    BY DEF IInv, LockInv
  <1>1. CASE Quiets
    <2>1. /\ UNCHANGED <<fed, preSurfaceBuffer, cachedCodecConfig, sent, session>>
          /\ pc'["mirror"] = pc["mirror"]
      BY <1>0, <1>1 DEF Quiets, attachSurface, detachSurface, setVideoMode, stopServer,
         StopServerWith, Watchdogs, StartupWatchdog, FinalWatchdog, RenderWatchdog,
         HandleStop, NativeStopped, Detached, Restart, LeaveMain, LeaveArming,
         resetSessionCounters, StopDecode, Join, Begin, Return, Goto
    <2>2. surface' \in {surface, TRUE, FALSE} /\ timers' \subseteq timers \cup {"final", "render"}
      BY <1>1 DEF Quiets, attachSurface, detachSurface, setVideoMode, stopServer,
         StopServerWith, Watchdogs, StartupWatchdog, FinalWatchdog, RenderWatchdog,
         HandleStop, NativeStopped, Detached, Restart, LeaveMain, LeaveArming,
         resetSessionCounters, StopDecode, Join
    <2> QED BY <2>1, <2>2, KeepStep DEF SequencesInv
  <1>2. CASE clearPreSurfaceBuffer
    <2>1. /\ UNCHANGED <<fed, sent, session, surface, timers>> /\ preSurfaceBuffer' = <<>>
          /\ cachedCodecConfig' \in {0, cachedCodecConfig} /\ pc'["mirror"] = pc["mirror"]
      BY <1>0, <1>2 DEF clearPreSurfaceBuffer, ClearTo, Return, Goto
    <2>2. SequencesInv'
      BY <2>1, BoundsAssumption DEF SequencesInv, isCodecConfig
    <2>3. \A m : ~Waits(m)' /\ (Given(m)' <=> Given(m))
      BY <2>1 DEF Waits, Given
    <2>4. GivenInv' /\ WaitsInv' /\ HandInv'
      BY <2>1, <2>3 DEF GivenInv, WaitsInv, HandInv, IsFrame, isCodecConfig
    <2> QED BY <2>2, <2>4
  <1> QED BY <1>1, <1>2

LEMMA PlayerFrames ==
  ASSUME IInv, FrameInv, NEW p \in Players, Render(p) \/ PlayerEnds(p)
  PROVE  SequencesInv' /\ GivenInv' /\ WaitsInv' /\ HandInv'
  <1> USE DEF FrameInv
  <1>1. CASE Render(p)
    BY <1>1, KeepStep DEF Render, SequencesInv
  <1>2. CASE PlayerEnds(p)
    <2>1. /\ fed' = [fed EXCEPT ![p] = <<>>]
          /\ UNCHANGED <<preSurfaceBuffer, cachedCodecConfig, sent, session, surface, timers, pc>>
      BY <1>2 DEF PlayerEnds
    <2>2. /\ fed' \in [Players -> Seq(DOMAIN sent)]
          /\ GivenInv'
          /\ \A m : Given(m)' => Given(m)
      BY <2>1, EmptyStep
    <2>3. SequencesInv'
      BY <2>1, <2>2 DEF SequencesInv, isCodecConfig
    <2>4. WaitsInv' /\ HandInv'
      BY <2>1, <2>2 DEF WaitsInv, HandInv, Waits, IsFrame, isCodecConfig
    <2> QED BY <2>2, <2>3, <2>4
  <1> QED BY <1>1, <1>2

(* The monitor keeps the player of the field while a thread feeds it. *)
LEMMA FieldStep ==
  ASSUME IInv, FieldInv, [Next]_vars
  PROVE  FieldInv'
  <1>0. pc \in [Threads -> Places] /\ 0 \notin Players
    BY DEF IInv, LockInv, Players
  <1>1. ASSUME NEW t \in Threads, Ensure(t) PROVE FieldInv'
    <2>1. CASE EnsureExists(t) \/ DrainDone(t)
      BY <1>0, <2>1 DEF EnsureExists, DrainDone, Goto, FieldInv, IInv, StatusInv
    <2>2. CASE EnsureNoSurface(t)
      BY <1>0, <2>2 DEF EnsureNoSurface, Goto, FieldInv
    <2>3. CASE Create(t)
      BY <1>0, <2>3 DEF Create, CreateIf, Goto, FieldInv
    <2>4. CASE Replay(t) \/ DrainOne(t)
      BY <1>0, <2>4 DEF Replay, DrainOne, Goto, FieldInv
    <2> QED BY <1>1, <2>1, <2>2, <2>3, <2>4 DEF Ensure
  <1>2. CASE StartStream \/ Receive \/ EndStream \/ Route \/ AddPacket \/ BufferPacket \/ Buffered
    BY <1>0, <1>2 DEF StartStream, Receive, EndStream, Route, AddPacket, BufferPacket,
       Buffered, Goto, FieldInv, IInv, StatusInv
  <1>3. CASE Quiets \/ clearPreSurfaceBuffer
    <2>1. CASE Join
      <3>1. pc["mirror"] \notin {"replay", "drain"} /\ pc'["mirror"] = pc["mirror"]
        BY <1>0, <2>1 DEF Join, Return, Goto, IInv, LockInv, Held
      <3>2. pc'["main"] \notin {"replay", "drain"} /\ player' = player
        BY <1>0, <2>1 DEF Join, Return, Goto
      <3> QED BY <3>1, <3>2 DEF FieldInv
    <2>2. CASE ~Join
      <3>1. UNCHANGED <<videoPlayer, player>> /\ pc'["mirror"] = pc["mirror"]
        BY <1>0, <1>3, <2>2 DEF Quiets, attachSurface, detachSurface, setVideoMode,
           stopServer, StopServerWith, Watchdogs, StartupWatchdog, FinalWatchdog,
           RenderWatchdog, HandleStop, NativeStopped, Detached, Restart, LeaveMain,
           LeaveArming, resetSessionCounters, StopDecode, clearPreSurfaceBuffer, ClearTo,
           Begin, Return, Goto
      <3>2. pc'["main"] \notin {"replay", "drain"} \/ pc' = pc
        BY <1>0, <1>3, <2>2 DEF Quiets, attachSurface, detachSurface, setVideoMode,
           stopServer, StopServerWith, Watchdogs, StartupWatchdog, FinalWatchdog,
           RenderWatchdog, HandleStop, NativeStopped, Detached, Restart, LeaveMain,
           LeaveArming, resetSessionCounters, StopDecode, clearPreSurfaceBuffer, ClearTo,
           Begin, Return, Goto
      <3> QED BY <3>1, <3>2 DEF FieldInv
    <2> QED BY <2>1, <2>2
  <1>4. CASE (\E p \in Players : Render(p) \/ PlayerEnds(p)) \/ UNCHANGED vars
    BY <1>4 DEF Render, PlayerEnds, FieldInv
  <1> QED BY <1>1, <1>2, <1>3, <1>4 DEF Next, MirrorStep, MainStep, Quiets

LEMMA FrameStep ==
  ASSUME IInv, FrameInv, [Next]_vars
  PROVE  FrameInv'
  <1>1. CASE UNCHANGED vars
    BY <1>1, KeepStep DEF FrameInv, FieldInv, SequencesInv
  <1>2. CASE Next
    <2>1. SequencesInv' /\ GivenInv' /\ WaitsInv' /\ HandInv'
      BY <1>2, EnsureFrames, MirrorFrames, MainFrames, PlayerFrames
      DEF Next, MirrorStep, MainStep, Quiets
    <2> QED BY <1>2, <2>1, FieldStep DEF FrameInv
  <1> QED BY <1>1, <1>2

LEMMA InitFrames == Init => FrameInv
  <1> SUFFICES ASSUME Init PROVE FrameInv
    OBVIOUS
  <1>1. SequencesInv
    <2>1. \A S : <<>> \in Seq(S)
      OBVIOUS
    <2>2. fed \in [Players -> Seq(DOMAIN sent)]
      BY <2>1 DEF Init
    <2>3. Len(preSurfaceBuffer) <= PreSurface
      BY BoundsAssumption DEF Init
    <2> QED BY <2>1, <2>2, <2>3 DEF Init, SequencesInv
  <1>2. FieldInv /\ HandInv
    BY DEF Init, FieldInv, HandInv, InHand
  <1>3. GivenInv /\ WaitsInv
    BY DEF Init, GivenInv, WaitsInv, Waits
  <1> QED BY <1>1, <1>2, <1>3 DEF FrameInv

LEMMA OwnedOnce == IInv /\ FrameInv => OneOwner
  <1> SUFFICES ASSUME IInv, FrameInv PROVE OneOwner
    OBVIOUS
  <1>1. VideoTypeOK
    <2>1. \A p \in Players : fed[p] \in Seq(DOMAIN sent)
      BY DEF FrameInv, SequencesInv
    <2>2. videoPlayer \in 0 .. MaxPlayers
      BY BoundsAssumption DEF IInv, StatusInv, Players
    <2> QED BY <2>1, <2>2 DEF VideoTypeOK, IInv, StatusInv, LockInv, Held, FrameInv, SequencesInv
  <1>2. \A p \in Players : \A i \in DOMAIN fed[p], j \in DOMAIN preSurfaceBuffer :
          fed[p][i] # preSurfaceBuffer[j]
    <2>1. \A j \in DOMAIN preSurfaceBuffer : preSurfaceBuffer[j] \in DOMAIN sent
      BY DEF FrameInv, SequencesInv
    <2> QED BY <2>1 DEF FrameInv, WaitsInv, Waits, Given
  <1> QED BY <1>1, <1>2 DEF OneOwner, FrameInv, GivenInv

(***************************************************************************)
(* For any number of players, sessions and packets and any size of the     *)
(* buffer: wherever the surface comes and goes between the mirror thread   *)
(* and the main thread, a frame is handed to one player and once, or waits *)
(* in a buffer that keeps its bound (RaopServer.kt:114-128, 467-490).      *)
(***************************************************************************)
THEOREM FramesOwned == Spec => []OneOwner
  <1>1. Init => IInv /\ FrameInv
    BY InitInv, InitFrames
  <1>2. IInv /\ FrameInv /\ [Next]_vars => IInv' /\ FrameInv'
    BY NextInv, FrameStep
  <1> QED BY <1>1, <1>2, OwnedOnce, PTL DEF Spec

-----------------------------------------------------------------------------
(***************************************************************************)
(* The end of the sessions                                                 *)
(***************************************************************************)
NoneRuns == \A p \in Players : status[p] # "running"

(* No mirror thread runs, and every end of one is handled or will never be. *)
Ended == pc["mirror"] = "none" /\ (stops = 0 \/ ~serverUp)

(* The main thread is giving up what the last session left. *)
Ending ==
    /\ job \in {"streamStopped", "server"}
    /\ ~serverUp => job = "server"
    /\ pc["main"] \in {"stop", "join", "reset", "clear"}
    /\ pc["main"] \in {"reset", "clear"} => videoPlayer = 0 /\ NoneRuns
    /\ pc["main"] = "clear" => ~firstVideo /\ timers \subseteq {"render"}

(* Nothing is left, and what the main thread does brings nothing back. *)
Clean ==
    /\ NothingLeft /\ ~firstVideo
    /\ \/ pc["main"] = "idle"
       \/ pc["main"] \in {"stop", "join", "stopped"} /\ job \in {"detach", "mode"}
       \/ pc["main"] = "native"
    /\ ~serverUp => cachedCodecConfig = 0

ServerInv ==
    /\ stops \in Nat
    /\ ~serverUp => pc["mirror"] = "none" /\ pc["main"] # "native"
    /\ pc["main"] = "native" => job = "server"

EndInv == ServerInv /\ (Ended => Ending \/ Clean)

(* The mirror thread: it runs, so its sessions have not ended. *)
LEMMA MirrorEnd ==
  ASSUME IInv, EndInv,
         \/ StartStream \/ Receive \/ EndStream \/ Route \/ AddPacket \/ BufferPacket
         \/ Buffered \/ Ensure("mirror")
  PROVE  EndInv'
  <1>0. pc \in [Threads -> Places]
    BY DEF IInv, LockInv
  <1>1. /\ UNCHANGED <<serverUp, job>> /\ pc'["main"] = pc["main"]
        /\ \/ pc'["mirror"] # "none" /\ stops' = stops
           \/ pc'["mirror"] = "none" /\ stops' = stops + 1
        /\ pc["mirror"] # "none" \/ serverUp
    BY <1>0 DEF StartStream, Receive, EndStream, Route, AddPacket, BufferPacket, Buffered,
       Ensure, EnsureExists, EnsureNoSurface, Create, CreateIf, Replay, DrainOne,
       DrainDone, Goto
  <1>2. serverUp
    BY <1>1 DEF EndInv, ServerInv
  <1>3. ServerInv' /\ ~Ended'
    BY <1>1, <1>2 DEF EndInv, ServerInv, Ended
  <1> QED BY <1>3 DEF EndInv

(* A stop that was posted, and stopServer. *)
LEMMA StopEnd ==
  ASSUME IInv, EndInv, HandleStop \/ NativeStopped \/ stopServer
  PROVE  EndInv'
  <1>0. pc \in [Threads -> Places]
    BY DEF IInv, LockInv
  <1>1. CASE HandleStop
    <2>1. /\ stops' = stops - 1 /\ stops > 0 /\ pc["main"] = "idle"
          /\ UNCHANGED <<firstVideo, timers, playerVars, bufferVars, serverUp>>
          /\ pc'["mirror"] = pc["mirror"]
          /\ IF serverUp THEN job' = "streamStopped" /\ pc'["main"] = "stop"
             ELSE UNCHANGED <<pc, job>>
      BY <1>0, <1>1 DEF HandleStop, Begin, Goto
    <2>2. ServerInv'
      BY <2>1 DEF EndInv, ServerInv
    <2>3. CASE serverUp
      BY <2>1, <2>2, <2>3 DEF EndInv, Ending
    <2>4. CASE ~serverUp
      <3>1. Clean
        BY <2>1, <2>4 DEF EndInv, ServerInv, Ended, Ending
      <3> QED BY <2>1, <2>2, <2>4, <3>1 DEF EndInv, Clean, NothingLeft
    <2> QED BY <2>3, <2>4
  <1>2. CASE NativeStopped
    <2>1. /\ pc["main"] = "native" /\ pc["mirror"] = "none" /\ serverUp' = FALSE
          /\ pc'["main"] = "stop" /\ pc'["mirror"] = "none" /\ UNCHANGED <<job, stops>>
      BY <1>0, <1>2 DEF NativeStopped, Goto
    <2> QED BY <2>1 DEF EndInv, ServerInv, Ending
  <1>3. CASE stopServer
    <2>1. /\ serverUp /\ pc["main"] = "idle" /\ pc'["main"] = "native" /\ job' = "server"
          /\ timers' = {} /\ pc'["mirror"] = pc["mirror"]
          /\ UNCHANGED <<firstVideo, playerVars, bufferVars, serverUp, stops>>
      BY <1>0, <1>3 DEF stopServer, StopServerWith, Begin, Goto
    <2> QED BY <2>1 DEF EndInv, ServerInv, Ended, Ending, Clean, NothingLeft
  <1> QED BY <1>1, <1>2, <1>3

(* stopVideoPlayer and what the end of a session does after it. *)
LEMMA EndingEnd ==
  ASSUME IInv, EndInv,
         StopDecode \/ Join \/ resetSessionCounters \/ clearPreSurfaceBuffer
  PROVE  EndInv'
  <1>0. pc \in [Threads -> Places]
    BY DEF IInv, LockInv
  <1>1. UNCHANGED <<stops, serverUp>> /\ pc'["mirror"] = pc["mirror"]
    BY <1>0 DEF StopDecode, Join, resetSessionCounters, clearPreSurfaceBuffer, ClearTo,
       Return, Goto
  <1>2. pc'["main"] # "native"
    BY <1>0 DEF StopDecode, Join, resetSessionCounters, clearPreSurfaceBuffer, ClearTo,
       Return, Goto
  <1>3. ServerInv'
    BY <1>1, <1>2 DEF EndInv, ServerInv
  <1>4. ASSUME Ended PROVE Ending' \/ Clean'
    <2>1. CASE StopDecode
      <3>1. /\ pc["main"] = "stop" /\ pc'["main"] = "join" /\ timers' \subseteq timers
            /\ UNCHANGED <<firstVideo, videoPlayer, bufferVars, job>>
            /\ videoPlayer = 0 => status' = status
        BY <1>0, <2>1 DEF StopDecode, Goto
      <3>2. CASE Ending
        BY <1>1, <3>1, <3>2 DEF Ending
      <3>3. CASE Clean
        BY <1>1, <3>1, <3>3 DEF Clean, NothingLeft
      <3> QED BY <1>4, <3>2, <3>3 DEF EndInv
    <2>2. CASE Join
      <3>1. /\ pc["main"] = "join" /\ videoPlayer' = 0
            /\ UNCHANGED <<firstVideo, timers, status, bufferVars>>
        BY <2>2 DEF Join
      <3>2. NoneRuns /\ NoneRuns'
        BY <3>1 DEF IInv, JoinInv, NoneRuns
      <3>3. CASE Ending
        <4>1. pc'["main"] = "reset" /\ job' = job
          BY <1>0, <2>2, <3>3 DEF Join, Ending, Goto
        <4> QED BY <1>1, <3>1, <3>2, <3>3, <4>1 DEF Ending
      <3>4. CASE Clean
        <4>1. pc'["main"] = "idle" \/ (pc'["main"] = "stopped" /\ job' = job /\ job = "detach")
          BY <1>0, <2>2, <3>1, <3>4 DEF Join, Clean, Return, Goto
        <4> QED BY <1>1, <3>1, <3>2, <3>4, <4>1 DEF Clean, NothingLeft, NoneRuns
      <3> QED BY <1>4, <3>3, <3>4 DEF EndInv
    <2>3. CASE resetSessionCounters
      <3>1. /\ pc["main"] = "reset" /\ pc'["main"] = "clear" /\ timers' = {} /\ ~firstVideo'
            /\ UNCHANGED <<job, videoPlayer, status>>
        BY <1>0, <2>3 DEF resetSessionCounters, Goto
      <3>2. Ending
        BY <1>4, <3>1 DEF EndInv, Clean
      <3> QED BY <1>1, <3>1, <3>2 DEF Ending, NoneRuns
    <2>4. CASE clearPreSurfaceBuffer
      <3>1. /\ pc["main"] = "clear" /\ pc'["main"] = "idle" /\ preSurfaceBuffer' = <<>>
            /\ job = "server" => cachedCodecConfig' = 0
            /\ UNCHANGED <<firstVideo, timers, videoPlayer, status>>
        BY <1>0, <2>4 DEF clearPreSurfaceBuffer, ClearTo, Return, Goto
      <3>2. Ending
        BY <1>4, <3>1 DEF EndInv, Clean
      <3> QED BY <1>1, <3>1, <3>2 DEF Ending, Clean, NothingLeft, NoneRuns
    <2> QED BY <2>1, <2>2, <2>3, <2>4
  <1>5. Ended' => Ended
    BY <1>1 DEF Ended
  <1> QED BY <1>3, <1>4, <1>5 DEF EndInv

(* Nothing that the surface, the user or a watchdog starts on the main      *)
(* thread brings anything back, and nothing else of it is under way.        *)
LEMMA OtherEnd ==
  ASSUME IInv, EndInv,
         \/ attachSurface \/ detachSurface \/ setVideoMode \/ Watchdogs
         \/ Detached \/ Restart \/ LeaveMain \/ Ensure("main")
  PROVE  EndInv'
  <1>0. pc \in [Threads -> Places]
    BY DEF IInv, LockInv
  <1>1. UNCHANGED <<stops, serverUp>> /\ pc'["mirror"] = pc["mirror"]
    BY <1>0 DEF attachSurface, detachSurface, setVideoMode, Watchdogs, StartupWatchdog,
       FinalWatchdog, RenderWatchdog, Detached, Restart, LeaveMain, LeaveArming, Ensure,
       EnsureExists, EnsureNoSurface, Create, CreateIf, Replay, DrainOne, DrainDone,
       Begin, Return, Goto
  <1>2. pc'["main"] # "native"
    BY <1>0 DEF attachSurface, detachSurface, setVideoMode, Watchdogs, StartupWatchdog,
       FinalWatchdog, RenderWatchdog, Detached, Restart, LeaveMain, LeaveArming, Ensure,
       EnsureExists, EnsureNoSurface, Create, CreateIf, Replay, DrainOne, DrainDone,
       Begin, Return, Goto
  <1>3. ServerInv'
    BY <1>1, <1>2 DEF EndInv, ServerInv
  <1>4. ASSUME Ended PROVE Clean'
    <2>1. pc["main"] \in {"idle", "stopped", "leave", "ensure", "replay", "drain"}
      BY DEF attachSurface, detachSurface, setVideoMode, Watchdogs, StartupWatchdog,
         FinalWatchdog, RenderWatchdog, Detached, Restart, LeaveMain, LeaveArming, Ensure,
         EnsureExists, EnsureNoSurface, Create, CreateIf, Replay, DrainOne, DrainDone, Begin
    <2>2. Clean /\ (pc["main"] = "idle" \/ (pc["main"] = "stopped" /\ job \in {"detach", "mode"}))
      BY <1>4, <2>1 DEF EndInv, Ending, Clean
    <2>3. CASE attachSurface \/ detachSurface \/ setVideoMode
      <3>1. /\ UNCHANGED <<firstVideo, timers, playerVars, bufferVars>>
            /\ \/ pc'["main"] = "idle"
               \/ pc'["main"] = "stop" /\ job' \in {"detach", "mode"}
        BY <1>0, <2>2, <2>3 DEF attachSurface, detachSurface, setVideoMode, Clean, Begin, Goto
      <3> QED BY <1>1, <2>2, <3>1 DEF Clean, NothingLeft
    <2>4. CASE Watchdogs
      <3>1. /\ UNCHANGED <<firstVideo, playerVars, bufferVars, pc, job>>
            /\ timers' \subseteq timers
        BY <2>2, <2>4 DEF Watchdogs, StartupWatchdog, FinalWatchdog, RenderWatchdog, Clean,
           NothingLeft
      <3> QED BY <1>1, <2>2, <3>1 DEF Clean, NothingLeft
    <2>5. CASE Detached \/ Restart \/ LeaveMain \/ Ensure("main")
      <3>1. Detached
        BY <2>2, <2>5 DEF Restart, LeaveMain, LeaveArming, Ensure, EnsureExists,
           EnsureNoSurface, Create, CreateIf, Replay, DrainOne, DrainDone
      <3>2. /\ UNCHANGED <<firstVideo, timers, playerVars, bufferVars>>
            /\ pc'["main"] = "idle"
        BY <1>0, <3>1 DEF Detached, Return, Goto
      <3> QED BY <1>1, <2>2, <3>2 DEF Clean, NothingLeft
    <2> QED BY <2>3, <2>4, <2>5
  <1>5. Ended' => Ended
    BY <1>1 DEF Ended
  <1> QED BY <1>3, <1>4, <1>5 DEF EndInv

(* A player that is told to stop may still show its last picture. *)
LEMMA PlayerEnd ==
  ASSUME IInv, EndInv, NEW p \in Players, Render(p) \/ PlayerEnds(p)
  PROVE  EndInv'
  <1>1. /\ UNCHANGED <<stops, serverUp, pc, job, videoPlayer, preSurfaceBuffer,
                       cachedCodecConfig, firstVideo>>
        /\ timers' \subseteq timers \cup {"render"}
        /\ status' = status \/ status' = [status EXCEPT ![p] = "none"]
    BY DEF Render, PlayerEnds
  <1>2. NoneRuns => NoneRuns'
    BY <1>1 DEF IInv, StatusInv, NoneRuns
  <1>3. Ending => Ending'
    BY <1>1, <1>2 DEF Ending
  <1>4. Clean => Clean'
    BY <1>1, <1>2 DEF Clean, NothingLeft, NoneRuns
  <1> QED BY <1>1, <1>3, <1>4 DEF EndInv, ServerInv, Ended

LEMMA EndStep ==
  ASSUME IInv, EndInv, [Next]_vars
  PROVE  EndInv'
  <1>1. CASE UNCHANGED vars
    BY <1>1 DEF EndInv, ServerInv, Ended, Ending, Clean, NothingLeft, NoneRuns
  <1>2. CASE Next
    BY <1>2, MirrorEnd, StopEnd, EndingEnd, OtherEnd, PlayerEnd DEF Next, MirrorStep, MainStep
  <1> QED BY <1>1, <1>2

(***************************************************************************)
(* For any number of sessions: when the mirror threads have ended and the  *)
(* main thread has handled what they posted, or stopServer has returned,   *)
(* no player runs, no packet waits and no watchdog will restart a decoder, *)
(* however late a stop was handled (RaopServer.kt:191-199, 379-498).       *)
(***************************************************************************)
THEOREM CleanAfterSessions == Spec => []IdleClean
  <1>1. Init => IInv /\ EndInv
    <2>1. Init => EndInv
      BY DEF Init, EndInv, ServerInv, Ended, Clean, NothingLeft
    <2> QED BY <2>1, InitInv
  <1>2. IInv /\ EndInv /\ [Next]_vars => IInv' /\ EndInv'
    BY NextInv, EndStep
  <1>3. EndInv => IdleClean
    BY DEF EndInv, IdleClean, Ended, Ending, Clean
  <1> QED BY <1>1, <1>2, <1>3, PTL DEF Spec
==============================================================================
