------------------------------ MODULE RaopVideo ------------------------------
(***************************************************************************)
(* The video half of the media server (RaopServer.kt).  The mirror thread  *)
(* of the native code hands over packets; the main thread attaches and     *)
(* detaches the surface, runs the watchdogs and handles the end of a       *)
(* stream; the thread of each VideoPlayer reports what it renders.         *)
(* Packets that come before there is a surface wait in a buffer.           *)
(*                                                                         *)
(* lock is the monitor of the @Synchronized methods.  What the queue of a  *)
(* player does with a packet is the matter of module VideoPlayer: here a   *)
(* player is the sequence of what it was given.                            *)
(***************************************************************************)
EXTENDS Naturals, Sequences

CONSTANTS
    MaxPlayers,      \* players that are alive at one time (bound)
    PreSurface,      \* PRE_SURFACE_BUFFER_SIZE (16)
    MaxSessions,     \* mirror sessions (bound)
    MaxPackets       \* packets received (bound)

ASSUME BoundsAssumption ==
    /\ MaxPlayers \in Nat \ {0} /\ PreSurface \in Nat \ {0}
    /\ MaxSessions \in Nat /\ MaxPackets \in Nat

Players == 1 .. MaxPlayers
Threads == {"mirror", "main"}

VARIABLES
    surface,         \* currentSurface # null
    videoPlayer,     \* a player, or 0
    status, fed,     \* by player: "none", "running", "stopping"; packets given
    preSurfaceBuffer, cachedCodecConfig,
    firstVideo,      \* firstVideoBytesAtMs # 0
    hasStartedVideo, currentState,
    timers,          \* delayed runnables in the main looper
    stops,           \* posted onStreamStopped that were not handled yet
    serverUp,        \* serverId # 0
    lock, pc,        \* monitor; by thread: where it is
    surfaceArg,      \* by thread: the argument of ensureVideoPlayer
    player, job,     \* local of the mirror thread; what the main thread does
    session, sent    \* history: mirror sessions, packets received

sessionVars == <<firstVideo, hasStartedVideo, currentState, timers>>
playerVars == <<videoPlayer, status, fed>>
bufferVars == <<preSurfaceBuffer, cachedCodecConfig>>
callVars == <<lock, pc, surfaceArg, player, job>>
nativeVars == <<stops, serverUp, session, sent>>
vars == <<surface, sessionVars, playerVars, bufferVars, callVars, nativeVars>>

Init ==
    /\ surface = FALSE
    /\ videoPlayer = 0
    /\ status = [p \in Players |-> "none"] /\ fed = [p \in Players |-> <<>>]
    /\ preSurfaceBuffer = <<>> /\ cachedCodecConfig = 0
    /\ firstVideo = FALSE /\ hasStartedVideo = FALSE
    /\ currentState = "IDLE_ADVERTISING"
    /\ timers = {} /\ stops = 0 /\ serverUp = TRUE
    /\ lock = "none" /\ pc = [mirror |-> "none", main |-> "idle"]
    /\ surfaceArg = [t \in Threads |-> FALSE] /\ player = 0 /\ job = "none"
    /\ session = 0 /\ sent = <<>>

isCodecConfig(n) == sent[n].config
HasFrame(p) == \E i \in DOMAIN fed[p] : ~isCodecConfig(fed[p][i])
Free(t) == lock \in {"none", t}
(* A new player is another object than the one the mirror thread holds. *)
Unused(p) == status[p] = "none" /\ ~(pc["mirror"] = "add" /\ player = p)
Goto(t, l) == pc' = [pc EXCEPT ![t] = l]
(* Locals that are no longer in use have no value. *)
Forget(t) == surfaceArg' = [surfaceArg EXCEPT ![t] = FALSE]
Return == Goto("main", "idle") /\ job' = "none"
emitState(s) == currentState' = s

(***************************************************************************)
(* The mirror thread: onRecvVideoData                                      *)
(***************************************************************************)
StartStream ==
    /\ pc["mirror"] = "none" /\ pc["main"] # "native" /\ serverUp
    /\ session < MaxSessions
    /\ session' = session + 1
    /\ Goto("mirror", "wait")
    /\ UNCHANGED <<surface, sessionVars, playerVars, bufferVars, lock, surfaceArg,
                   player, job, stops, serverUp, sent>>

(* A sender begins with the codec config. *)
Receive ==
    /\ pc["mirror"] = "wait"
    /\ Len(sent) < MaxPackets
    /\ \E config \in BOOLEAN :
         /\ (\A i \in DOMAIN sent : sent[i].session # session) => config
         /\ sent' = Append(sent, [session |-> session, config |-> config])
         /\ cachedCodecConfig' = IF config THEN Len(sent) + 1 ELSE cachedCodecConfig
    /\ firstVideo' = TRUE
    /\ IF firstVideo
         THEN UNCHANGED <<timers, currentState>>
         ELSE /\ timers' = (timers \ {"final"}) \cup {"startup"}
              /\ emitState("VIDEO_REQUESTED")
    /\ Goto("mirror", "route")
    /\ UNCHANGED <<surface, playerVars, preSurfaceBuffer, hasStartedVideo, lock,
                   surfaceArg, player, job, stops, serverUp, session>>

(* videoPlayer ?: ensureVideoPlayer(); the default argument is read before  *)
(* the monitor is taken.                                                    *)
Route ==
    /\ pc["mirror"] = "route"
    /\ player' = videoPlayer
    /\ surfaceArg' = [surfaceArg EXCEPT !["mirror"] = surface]
    /\ Goto("mirror", IF videoPlayer # 0 THEN "add" ELSE "ensure")
    /\ UNCHANGED <<surface, sessionVars, playerVars, bufferVars, lock, job, nativeVars>>

AddPacket ==
    /\ pc["mirror"] = "add"
    /\ fed' = [fed EXCEPT ![player] =
                 IF status[player] = "none" THEN @ ELSE Append(@, Len(sent))]
    /\ Goto("mirror", "wait") /\ player' = 0 /\ Forget("mirror")
    /\ UNCHANGED <<surface, sessionVars, videoPlayer, status, bufferVars, lock,
                   job, nativeVars>>

Draining == \E t \in Threads : pc[t] \in {"replay", "drain"}

(* A full buffer gives up its oldest packet. *)
Room ==
    IF Len(preSurfaceBuffer) >= PreSurface THEN Tail(preSurfaceBuffer)
    ELSE preSurfaceBuffer

BufferPacket ==
    /\ pc["mirror"] = "buffer"
    /\ ~Draining
    /\ preSurfaceBuffer' = IF isCodecConfig(Len(sent)) THEN preSurfaceBuffer
                           ELSE Append(Room, Len(sent))
    /\ Goto("mirror", "waiting") /\ Forget("mirror")
    /\ UNCHANGED <<surface, sessionVars, playerVars, cachedCodecConfig, lock,
                   player, job, nativeVars>>

Buffered ==
    /\ pc["mirror"] = "waiting"
    /\ emitState("WAITING_FOR_SURFACE")
    /\ Goto("mirror", "wait")
    /\ UNCHANGED <<surface, firstVideo, hasStartedVideo, timers, playerVars,
                   bufferVars, lock, surfaceArg, player, job, nativeVars>>

(* The mirror thread ends: stream_stopped reaches onStreamStopped. *)
EndStream ==
    /\ pc["mirror"] = "wait"
    /\ stops' = stops + 1
    /\ Goto("mirror", "none")
    /\ UNCHANGED <<surface, sessionVars, playerVars, bufferVars, lock, surfaceArg,
                   player, job, serverUp, session, sent>>

(***************************************************************************)
(* ensureVideoPlayer and drainPreSurfaceBuffer, on either thread           *)
(***************************************************************************)
EnsureExists(t) ==
    /\ pc[t] = "ensure" /\ Free(t)
    /\ videoPlayer # 0
    /\ player' = IF t = "mirror" THEN videoPlayer ELSE player
    /\ Goto(t, IF t = "mirror" THEN "add" ELSE "leave")
    /\ UNCHANGED <<surface, sessionVars, playerVars, bufferVars, lock, surfaceArg,
                   job, nativeVars>>

(* A surface that was detached meanwhile may be invalid. *)
EnsureNoSurface(t) ==
    /\ pc[t] = "ensure" /\ Free(t)
    /\ videoPlayer = 0
    /\ ~surfaceArg[t] \/ ~surface
    /\ Goto(t, IF t = "mirror" THEN "buffer" ELSE "leave")
    /\ UNCHANGED <<surface, sessionVars, playerVars, bufferVars, lock, surfaceArg,
                   player, job, nativeVars>>

CreateIf(t, condition) ==
    /\ pc[t] = "ensure" /\ Free(t)
    /\ condition
    /\ surfaceArg[t]
    /\ \E p \in Players :
         /\ Unused(p) /\ \A q \in 1 .. p - 1 : ~Unused(q)
         /\ videoPlayer' = p
         /\ status' = [status EXCEPT ![p] = "running"]
         /\ fed' = [fed EXCEPT ![p] = <<>>]
    /\ lock' = t
    /\ emitState("VIDEO_STARTING")
    /\ Goto(t, "replay")
    /\ UNCHANGED <<surface, firstVideo, hasStartedVideo, timers, bufferVars,
                   surfaceArg, player, job, nativeVars>>

(* Mutant: the field is not looked at again under the monitor. *)
CreateUnchecked(t) == CreateIf(t, TRUE)
Create(t) == CreateIf(t, videoPlayer = 0)

Replay(t) ==
    /\ pc[t] = "replay"
    /\ fed' = IF cachedCodecConfig = 0 THEN fed
              ELSE [fed EXCEPT ![videoPlayer] = Append(@, cachedCodecConfig)]
    /\ Goto(t, "drain")
    /\ UNCHANGED <<surface, sessionVars, videoPlayer, status, bufferVars, lock,
                   surfaceArg, player, job, nativeVars>>

(* Mutant: the packets are handed over and stay in the buffer. *)
DrainCopies(t) ==
    /\ pc[t] = "drain"
    /\ preSurfaceBuffer # <<>>
    /\ fed' = [fed EXCEPT ![videoPlayer] = @ \o preSurfaceBuffer]
    /\ player' = IF t = "mirror" THEN videoPlayer ELSE player
    /\ lock' = IF t = "mirror" THEN "none" ELSE lock
    /\ Goto(t, IF t = "mirror" THEN "add" ELSE "leave")
    /\ UNCHANGED <<surface, sessionVars, videoPlayer, status, bufferVars, surfaceArg,
                   job, nativeVars>>

DrainOne(t) ==
    /\ pc[t] = "drain"
    /\ preSurfaceBuffer # <<>>
    /\ fed' = [fed EXCEPT ![videoPlayer] = Append(@, Head(preSurfaceBuffer))]
    /\ preSurfaceBuffer' = Tail(preSurfaceBuffer)
    /\ UNCHANGED <<surface, sessionVars, videoPlayer, status, cachedCodecConfig,
                   callVars, nativeVars>>

DrainDone(t) ==
    /\ pc[t] = "drain"
    /\ preSurfaceBuffer = <<>>
    /\ player' = IF t = "mirror" THEN videoPlayer ELSE player
    /\ lock' = IF t = "mirror" THEN "none" ELSE lock
    /\ Goto(t, IF t = "mirror" THEN "add" ELSE "leave")
    /\ UNCHANGED <<surface, sessionVars, playerVars, bufferVars, surfaceArg, job,
                   nativeVars>>

Ensure(t) ==
    \/ EnsureExists(t) \/ EnsureNoSurface(t) \/ Create(t)
    \/ Replay(t) \/ DrainOne(t) \/ DrainDone(t)

(***************************************************************************)
(* The main thread: what starts there                                      *)
(***************************************************************************)
Begin(j, l) == pc["main"] = "idle" /\ job' = j /\ Goto("main", l)

attachSurface ==
    /\ Free("main")
    /\ ~(surface /\ videoPlayer # 0)
    /\ surface' = TRUE
    /\ pc["main"] = "idle"
    /\ IF firstVideo THEN Begin("attach", "ensure") ELSE UNCHANGED <<pc, job>>
    /\ lock' = IF firstVideo THEN "main" ELSE "none"
    /\ surfaceArg' = [surfaceArg EXCEPT !["main"] = firstVideo]
    /\ UNCHANGED <<sessionVars, playerVars, bufferVars, player, nativeVars>>

detachSurface ==
    /\ Free("main")
    /\ Begin("detach", "stop")
    /\ surface' = FALSE
    /\ lock' = "main"
    /\ UNCHANGED <<sessionVars, playerVars, bufferVars, surfaceArg, player, nativeVars>>

(* hasConnection, which audio sets too, is reset together with firstVideo. *)
setVideoMode ==
    /\ ~firstVideo
    /\ Begin("mode", "stop")
    /\ UNCHANGED <<surface, sessionVars, playerVars, bufferVars, lock, surfaceArg,
                   player, nativeVars>>

(* startupWatchdog: without a picture and with recent traffic, retry. *)
StartupWatchdog ==
    /\ "startup" \in timers
    /\ timers' = timers \ {"startup"}
    /\ IF ~hasStartedVideo
         THEN \/ firstVideo /\ Begin("startup", "stop") /\ emitState("VIDEO_STALLED")
              \/ pc["main"] = "idle" /\ UNCHANGED <<pc, job, currentState>>
         ELSE pc["main"] = "idle" /\ UNCHANGED <<pc, job, currentState>>
    /\ UNCHANGED <<surface, firstVideo, hasStartedVideo, playerVars, bufferVars,
                   lock, surfaceArg, player, nativeVars>>

(* startupWatchdogFinal: give up. *)
FinalWatchdog ==
    /\ "final" \in timers
    /\ timers' = timers \ {"final"}
    /\ IF hasStartedVideo
         THEN pc["main"] = "idle" /\ UNCHANGED <<pc, job, currentState>>
         ELSE Begin("streamStopped", "stop") /\ emitState("STOPPING_SESSION")
    /\ UNCHANGED <<surface, firstVideo, hasStartedVideo, playerVars, bufferVars,
                   lock, surfaceArg, player, nativeVars>>

(* renderWatchdog: runs again as long as there is a picture; with recent    *)
(* packets, which a reset forgets, it may find that the picture stands.     *)
RenderWatchdog ==
    /\ "render" \in timers
    /\ IF ~hasStartedVideo \/ currentState = "STOPPING_SESSION"
         THEN /\ pc["main"] = "idle"
              /\ timers' = timers \ {"render"}
              /\ UNCHANGED <<pc, job, currentState>>
         ELSE /\ firstVideo
              /\ Begin("render", "stop")
              /\ emitState("VIDEO_STALLED")
              /\ UNCHANGED timers
    /\ UNCHANGED <<surface, firstVideo, hasStartedVideo, playerVars, bufferVars,
                   lock, surfaceArg, player, nativeVars>>

(* The runnable that onStreamStopped posted. *)
HandleStop ==
    /\ stops > 0
    /\ stops' = stops - 1
    /\ IF serverUp
         THEN Begin("streamStopped", "stop") /\ emitState("STOPPING_SESSION")
         ELSE pc["main"] = "idle" /\ UNCHANGED <<pc, job, currentState>>
    /\ UNCHANGED <<surface, firstVideo, hasStartedVideo, timers, playerVars,
                   bufferVars, lock, surfaceArg, player, serverUp, session, sent>>

StopServerWith(monitor) ==
    /\ serverUp
    /\ monitor
    /\ Begin("server", "native")
    /\ timers' = {}
    /\ UNCHANGED <<surface, firstVideo, hasStartedVideo, currentState, playerVars,
                   bufferVars, surfaceArg, player, nativeVars>>

(* Mutant: stopServer is synchronized like the others. *)
StopServerSynchronized == StopServerWith(Free("main") /\ lock' = "main")
stopServer == StopServerWith(UNCHANGED lock)

(* stop(serverId) joins the native threads. *)
NativeStopped ==
    /\ pc["main"] = "native" /\ pc["mirror"] = "none"
    /\ serverUp' = FALSE
    /\ Goto("main", "stop")
    /\ UNCHANGED <<surface, sessionVars, playerVars, bufferVars, lock, surfaceArg,
                   player, job, stops, session, sent>>

(***************************************************************************)
(* The main thread: stopVideoPlayer, and what comes after it               *)
(***************************************************************************)
StopDecode ==
    /\ pc["main"] = "stop" /\ Free("main")
    /\ lock' = "main"
    /\ timers' = timers \ {"render"}
    /\ status' = IF videoPlayer = 0 THEN status
                 ELSE [status EXCEPT ![videoPlayer] = "stopping"]
    /\ Goto("main", "join")
    /\ UNCHANGED <<surface, firstVideo, hasStartedVideo, currentState, videoPlayer,
                   fed, bufferVars, surfaceArg, player, job, nativeVars>>

(* join(VIDEO_RESTART_TIMEOUT_MS) returns when the thread ended, or later. *)
Join ==
    /\ pc["main"] = "join"
    /\ videoPlayer' = 0
    /\ lock' = IF job \in {"mode", "streamStopped", "server"} THEN "none" ELSE lock
    /\ IF job = "mode" THEN Return
       ELSE /\ Goto("main", IF job \in {"streamStopped", "server"}
                            THEN "reset" ELSE "stopped")
            /\ UNCHANGED job
    /\ UNCHANGED <<surface, sessionVars, status, fed, bufferVars, surfaceArg,
                   player, nativeVars>>

Detached ==
    /\ pc["main"] = "stopped" /\ job = "detach"
    /\ hasStartedVideo' = FALSE
    /\ currentState' = IF firstVideo /\ currentState # "STOPPING_SESSION"
                       THEN "WAITING_FOR_SURFACE" ELSE currentState
    /\ lock' = "none"
    /\ Return
    /\ UNCHANGED <<surface, firstVideo, timers, playerVars, bufferVars, surfaceArg,
                   player, nativeVars>>

(* restartVideoDecoderOnly *)
Restart ==
    /\ pc["main"] = "stopped" /\ job \in {"startup", "render"}
    /\ hasStartedVideo' = FALSE
    /\ currentState' = IF surface THEN currentState ELSE "WAITING_FOR_SURFACE"
    /\ surfaceArg' = [surfaceArg EXCEPT !["main"] = surface]
    /\ Goto("main", IF surface THEN "ensure" ELSE "leave")
    /\ UNCHANGED <<surface, firstVideo, timers, playerVars, bufferVars, lock, player,
                   job, nativeVars>>

LeaveArming(timer) ==
    /\ pc["main"] = "leave"
    /\ lock' = "none"
    /\ timers' = timers \cup timer
    /\ Return /\ Forget("main")
    /\ UNCHANGED <<surface, firstVideo, hasStartedVideo, currentState, playerVars,
                   bufferVars, player, nativeVars>>

(* Mutant: the retry does not arm the last watchdog. *)
LeaveUnwatched == LeaveArming(IF job = "render" THEN {"render"} ELSE {})
(* The watchdog that restarted the decoder posts the next one. *)
LeaveMain ==
    LeaveArming((IF job = "startup" THEN {"final"} ELSE {})
                  \cup (IF job = "render" THEN {"render"} ELSE {}))

resetSessionCounters ==
    /\ pc["main"] = "reset"
    /\ timers' = {}
    /\ firstVideo' = FALSE /\ hasStartedVideo' = FALSE
    /\ Goto("main", "clear")
    /\ UNCHANGED <<surface, currentState, playerVars, bufferVars, lock, surfaceArg,
                   player, job, nativeVars>>

ClearTo(buffer) ==
    /\ pc["main"] = "clear"
    /\ ~Draining
    /\ preSurfaceBuffer' = buffer
    /\ IF job = "server"
         THEN cachedCodecConfig' = 0 /\ UNCHANGED currentState
         ELSE emitState("IDLE_ADVERTISING") /\ UNCHANGED cachedCodecConfig
    /\ Return
    /\ UNCHANGED <<surface, firstVideo, hasStartedVideo, timers, playerVars, lock,
                   surfaceArg, player, nativeVars>>

(* Mutant: the packets of the session stay in the buffer. *)
ClearNothing == ClearTo(preSurfaceBuffer)
clearPreSurfaceBuffer == ClearTo(<<>>)

(***************************************************************************)
(* The threads of the players                                              *)
(***************************************************************************)
(* handleVideoFrameRendered, when it changes something. *)
Render(p) ==
    /\ status[p] # "none" /\ HasFrame(p)
    /\ ~hasStartedVideo
    /\ hasStartedVideo' = TRUE
    /\ timers' = (timers \ {"startup", "final"}) \cup {"render"}
    /\ emitState("VIDEO_ACTIVE")
    /\ UNCHANGED <<surface, firstVideo, playerVars, bufferVars, callVars, nativeVars>>

PlayerEnds(p) ==
    /\ status[p] = "stopping"
    /\ status' = [status EXCEPT ![p] = "none"]
    /\ fed' = [fed EXCEPT ![p] = <<>>]
    /\ UNCHANGED <<surface, sessionVars, videoPlayer, bufferVars, callVars, nativeVars>>

MirrorStep == Route \/ AddPacket \/ BufferPacket \/ Buffered \/ Ensure("mirror")
MainStep ==
    \/ NativeStopped \/ StopDecode \/ Join \/ Detached \/ Restart \/ LeaveMain
    \/ resetSessionCounters \/ clearPreSurfaceBuffer \/ Ensure("main")
Watchdogs == StartupWatchdog \/ FinalWatchdog \/ RenderWatchdog

Next ==
    \/ StartStream \/ Receive \/ EndStream \/ MirrorStep
    \/ attachSurface \/ detachSurface \/ setVideoMode \/ stopServer
    \/ Watchdogs \/ HandleStop \/ MainStep
    \/ \E p \in Players : Render(p) \/ PlayerEnds(p)

(* The threads are scheduled; a native thread that is stopped ends (module  *)
(* RaopMirror); the looper of the main thread serves what is posted to it   *)
(* in the end, however busy it is; a player that is told to stop ends.      *)
Fairness ==
    /\ WF_vars(MirrorStep) /\ WF_vars(MainStep)
    /\ WF_vars(pc["main"] = "native" /\ EndStream)
    /\ SF_vars(HandleStop)
    /\ SF_vars(StartupWatchdog) /\ SF_vars(FinalWatchdog)
    /\ \A p \in Players : WF_vars(PlayerEnds(p))

Spec == Init /\ [][Next]_vars /\ Fairness

-----------------------------------------------------------------------------
Quiet == pc["main"] = "idle" /\ pc["mirror"] \in {"none", "wait"}
IsFrame(n) == ~isCodecConfig(n)

(* Types; the monitor is held exactly where a synchronized method is left   *)
(* unfinished; the buffer before the surface is bounded.                    *)
VideoTypeOK ==
    /\ surface \in BOOLEAN /\ videoPlayer \in 0 .. MaxPlayers
    /\ status \in [Players -> {"none", "running", "stopping"}]
    /\ \A p \in Players : fed[p] \in Seq(DOMAIN sent)
    /\ preSurfaceBuffer \in Seq(DOMAIN sent) /\ Len(preSurfaceBuffer) <= PreSurface
    /\ cachedCodecConfig \in {0} \cup DOMAIN sent
    /\ timers \subseteq {"startup", "final", "render"}
    /\ lock = "mirror" <=> pc["mirror"] \in {"replay", "drain"}
    /\ pc["main"] \in {"replay", "drain", "join", "stopped"} => lock = "main"
    /\ lock = "main" => pc["main"] \notin {"idle", "native", "reset", "clear"}

(* Only one player decodes at a time, and it is the one of the field:       *)
(* whichever thread calls ensureVideoPlayer, no player is made beside a     *)
(* running one and none is forgotten while it runs.                         *)
OnePlayer ==
    \A p \in Players : status[p] = "running" => videoPlayer = p

(* The native memory of a frame has one owner, so that it is freed once: a  *)
(* frame is given to one player, once, and is not in the buffer as well,    *)
(* which never holds more than PreSurface of them.                          *)
OneOwner ==
    /\ VideoTypeOK
    /\ \A p, q \in Players : \A i \in DOMAIN fed[p], j \in DOMAIN fed[q] :
         IsFrame(fed[p][i]) /\ fed[p][i] = fed[q][j] => p = q /\ i = j
    /\ \A p \in Players : \A i \in DOMAIN fed[p], j \in DOMAIN preSurfaceBuffer :
         fed[p][i] # preSurfaceBuffer[j]

(* When every mirror session has ended and its end was handled, or when     *)
(* stopServer has returned, nothing of a session is left: no player, no     *)
(* buffered packet, no watchdog that would restart a decoder; however the   *)
(* sessions, the surface, the watchdogs and what was posted meanwhile came  *)
(* together.                                                                *)
NothingLeft ==
    /\ videoPlayer = 0 /\ preSurfaceBuffer = <<>>
    /\ \A p \in Players : status[p] # "running"
    /\ timers \subseteq {"render"}

IdleClean ==
    pc["main"] = "idle" /\ pc["mirror"] = "none" =>
        /\ stops = 0 => NothingLeft /\ ~firstVideo
        /\ ~serverUp => NothingLeft /\ cachedCodecConfig = 0

(* No call blocks the main thread: with the monitor, the buffer's lock and  *)
(* the join of the mirror thread, which itself calls ensureVideoPlayer.     *)
(* (An audio timing thread that never ends, raop_rtp.c:403, would hold      *)
(* stopServer too: that half is in RaopControl.)                            *)
MainReturns == pc["main"] # "idle" ~> pc["main"] = "idle"

(* Once the startup watchdog retried the decoder, the session shows a       *)
(* picture or is ended, also when its surface comes and goes.               *)
StartupDecided ==
    job = "startup" /\ pc["main"] = "stop" ~> hasStartedVideo \/ ~firstVideo

(* Frames reach a decoder in the order in which they were received          *)
(* (docs/performance.md).                                                   *)
FramesInOrder ==
    \A p \in Players : \A i, j \in DOMAIN fed[p] :
        i < j /\ IsFrame(fed[p][i]) /\ IsFrame(fed[p][j]) => fed[p][i] < fed[p][j]

(* A decoder that runs without a picture is watched by a timer that can     *)
(* restart it or end the session (README.md: stall recovery).               *)
DecoderWatched ==
    Quiet /\ firstVideo /\ videoPlayer # 0 /\ ~hasStartedVideo => timers # {}

(* VIDEO_ACTIVE says that a decoder renders (ReceiverState.kt): it does not  *)
(* outlive the last session.                                                *)
EndedNotActive ==
    Quiet /\ pc["mirror"] = "none" /\ stops = 0 => currentState # "VIDEO_ACTIVE"

(* WAITING_FOR_SURFACE says that the surface does not yet exist             *)
(* (ReceiverState.kt).                                                      *)
WaitingHasNoSurface ==
    Quiet /\ currentState = "WAITING_FOR_SURFACE" => ~surface

(* A detached surface is not rendered to: it may be given to the DLNA       *)
(* player (ReceiverRuntime.kt).                                             *)
DetachedNotRendered == Quiet /\ videoPlayer # 0 => surface
==============================================================================
