---------------------------- MODULE DlnaRenderer ----------------------------
(***************************************************************************)
(* The DLNA renderer (DlnaMediaRenderer.kt).  Requests of the controller   *)
(* come on worker threads, remote keys on the main thread; a system        *)
(* MediaPlayer calls back on the main thread, an ExoPlayer lives on a       *)
(* thread of its own with a queue of runnables.  play, playWithExoPlayer,   *)
(* stopPlayback and releasePlayer hold the monitor and are one step each;   *)
(* Pause, Seek and every callback do not.                                   *)
(*                                                                         *)
(* What a player shows is not modelled, nor is its position: a player       *)
(* prepares, is ready, ends or fails, and is released.                      *)
(***************************************************************************)
EXTENDS Naturals, Sequences, FiniteSets

CONSTANTS
    MaxPlayers,      \* player objects (bound)
    MaxRequests,     \* requests of the controller or the remote (bound)
    MaxRetries       \* MAX_PLAYBACK_RETRIES (2)

ASSUME RendererAssumption ==
    MaxPlayers \in Nat \ {0} /\ MaxRequests \in Nat /\ MaxRetries \in Nat

Players == 1 .. MaxPlayers

VARIABLES
    running,
    currentUri,      \* "none", "system", or "compatible" (prefersCompatiblePlayer)
    transportState, retryCount, systemFallbackUsed,
    player, exoPlayer, exoGeneration,
    object,          \* by player: [state, exo, generation]
    exoQueue,        \* runnables of the ExoPlayer thread
    building,        \* generation whose ExoPlayer that thread builds, or 0
    retrying,        \* player of the retry that has passed its check, or 0
    delayed,         \* retries whose delay runs
    callback,        \* what a MediaPlayer calls on the main thread
    fallbacks,       \* playWithExoPlayer jobs given to the workers
    pausing,         \* a Pause request that did its work and did not report yet
    reported,        \* the last onPlaybackChanged
    wanted,          \* history: the last of Play and Stop was Play
    requests         \* counter of the bound

requestVars == <<running, currentUri, systemFallbackUsed, wanted, requests>>
playerVars == <<player, exoPlayer, exoGeneration, object>>
threadVars == <<exoQueue, building, retrying, delayed, callback, fallbacks, pausing>>
stateVars == <<transportState, retryCount, reported>>
rendererVars == <<requestVars, playerVars, threadVars, stateVars>>

NoCallback == [player |-> 0, event |-> "none"]
RendererInit ==
    /\ running = TRUE /\ currentUri = "none" /\ transportState = "STOPPED"
    /\ retryCount = 0 /\ systemFallbackUsed = FALSE
    /\ player = 0 /\ exoPlayer = 0 /\ exoGeneration = 0
    /\ object = [p \in Players |-> [state |-> "none", exo |-> FALSE, generation |-> 0]]
    /\ exoQueue = <<>> /\ building = 0 /\ retrying = 0 /\ delayed = {}
    /\ callback = NoCallback /\ fallbacks = 0 /\ pausing = FALSE
    /\ reported = FALSE /\ wanted = FALSE /\ requests = 0

Alive(p) == object[p].state \notin {"none", "released"}
Fresh == {p \in Players : object[p].state = "none"}
NewPlayer == CHOOSE p \in Fresh : TRUE
Enter(p, s) == [object EXCEPT ![p].state = s]
Create(g) == [do |-> "create", generation |-> g, player |-> 0]
Release(p) == [do |-> "release", generation |-> 0, player |-> p]
Retry(g, p) == [do |-> "retry", generation |-> g, player |-> p]
Report(transport, active) == transportState' = transport /\ reported' = active
Request == running /\ requests < MaxRequests /\ UNCHANGED running /\ requests' = requests + 1

(***************************************************************************)
(* Under the monitor                                                       *)
(***************************************************************************)
Released == IF player = 0 THEN object ELSE Enter(player, "released")
ReleaseExo == IF exoPlayer = 0 THEN <<>> ELSE <<Release(exoPlayer)>>
(* more is what the caller of releasePlayer posts to the ExoPlayer thread   *)
releasePlayer(more) ==
    /\ exoGeneration' = exoGeneration + 1
    /\ exoPlayer' = 0
    /\ exoQueue' = exoQueue \o ReleaseExo \o more

playWithExoPlayer ==
    IF exoPlayer # 0 /\ transportState = "PAUSED_PLAYBACK"
      THEN /\ Report("PLAYING", TRUE)
           /\ UNCHANGED <<playerVars, exoQueue>>
      ELSE /\ releasePlayer(<<Create(exoGeneration + 1)>>)
           /\ object' = Released /\ player' = 0
           /\ Report("TRANSITIONING", TRUE)

(* existing.start() fails while the player still prepares.                  *)
ResumeSystem ==
    /\ IF object[player].state = "preparing" THEN UNCHANGED <<transportState, reported>>
       ELSE Report("PLAYING", TRUE)
    /\ UNCHANGED <<playerVars, exoQueue>>

(* The MediaPlayer is made and given the surface before setDataSource and   *)
(* prepareAsync: when one of them throws it is neither assigned nor released.*)
MakeFrom(objects) ==
    /\ releasePlayer(<<>>)
    /\ Report("TRANSITIONING", TRUE)
    /\ \E made \in {"preparing", "abandoned"} :
         /\ object' = [objects EXCEPT ![NewPlayer] =
                         [state |-> made, exo |-> FALSE, generation |-> 0]]
         /\ player' = IF made = "preparing" THEN NewPlayer ELSE 0
(* Mutant: the player that was there is not released.                       *)
MakeBeside == MakeFrom(object)
MakeSystem == MakeFrom(Released)

play ==
    /\ Request /\ currentUri # "none" /\ Fresh # {}
    /\ wanted' = TRUE
    /\ IF currentUri = "compatible" THEN playWithExoPlayer
       ELSE IF player # 0 /\ transportState = "PAUSED_PLAYBACK" THEN ResumeSystem
       ELSE MakeSystem
    /\ UNCHANGED <<currentUri, systemFallbackUsed, retryCount, building, retrying,
                   delayed, callback, fallbacks, pausing>>

(* Stop of the controller, and stopFromRemote when there is a player        *)
stopPlayback ==
    /\ Request
    /\ wanted' = FALSE
    /\ releasePlayer(<<>>) /\ object' = Released /\ player' = 0
    /\ Report("STOPPED", FALSE)
    /\ UNCHANGED <<currentUri, systemFallbackUsed, retryCount, building, retrying,
                   delayed, callback, fallbacks, pausing>>

(* togglePlayback: a player that is busy does not answer in time (paused).  *)
togglePlayback ==
    /\ Request /\ {player, exoPlayer} # {0}
    /\ \/ Report("PLAYING", TRUE)
       \/ Report("PAUSED_PLAYBACK", TRUE)
       \/ exoPlayer = 0 /\ object[player].state = "preparing"
          /\ UNCHANGED <<transportState, reported>>
    /\ UNCHANGED <<currentUri, systemFallbackUsed, wanted, retryCount, playerVars, threadVars>>

(* The end of the service: nothing is reported.                             *)
stop ==
    /\ running /\ running' = FALSE
    /\ releasePlayer(<<>>) /\ object' = Released /\ player' = 0
    /\ UNCHANGED <<currentUri, systemFallbackUsed, wanted, requests, building, retrying,
                   delayed, callback, fallbacks, pausing, stateVars>>

(* A worker runs the fallback of a system player that failed.               *)
Fallback ==
    /\ fallbacks > 0 /\ Fresh # {}
    /\ fallbacks' = fallbacks - 1
    /\ playWithExoPlayer
    /\ UNCHANGED <<requestVars, retryCount, building, retrying, delayed, callback, pausing>>

(***************************************************************************)
(* Without the monitor                                                     *)
(***************************************************************************)
SetAVTransportURI ==
    /\ Request /\ currentUri' \in {"system", "compatible"}
    /\ retryCount' = 0 /\ systemFallbackUsed' = FALSE /\ transportState' = "STOPPED"
    /\ UNCHANGED <<wanted, playerVars, threadVars, reported>>

(* player?.pause() fails before the player is ready; without a player there *)
(* is nothing to fail.                                                      *)
Pause ==
    /\ Request /\ ~pausing
    /\ pausing' = (exoPlayer # 0 \/ player = 0 \/ object[player].state \in {"ready", "ended"})
    /\ UNCHANGED <<currentUri, systemFallbackUsed, wanted, playerVars, exoQueue, building,
                   retrying, delayed, callback, fallbacks, stateVars>>

PauseReports ==
    /\ pausing /\ pausing' = FALSE
    /\ Report("PAUSED_PLAYBACK", TRUE)
    /\ UNCHANGED <<requestVars, playerVars, exoQueue, building, retrying, delayed, callback,
                   fallbacks, retryCount>>

seek ==
    /\ Request /\ transportState' = "PLAYING"
    /\ UNCHANGED <<currentUri, systemFallbackUsed, wanted, playerVars, threadVars,
                   retryCount, reported>>

(* A MediaPlayer calls back on the main thread; a worker may release it      *)
(* before the callback is through.                                          *)
CallBack ==
    /\ callback = NoCallback
    /\ \E p \in Players, event \in {"prepared", "completion", "error"} :
         /\ Alive(p) /\ ~object[p].exo
         /\ object[p].state \in (CASE event = "prepared" -> {"preparing"}
                                   [] event = "completion" -> {"ready"}
                                   [] event = "error" -> {"preparing", "ready"})
         /\ object' = Enter(p, CASE event = "prepared" -> "ready"
                                 [] event = "completion" -> "ended"
                                 [] event = "error" -> "failed")
         /\ callback' = [player |-> p, event |-> event]
    /\ UNCHANGED <<requestVars, player, exoPlayer, exoGeneration, exoQueue, building,
                   retrying, delayed, fallbacks, pausing, stateVars>>

(* start() on a player that was released fails, and with it the callback.   *)
Prepared ==
    /\ callback.event = "prepared" /\ callback' = NoCallback
    /\ retryCount' = 0
    /\ IF Alive(callback.player) THEN Report("PLAYING", TRUE)
       ELSE UNCHANGED <<transportState, reported>>
    /\ UNCHANGED <<requestVars, playerVars, exoQueue, building, retrying, delayed, fallbacks,
                   pausing>>

Completion ==
    /\ callback.event = "completion" /\ callback' = NoCallback
    /\ Report("STOPPED", FALSE)
    /\ UNCHANGED <<requestVars, playerVars, exoQueue, building, retrying, delayed, fallbacks,
                   pausing, retryCount>>

Error ==
    /\ callback.event = "error" /\ callback' = NoCallback
    /\ systemFallbackUsed' = TRUE
    /\ IF systemFallbackUsed
         THEN Report("STOPPED", FALSE) /\ UNCHANGED fallbacks
         ELSE reported' = TRUE /\ fallbacks' = fallbacks + 1 /\ UNCHANGED transportState
    /\ UNCHANGED <<running, currentUri, wanted, requests, playerVars, exoQueue, building,
                   retrying, delayed, pausing, retryCount>>

(***************************************************************************)
(* The thread of the ExoPlayers                                            *)
(***************************************************************************)
ExoIdle == building = 0 /\ retrying = 0
NextIs(kind) == ExoIdle /\ exoQueue # <<>> /\ Head(exoQueue).do = kind

BeginBuild ==
    /\ NextIs("create") /\ exoQueue' = Tail(exoQueue)
    /\ building' = IF Head(exoQueue).generation = exoGeneration THEN exoGeneration ELSE 0
    /\ UNCHANGED <<requestVars, playerVars, retrying, delayed, callback, fallbacks, pausing,
                   stateVars>>

(* exoPlayer is assigned when the player is built, whatever happened since; *)
(* a releasePlayer that read exoPlayer before may clear it just after.      *)
Built ==
    /\ building # 0 /\ Fresh # {}
    /\ building' = 0
    /\ \/ exoPlayer' = NewPlayer
       \/ building # exoGeneration /\ exoPlayer' = 0
    /\ object' = [object EXCEPT ![NewPlayer] =
                    [state |-> "preparing", exo |-> TRUE, generation |-> building]]
    /\ UNCHANGED <<requestVars, player, exoGeneration, exoQueue, retrying, delayed, callback,
                   fallbacks, pausing, stateVars>>

ReleaseRuns ==
    /\ NextIs("release") /\ exoQueue' = Tail(exoQueue)
    /\ object' = Enter(Head(exoQueue).player, "released")
    /\ UNCHANGED <<requestVars, player, exoPlayer, exoGeneration, building, retrying, delayed,
                   callback, fallbacks, pausing, stateVars>>

(* A retry asks whose it is without the monitor, and then starts the player *)
(* whatever was let go meanwhile; a release can only queue behind it.       *)
RetryIf(mayRetry) ==
    /\ NextIs("retry") /\ exoQueue' = Tail(exoQueue)
    /\ retrying' = IF mayRetry THEN Head(exoQueue).player ELSE 0
    /\ UNCHANGED <<requestVars, playerVars, building, delayed, callback, fallbacks, pausing,
                   stateVars>>

(* Mutant: a retry does not ask whose it is.                                *)
RetryAny == RetryIf(TRUE)
RetryRuns == RetryIf(Head(exoQueue).generation = exoGeneration
                     /\ Head(exoQueue).player = exoPlayer)

RetryPrepares ==
    /\ retrying # 0 /\ retrying' = 0
    /\ object' = Enter(retrying, "preparing")
    /\ UNCHANGED <<requestVars, player, exoPlayer, exoGeneration, exoQueue, building, delayed,
                   callback, fallbacks, pausing, stateVars>>

DelayOver ==
    /\ \E r \in delayed : delayed' = delayed \ {r} /\ exoQueue' = Append(exoQueue, r)
    /\ UNCHANGED <<requestVars, playerVars, building, retrying, callback, fallbacks, pausing,
                   stateVars>>

(* The listener runs on the same thread, and asks nobody whether its player *)
(* is still the current one.                                                *)
Listener(p, from, to) ==
    /\ ExoIdle /\ object[p].exo /\ object[p].state \in from
    /\ object' = Enter(p, to)
    /\ UNCHANGED <<requestVars, player, exoPlayer, exoGeneration, exoQueue, building, retrying,
                   callback, fallbacks, pausing>>

Buffering(p) == Listener(p, {"ready"}, "ready") /\ reported' = TRUE
                /\ UNCHANGED <<transportState, retryCount, delayed>>
ReadyState(p) == Listener(p, {"preparing"}, "ready") /\ Report("PLAYING", TRUE)
                 /\ retryCount' = 0 /\ UNCHANGED delayed
EndedState(p) == Listener(p, {"ready"}, "ended") /\ Report("STOPPED", FALSE)
                 /\ UNCHANGED <<retryCount, delayed>>
PlayerError(p) ==
    /\ Listener(p, {"preparing", "ready"}, "failed")
    /\ IF retryCount < MaxRetries
         THEN /\ retryCount' = retryCount + 1 /\ Report("TRANSITIONING", TRUE)
              /\ delayed' = delayed \cup {Retry(object[p].generation, p)}
         ELSE Report("STOPPED", FALSE) /\ UNCHANGED <<retryCount, delayed>>

Requests == SetAVTransportURI \/ play \/ stopPlayback \/ togglePlayback \/ Pause \/ seek
System == CallBack \/ Prepared \/ Completion \/ Error
Exo == BeginBuild \/ Built \/ ReleaseRuns \/ RetryRuns \/ RetryPrepares
Events == \E p \in Players : Buffering(p) \/ ReadyState(p) \/ EndedState(p) \/ PlayerError(p)
RendererNext == Requests \/ stop \/ PauseReports \/ Fallback \/ System \/ Exo \/ DelayOver \/ Events

RendererSpec == RendererInit /\ [][RendererNext]_rendererVars

(***************************************************************************)
(* Properties                                                              *)
(***************************************************************************)
Objects == [state : {"none", "preparing", "ready", "ended", "failed", "released", "abandoned"},
            exo : BOOLEAN, generation : Nat]
Jobs == [do : {"create", "release", "retry"}, generation : Nat, player : Players \cup {0}]

RendererTypeOK ==
    /\ object \in [Players -> Objects]
    /\ player \in Players \cup {0} /\ exoPlayer \in Players \cup {0}
    /\ exoGeneration \in Nat /\ building \in Nat /\ retrying \in Players \cup {0}
    /\ exoQueue \in Seq(Jobs)
    /\ \A i \in DOMAIN exoQueue : exoQueue[i].do # "create" => exoQueue[i].player \in Players
    /\ delayed \subseteq {r \in Jobs : r.do = "retry" /\ r.player \in Players}

(* However Play, Stop and the fallback of a failed player follow each       *)
(* other, a MediaPlayer that is not released is the current one, except the *)
(* one whose setDataSource or prepareAsync threw: the code forgets that one. *)
OneMediaPlayer == \A p \in Players :
    Alive(p) /\ ~object[p].exo => p = player \/ object[p].state = "abandoned"

QueuedReleases(p) == Cardinality({i \in DOMAIN exoQueue : exoQueue[i] = Release(p)})

(* An ExoPlayer is released once, also when Stop, Play and the end of the   *)
(* service come while its release still waits in the queue.                 *)
ReleasedOnce == \A p \in Players :
    QueuedReleases(p) + (IF object[p].state = "released" THEN 1 ELSE 0) <= 1

(* Who has a player: but for one whose preparation threw, no MediaPlayer is *)
(* forgotten, and no ExoPlayer is released twice.                           *)
PlayersInv == RendererTypeOK /\ OneMediaPlayer /\ ReleasedOnce

(* No retry passes its check for a player that was let go; only one that    *)
(* had passed it before may still start such a player, and never one that   *)
(* is released.                                                             *)
LetGo(p) == QueuedReleases(p) > 0 \/ object[p].state = "released"
StartsNoMore(p) ==
    /\ retrying' = p => retrying = p
    /\ object'[p].state = "preparing" =>
         \/ object[p].state = "preparing"
         \/ object[p].state # "released" /\ retrying = p
RetiredStaysDown == [][\A p \in Players : LetGo(p) => StartsNoMore(p)]_rendererVars

RendererQuiet == /\ exoQueue = <<>> /\ ExoIdle /\ delayed = {} /\ fallbacks = 0
                 /\ callback = NoCallback /\ ~pausing

(* What was reported as playing has a player.                               *)
ActiveHasPlayer == running /\ RendererQuiet /\ reported =>
    \E p \in Players : Alive(p) /\ object[p].state # "abandoned"

(* When a playback has ended by itself and that was reported, no player     *)
(* holds the surface that AirPlay is then given.                            *)
SurfaceGivenBack == RendererQuiet /\ wanted /\ ~reported => ~\E p \in Players : Alive(p)

(* Nothing plays that was not asked for: after a Stop no player is left.    *)
StopHolds == RendererQuiet /\ ~wanted =>
    ~\E p \in Players : object[p].state \in {"preparing", "ready"}
==============================================================================
