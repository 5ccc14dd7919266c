----------------------------- MODULE RaopMirror -----------------------------
(***************************************************************************)
(* A mirroring session, raop_rtp_mirror_t of cpp/lib/raop_rtp_mirror.c:    *)
(* the mirror thread (accept the sender's stream, receive frames, tear     *)
(* itself down), the timing thread, and raop_rtp_mirror_destroy on the     *)
(* thread of the caller.  The three descriptors and the fields that hold   *)
(* them are kept apart: the mirror thread closes descriptors and clears    *)
(* the fields of the two server sockets outside run_mutex.                 *)
(*                                                                         *)
(* What is done under run_mutex is one action.                             *)
(***************************************************************************)
EXTENDS Naturals

CONSTANT MaxFrames   \* frames delivered (bound)

ASSUME MaxFramesAssumption == MaxFrames \in Nat

Socks == {"data", "time", "stream"}

VARIABLES
    running, joined, \* the fields of raop_rtp_mirror_s
    field,           \* descriptors held in stream_fd, mirror_data_sock, mirror_time_sock
    open,            \* descriptors open
    shut,            \* open descriptors that were shut down
    mirror,          \* the mirror thread
    local,           \* its variable stream_fd holds the stream
    time,            \* the timing thread
    caller,          \* raop_rtp_mirror_destroy
    copy,            \* the descriptors the caller copied under the lock
    frames,          \* history: frames given to video_process
    stopped          \* history: calls of stream_stopped

lockVars == <<running, joined>>
sockVars == <<field, open, shut>>
mirrorVars == <<mirror, local>>
callVars == <<caller, copy>>
histVars == <<frames, stopped>>
vars == <<lockVars, sockVars, mirrorVars, time, callVars, histVars>>

Init ==
    /\ running = FALSE /\ joined = TRUE
    /\ field = {} /\ open = {} /\ shut = {}
    /\ mirror = "none" /\ local = FALSE
    /\ time = "none"
    /\ caller = "idle" /\ copy = {}
    /\ frames = 0 /\ stopped = 0

Close(sock) ==
    /\ open' = open \ {sock}
    /\ shut' = shut \ {sock}

(***************************************************************************)
(* raop_rtp_start_mirror                                                   *)
(***************************************************************************)
Start ==
    /\ caller = "idle"
    /\ ~running /\ joined
    /\ running' = TRUE
    /\ joined' = FALSE
    /\ field' = {"data", "time"}
    /\ open' = {"data", "time"}
    /\ mirror' = "check"
    /\ time' = "check"
    /\ UNCHANGED <<shut, local, callVars, histVars>>

(***************************************************************************)
(* raop_rtp_mirror_thread                                                  *)
(***************************************************************************)
MirrorCheck ==
    /\ mirror = "check"
    /\ mirror' = IF running THEN "select" ELSE "closeStream"
    /\ UNCHANGED <<lockVars, sockVars, local, time, callVars, histVars>>

SelectTimeout ==
    /\ mirror = "select"
    /\ mirror' = "check"
    /\ UNCHANGED <<lockVars, sockVars, local, time, callVars, histVars>>

(* select or accept fails (accept does, once the server socket is shut down). *)
SelectError ==
    /\ mirror = "select"
    /\ mirror' = "closeStream"
    /\ UNCHANGED <<lockVars, sockVars, local, time, callVars, histVars>>

Accept ==
    /\ mirror = "select"
    /\ ~local
    /\ "data" \notin shut
    /\ open' = open \cup {"stream"}
    /\ local' = TRUE
    /\ mirror' = "publish"
    /\ UNCHANGED <<lockVars, field, shut, time, callVars, histVars>>

(* Mutant: the caller is never told of the stream. *)
PublishNothing ==
    /\ mirror = "publish"
    /\ mirror' = "check"
    /\ UNCHANGED <<lockVars, sockVars, local, time, callVars, histVars>>

Publish ==
    /\ mirror = "publish"
    /\ field' = field \cup {"stream"}
    /\ mirror' = "check"
    /\ UNCHANGED <<lockVars, open, shut, local, time, callVars, histVars>>

StreamReadable ==
    /\ mirror = "select"
    /\ local
    /\ mirror' = "recv"
    /\ UNCHANGED <<lockVars, sockVars, local, time, callVars, histVars>>

(* The sender completes a frame: video_process, or data that is discarded. *)
Frame ==
    /\ mirror = "recv"
    /\ \/ frames < MaxFrames /\ frames' = frames + 1
       \/ UNCHANGED frames
    /\ mirror' = "check"
    /\ UNCHANGED <<lockVars, sockVars, local, time, callVars, stopped>>

(* The sender closes the stream, or sends what cannot be a frame. *)
StreamEnds ==
    /\ mirror = "recv"
    /\ mirror' = "closeStream"
    /\ UNCHANGED <<lockVars, sockVars, local, time, callVars, histVars>>

(* recv in the middle of a frame returns only with data, or when it is shut. *)
StreamShut ==
    /\ mirror = "recv"
    /\ "stream" \in shut
    /\ mirror' = "closeStream"
    /\ UNCHANGED <<lockVars, sockVars, local, time, callVars, histVars>>

(* Mutant: the stream is closed only when the sender ended it. *)
CloseStreamIfRunning ==
    /\ mirror = "closeStream"
    /\ IF local /\ running THEN Close("stream") ELSE UNCHANGED <<open, shut>>
    /\ mirror' = "mark"
    /\ UNCHANGED <<lockVars, field, local, time, callVars, histVars>>

CloseStream ==
    /\ mirror = "closeStream"
    /\ IF local THEN Close("stream") ELSE UNCHANGED <<open, shut>>
    /\ mirror' = "mark"
    /\ UNCHANGED <<lockVars, field, local, time, callVars, histVars>>

MarkStopped ==
    /\ mirror = "mark"
    /\ running' = FALSE
    /\ field' = field \ {"stream"}
    /\ mirror' = "closeData"
    /\ UNCHANGED <<joined, open, shut, local, time, callVars, histVars>>

(* closesocket and the store of -1 are two steps, outside the lock. *)
MirrorClose(sock, at, then) ==
    /\ mirror = at
    /\ IF sock \in field THEN Close(sock) ELSE UNCHANGED <<open, shut>>
    /\ mirror' = then
    /\ UNCHANGED <<lockVars, field, local, time, callVars, histVars>>

(* Mutant: the store of -1 is forgotten. *)
MirrorKeepsField(sock, at, then) ==
    /\ mirror = at
    /\ mirror' = then
    /\ UNCHANGED <<lockVars, sockVars, local, time, callVars, histVars>>

MirrorClear(sock, at, then) ==
    /\ mirror = at
    /\ field' = field \ {sock}
    /\ mirror' = then
    /\ UNCHANGED <<lockVars, open, shut, local, time, callVars, histVars>>

MirrorCloseSockets ==
    \/ MirrorClose("data", "closeData", "clearData")
    \/ MirrorClear("data", "clearData", "closeTime")
    \/ MirrorClose("time", "closeTime", "clearTime")
    \/ MirrorClear("time", "clearTime", "signal")

Wake == time' = IF time = "wait" THEN "check" ELSE time

MirrorSignal ==
    /\ mirror = "signal"
    /\ Wake
    /\ mirror' = "callback"
    /\ UNCHANGED <<lockVars, sockVars, local, callVars, histVars>>

StreamStopped ==
    /\ mirror = "callback"
    /\ stopped' = stopped + 1
    /\ mirror' = "done"
    /\ UNCHANGED <<lockVars, sockVars, local, time, callVars, frames>>

MirrorThread ==
    \/ MirrorCheck \/ SelectTimeout \/ SelectError \/ Accept \/ Publish
    \/ StreamReadable \/ StreamShut \/ CloseStream \/ MarkStopped
    \/ MirrorCloseSockets \/ MirrorSignal \/ StreamStopped

Sender == Frame \/ StreamEnds

(***************************************************************************)
(* raop_rtp_mirror_thread_time: recvfrom gives up after 1 s (SO_RCVTIMEO)  *)
(* or fails at once on a closed descriptor; a short answer, and the first  *)
(* one, are followed by the next query without a wait.                     *)
(***************************************************************************)
TimeCheck ==
    /\ time = "check"
    /\ time' = IF running THEN "recv" ELSE "done"
    /\ UNCHANGED <<lockVars, sockVars, mirrorVars, callVars, histVars>>

TimeRecv ==
    /\ time = "recv"
    /\ time' \in {"check", "wait"}
    /\ UNCHANGED <<lockVars, sockVars, mirrorVars, callVars, histVars>>

TimeWaited ==
    /\ time = "wait"
    /\ time' = "check"
    /\ UNCHANGED <<lockVars, sockVars, mirrorVars, callVars, histVars>>

TimeThread == TimeCheck \/ TimeRecv \/ TimeWaited

(***************************************************************************)
(* raop_rtp_mirror_destroy: raop_rtp_mirror_stop, then free                *)
(***************************************************************************)
DestroyJoined ==
    /\ caller = "idle"
    /\ joined
    /\ caller' = "freed"
    /\ UNCHANGED <<lockVars, sockVars, mirrorVars, time, copy, histVars>>

StopBegin ==
    /\ caller = "idle"
    /\ ~joined
    /\ running' = FALSE
    /\ copy' = field
    /\ caller' = "shutdown"
    /\ UNCHANGED <<joined, sockVars, mirrorVars, time, histVars>>

(* shutdown of each descriptor copied; one closed meanwhile is not ours. *)
Shutdown ==
    /\ caller = "shutdown"
    /\ shut' = shut \cup (copy \cap open)
    /\ caller' = "signal"
    /\ UNCHANGED <<lockVars, field, open, mirrorVars, time, copy, histVars>>

Signal(at, then) ==
    /\ caller = at
    /\ Wake
    /\ caller' = then
    /\ UNCHANGED <<lockVars, sockVars, mirrorVars, copy, histVars>>

JoinMirror ==
    /\ caller = "joinMirror"
    /\ mirror = "done"
    /\ caller' = "signalAgain"
    /\ UNCHANGED <<lockVars, sockVars, mirrorVars, time, copy, histVars>>

JoinTime ==
    /\ caller = "joinTime"
    /\ time = "done"
    /\ caller' = "close"
    /\ UNCHANGED <<lockVars, sockVars, mirrorVars, time, copy, histVars>>

(* Close what is still open, mark as joined, free. *)
CloseAndFree ==
    /\ caller = "close"
    /\ open' = open \ (field \cap {"data", "time"})
    /\ shut' = shut \ (field \cap {"data", "time"})
    /\ field' = field \ {"data", "time"}
    /\ joined' = TRUE
    /\ caller' = "freed"
    /\ UNCHANGED <<running, mirrorVars, time, copy, histVars>>

StopGoesOn ==
    \/ Shutdown
    \/ Signal("signal", "joinMirror")
    \/ JoinMirror
    \/ Signal("signalAgain", "joinTime")
    \/ JoinTime
    \/ CloseAndFree

Next ==
    \/ Start \/ DestroyJoined \/ StopBegin \/ StopGoesOn
    \/ MirrorThread \/ Sender \/ TimeThread

(* Threads run and joins end when they can; the sender owes nothing. *)
Spec ==
    /\ Init /\ [][Next]_vars
    /\ WF_vars(MirrorThread) /\ WF_vars(TimeThread) /\ WF_vars(StopGoesOn)

-----------------------------------------------------------------------------
MirrorAlive == mirror \notin {"none", "done"}
TimeAlive == time \notin {"none", "done"}

TypeOK ==
    /\ running \in BOOLEAN /\ joined \in BOOLEAN
    /\ field \subseteq Socks /\ open \subseteq Socks /\ shut \subseteq open
    /\ mirror \in {"none", "check", "select", "publish", "recv", "closeStream",
                   "mark", "closeData", "clearData", "closeTime", "clearTime",
                   "signal", "callback", "done"}
    /\ local \in BOOLEAN
    /\ time \in {"none", "check", "recv", "wait", "done"}
    /\ caller \in {"idle", "shutdown", "signal", "joinMirror", "signalAgain",
                   "joinTime", "close", "freed"}
    /\ copy \subseteq Socks
    /\ frames \in 0..MaxFrames /\ stopped \in Nat

(***************************************************************************)
(* The session outlives its threads, also when the mirror thread ended by  *)
(* itself and cleared running: nothing is freed under a thread, and joined *)
(* is false while one lives (raop_rtp_mirror.c:613-672).                   *)
(***************************************************************************)
ThreadsInv ==
    /\ TypeOK
    /\ MirrorAlive \/ TimeAlive => ~joined /\ caller \notin {"close", "freed"}

(***************************************************************************)
(* No descriptor is closed twice by the two threads that close them: what  *)
(* is about to be closed is open (raop_rtp_mirror.c:547-563, 645-652).     *)
(***************************************************************************)
CloseOnceInv ==
    /\ mirror = "closeStream" /\ local => "stream" \in open
    /\ mirror = "closeData" /\ "data" \in field => "data" \in open
    /\ mirror = "closeTime" /\ "time" \in field => "time" \in open
    /\ caller = "close" => field \subseteq open

(***************************************************************************)
(* A session that was started and freed left no descriptor open and told   *)
(* its listener exactly once that the stream stopped, whichever of the     *)
(* sender and the caller ended it first.                                   *)
(***************************************************************************)
FreedInv ==
    caller = "freed" => open = {} /\ stopped = IF mirror = "done" THEN 1 ELSE 0

(***************************************************************************)
(* raop_rtp_mirror_stop returns whatever the sender does, even when it     *)
(* stops in the middle of a frame: the shutdown reaches every stream the   *)
(* mirror thread can be blocked on (raop_rtp_mirror.c:625-634).            *)
(***************************************************************************)
StopReturns == caller = "shutdown" ~> caller = "freed"
=============================================================================
