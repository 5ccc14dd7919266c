--------------------------- MODULE ReceiverRuntime ---------------------------
(***************************************************************************)
(* The runtime of the receiver (ReceiverRuntime.kt): the state machine the  *)
(* screen shows.  Everything that moves it is posted to the main looper:   *)
(* the states the media server emits, the playback changes of the DLNA     *)
(* renderer and, after four seconds, the end of the pairing placeholder.   *)
(*                                                                         *)
(* The media server is kept to what it emits (module RaopVideo has its      *)
(* threads), the renderer to what it reports.  The telemetry collector     *)
(* begins and ends with the history record and is not kept apart.          *)
(***************************************************************************)
EXTENDS Naturals, Sequences, SequencesExt

CONSTANTS
    Streams,         \* subset of {"audio", "video"} that senders set up
    Pins,            \* values of securityModeUsesPinPlaceholder: by mode, and
                     \* in "new devices" by sender
    MaxSessions,     \* connections (bound)
    MaxPlays,        \* DLNA playbacks (bound)
    MaxRestarts,     \* stop() and start() by the user (bound)
    MaxEvents,       \* all of these together (bound)
    MaxPosts         \* posted runnables before a thread posts one more (bound)

ASSUME RuntimeAssumption ==
    /\ Streams \subseteq {"audio", "video"} /\ Pins \subseteq BOOLEAN
    /\ {MaxSessions, MaxPlays, MaxRestarts, MaxEvents, MaxPosts} \subseteq Nat

VARIABLES
    receiver,        \* [state, pin: a PIN is shown, history: open record]
    dlnaPlaybackActive,
    attachedSurface, \* attachedSurface # null
    raop,            \* the media server: what it remembers of a session, the
                     \* stopped players that may still draw, and (history)
                     \* whether a thread spoke of what was no longer so
    posted,          \* runnables in the main looper
    timers,          \* delayed runnables of the pairing placeholder
    live,            \* streams whose native thread delivers
    audioFirst,      \* onRecvAudioData saw no video and did not emit yet
    mirror,          \* onRecvVideoData: "none", "packet" (it looks for the
                     \* player next) or the state it has yet to emit
    dlna,            \* the renderer: "none", "loading", "playing"
    sender,          \* activeSenderId, by number
    accepted,        \* history: who was trusted, and whose timer did it
    sessions, plays, restarts   \* counters of the bounds

nativeVars == <<live, audioFirst, mirror, sender, sessions>>
dlnaVars == <<dlna, plays>>
runtimeVars == <<receiver, dlnaPlaybackActive, attachedSurface, timers, accepted, restarts>>
vars == <<nativeVars, dlnaVars, runtimeVars, raop, posted>>

(***************************************************************************)
(* The state machine                                                       *)
(***************************************************************************)
ActiveStates == {"AUDIO_ACTIVE", "VIDEO_REQUESTED", "WAITING_FOR_SURFACE",
                 "VIDEO_STARTING", "VIDEO_ACTIVE", "VIDEO_STALLED"}
States == ActiveStates \cup {"STOPPED", "STARTING", "IDLE_ADVERTISING", "PAIRING",
                             "STOPPING_SESSION"}
EndStates == {"IDLE_ADVERTISING", "STOPPING_SESSION"}
BeginStates == {"AUDIO_ACTIVE", "VIDEO_REQUESTED", "WAITING_FOR_SURFACE", "VIDEO_STARTING"}

isValidTransition(old, new) ==
    \/ new = "STOPPED"
    \/ new \in CASE old = "STOPPED" -> {"STARTING"}
                 [] old = "STARTING" ->
                      BeginStates \cup {"IDLE_ADVERTISING", "PAIRING"}
                 [] old = "IDLE_ADVERTISING" ->
                      BeginStates \cup {"PAIRING", "STOPPING_SESSION"}
                 [] old = "PAIRING" -> BeginStates \cup EndStates
                 [] old = "AUDIO_ACTIVE" -> EndStates \cup {"VIDEO_REQUESTED"}
                 [] old = "VIDEO_REQUESTED" ->
                      EndStates \cup {"WAITING_FOR_SURFACE", "VIDEO_STARTING"}
                 [] old = "WAITING_FOR_SURFACE" -> EndStates \cup {"VIDEO_STARTING"}
                 [] old = "VIDEO_STARTING" ->
                      EndStates \cup {"VIDEO_ACTIVE", "VIDEO_STALLED", "WAITING_FOR_SURFACE"}
                 [] old = "VIDEO_ACTIVE" ->
                      EndStates \cup {"VIDEO_STALLED", "WAITING_FOR_SURFACE"}
                 [] old = "VIDEO_STALLED" ->
                      EndStates \cup {"VIDEO_STARTING", "VIDEO_ACTIVE", "WAITING_FOR_SURFACE"}
                 [] old = "STOPPING_SESSION" -> {"IDLE_ADVERTISING"}

Recorded(old, new, history) ==
    IF new \in ActiveStates /\ old \notin ActiveStates /\ history = "none"
      THEN IF new = "AUDIO_ACTIVE" THEN "audio" ELSE "video"
    ELSE IF old = "STOPPING_SESSION" /\ new = "IDLE_ADVERTISING" THEN "none"
    ELSE history

(* The receiver record after transitionTo(new); h is the history kept.      *)
Moved(r, new, h) ==
    IF new = r.state \/ ~isValidTransition(r.state, new) THEN r
    ELSE [state |-> new,
          pin |-> r.pin /\ new \notin EndStates \cup {"STOPPED"},
          history |-> h]

(* Mutant: a record is begun only from the ready screen. *)
TransitionFromIdle(r, new) ==
    Moved(r, new, IF r.state = "IDLE_ADVERTISING" \/ new \notin ActiveStates
                    THEN Recorded(r.state, new, r.history) ELSE r.history)
transitionTo(r, new) == Moved(r, new, Recorded(r.state, new, r.history))

Init ==
    /\ receiver = [state |-> "STOPPED", pin |-> FALSE, history |-> "none"]
    /\ dlnaPlaybackActive = FALSE /\ attachedSurface = FALSE
    /\ raop = [surface |-> FALSE, video |-> FALSE, audio |-> FALSE, player |-> FALSE,
               started |-> FALSE, pending |-> FALSE, outlived |-> FALSE,
               earlier |-> FALSE, late |-> FALSE]
    /\ posted = <<>> /\ timers = <<>>
    /\ live = {} /\ audioFirst = FALSE /\ mirror = "none"
    /\ dlna = "none" /\ sender = 0 /\ accepted = [timer |-> 0, sender |-> 0]
    /\ sessions = 0 /\ plays = 0 /\ restarts = 0

Up == receiver.state # "STOPPED"
MayHappen == sessions + plays + restarts < MaxEvents
Room == Len(posted) < MaxPosts
Post(messages) == posted' = posted \o messages
State(s) == [kind |-> "raop", state |-> s]
Dlna(active, playing) == [kind |-> "dlna", active |-> active, playing |-> playing]
Ended == [kind |-> "ended", server |-> restarts]
Timer(new, n) == [kind |-> "timer", next |-> new, for |-> n]
Session == raop.video \/ raop.audio

(***************************************************************************)
(* The native threads                                                      *)
(***************************************************************************)
(* shouldAcceptSender rejects another sender while a session is active.     *)
Connect ==
    /\ Up /\ live = {} /\ ~audioFirst /\ sessions < MaxSessions /\ MayHappen
    /\ sessions' = sessions + 1
    /\ sender' \in IF Session THEN {sender} ELSE {sender + 1}
    /\ live' \in SUBSET Streams \ {{}}
    /\ \E pin \in Pins : raop' = [raop EXCEPT !.pending = @ \/ pin]
    /\ UNCHANGED <<dlnaVars, runtimeVars, posted, audioFirst, mirror>>

(* onRecvAudioData: the first packet, up to the look at firstVideoBytesAtMs *)
FirstAudio ==
    /\ "audio" \in live /\ ~raop.audio /\ ~audioFirst
    /\ raop' = [raop EXCEPT !.audio = TRUE]
    /\ audioFirst' = ~raop.video
    /\ UNCHANGED <<dlnaVars, runtimeVars, posted, live, mirror, sender, sessions>>

EmitAudio ==
    /\ audioFirst /\ Room
    /\ audioFirst' = FALSE /\ Post(<<State("AUDIO_ACTIVE")>>)
    /\ UNCHANGED <<dlnaVars, runtimeVars, raop, live, mirror, sender, sessions>>

Mirrors(next) == mirror' = next /\ UNCHANGED <<live, audioFirst, sender, sessions>>

(* onRecvVideoData: the look at firstVideoBytesAtMs, which it sets           *)
FirstVideo ==
    /\ "video" \in live /\ mirror = "none" /\ ~raop.video
    /\ raop' = [raop EXCEPT !.video = TRUE]
    /\ Mirrors("VIDEO_REQUESTED")
    /\ UNCHANGED <<dlnaVars, runtimeVars, posted>>

(* The mirror thread may have any packet after the first in its hands.      *)
InPacket == "video" \in live /\ mirror = "none" /\ raop.video

(* Each packet makes the player or, without a surface, is buffered: that is *)
(* said when the monitor has been left.                                     *)
RouteVideo ==
    /\ mirror = "packet" \/ (InPacket /\ ~raop.player)
    /\ Room
    /\ IF raop.surface /\ ~raop.player
         THEN /\ raop' = [raop EXCEPT !.player = TRUE, !.late = @ \/ ~raop.video]
              /\ Post(<<State("VIDEO_STARTING")>>)
         ELSE UNCHANGED <<raop, posted>>
    /\ Mirrors(IF raop.surface THEN "none" ELSE "WAITING_FOR_SURFACE")
    /\ UNCHANGED <<dlnaVars, runtimeVars>>

(* By then a player may run, or the session may be over.                    *)
EmitVideo ==
    /\ mirror \in {"VIDEO_REQUESTED", "WAITING_FOR_SURFACE"} /\ Room
    /\ Post(<<State(mirror)>>)
    /\ raop' = [raop EXCEPT !.late = @ \/ raop.player \/ ~raop.video]
    /\ Mirrors(IF mirror = "VIDEO_REQUESTED" THEN "packet" ELSE "none")
    /\ UNCHANGED <<dlnaVars, runtimeVars>>

(* handleVideoFrameRendered, on the thread of the player                    *)
Rendered ==
    /\ raop.player /\ ~raop.started /\ Room
    /\ raop' = [raop EXCEPT !.started = TRUE]
    /\ Post(<<State("VIDEO_ACTIVE")>>)
    /\ UNCHANGED <<nativeVars, dlnaVars, runtimeVars>>

(* A stopped player that did not end within the 500 ms of its join looks at *)
(* hasStartedVideo now, or did so before the stop and only emits.           *)
OutlivedRendered ==
    /\ raop.outlived /\ Room
    /\ \E shown \in {raop.started, TRUE} :
         raop' = [raop EXCEPT !.started = shown, !.late = TRUE]
    /\ Post(<<State("VIDEO_ACTIVE")>>)
    /\ UNCHANGED <<nativeVars, dlnaVars, runtimeVars>>

(* The same for a player of the media server before the last Restart.       *)
EarlierRendered ==
    /\ raop.earlier /\ Room
    /\ raop' = [raop EXCEPT !.earlier = FALSE]
    /\ Post(<<State("VIDEO_ACTIVE")>>)
    /\ UNCHANGED <<nativeVars, dlnaVars, runtimeVars>>

(* The mirror thread ends by itself and says so.                            *)
EndVideo ==
    /\ "video" \in live /\ mirror = "none" /\ Room
    /\ live' = live \ {"video"} /\ Post(<<Ended>>)
    /\ UNCHANGED <<dlnaVars, runtimeVars, raop, audioFirst, mirror, sender, sessions>>

(* TEARDOWN of everything: the mirror thread is joined, then the connection *)
(* says it once more.                                                       *)
TeardownVideo ==
    /\ "video" \in live /\ ~audioFirst /\ mirror = "none" /\ Room
    /\ live' = {} /\ Post(<<Ended, Ended>>)
    /\ UNCHANGED <<dlnaVars, runtimeVars, raop, audioFirst, mirror, sender, sessions>>

(* TEARDOWN of the audio stream, or its thread just ends: a text for the    *)
(* status line, and no callback.                                            *)
EndAudio ==
    /\ "audio" \in live /\ ~audioFirst
    /\ live' = live \ {"audio"}
    /\ UNCHANGED <<dlnaVars, runtimeVars, raop, posted, audioFirst, mirror, sender, sessions>>

(***************************************************************************)
(* The DLNA renderer                                                       *)
(***************************************************************************)
DlnaPlay ==
    /\ Up /\ dlna = "none" /\ plays < MaxPlays /\ MayHappen /\ Room
    /\ dlna' = "loading" /\ plays' = plays + 1 /\ Post(<<Dlna(TRUE, FALSE)>>)
    /\ UNCHANGED <<nativeVars, runtimeVars, raop>>

DlnaStarted ==
    /\ dlna = "loading" /\ Room
    /\ dlna' = "playing" /\ Post(<<Dlna(TRUE, TRUE)>>)
    /\ UNCHANGED <<nativeVars, plays, runtimeVars, raop>>

DlnaEnds ==
    /\ dlna # "none" /\ Room
    /\ dlna' = "none" /\ Post(<<Dlna(FALSE, FALSE)>>)
    /\ UNCHANGED <<nativeVars, plays, runtimeVars, raop>>

(***************************************************************************)
(* The main thread                                                         *)
(***************************************************************************)
(* The media server after attachSurface, and what that posts                *)
Starts == raop.video /\ ~raop.player
RaopAttached == [raop EXCEPT !.surface = TRUE, !.player = @ \/ raop.video]
RaopAttachPosts == IF Starts THEN <<State("VIDEO_STARTING")>> ELSE <<>>
RaopDetached == [raop EXCEPT !.surface = FALSE, !.player = FALSE, !.started = FALSE,
                             !.outlived = @ \/ raop.player]
(* Mutant: a detached media server says nothing.                            *)
DetachSilently == <<>>
RaopDetachPosts == IF raop.video THEN <<State("WAITING_FOR_SURFACE")>> ELSE <<>>

AttachSurface ==
    /\ Up /\ ~attachedSurface /\ Room
    /\ attachedSurface' = TRUE
    /\ IF dlnaPlaybackActive THEN UNCHANGED <<raop, posted>>
       ELSE raop' = RaopAttached /\ Post(RaopAttachPosts)
    /\ UNCHANGED <<nativeVars, dlnaVars, receiver, dlnaPlaybackActive, timers, accepted, restarts>>

DetachSurface ==
    /\ Up /\ attachedSurface /\ Room
    /\ attachedSurface' = FALSE
    /\ raop' = RaopDetached /\ Post(RaopDetachPosts)
    /\ UNCHANGED <<nativeVars, dlnaVars, receiver, dlnaPlaybackActive, timers, accepted, restarts>>

(* The watchdogs: a decoder that shows nothing is made again.               *)
Stall ==
    /\ raop.video /\ Room
    /\ raop' = [raop EXCEPT !.player = raop.surface, !.started = FALSE,
                            !.outlived = @ \/ raop.player]
    /\ Post(<<State("VIDEO_STALLED"),
              State(IF raop.surface THEN "VIDEO_STARTING" ELSE "WAITING_FOR_SURFACE")>>)
    /\ UNCHANGED <<nativeVars, dlnaVars, runtimeVars>>

RaopStopped == [raop EXCEPT !.video = FALSE, !.audio = FALSE, !.player = FALSE,
                            !.started = FALSE, !.pending = FALSE, !.late = FALSE,
                            !.outlived = @ \/ raop.player]
(* Mutant: the two states in the other order.                               *)
StopPostsSwapped == <<State("IDLE_ADVERTISING"), State("STOPPING_SESSION")>>
StopPosts == <<State("STOPPING_SESSION"), State("IDLE_ADVERTISING")>>

(* The session stops, after the posts q.  The mirror thread, in the middle  *)
(* of a packet, looks for the player when all is over; or it makes one when *)
(* the old one was stopped and before the counters are reset.               *)
StopSession(q) ==
    \/ /\ raop' = RaopStopped /\ posted' = q \o StopPosts
       /\ mirror' \in IF InPacket THEN {"none", "packet"} ELSE {mirror}
    \/ /\ mirror = "packet" \/ InPacket
       /\ raop.surface
       /\ raop' = [RaopStopped EXCEPT !.player = TRUE, !.late = TRUE]
       /\ posted' = q \o <<Head(StopPosts), State("VIDEO_STARTING")>> \o Tail(StopPosts)
       /\ mirror' = "none"

(* startupWatchdogFinal gives a session up.                                 *)
GiveUp ==
    /\ raop.video /\ ~raop.started /\ Room
    /\ StopSession(posted)
    /\ UNCHANGED <<dlnaVars, runtimeVars, live, audioFirst, sender, sessions>>

(* An end that an old server posted finds its serverId 0.                   *)
handleStreamStopped ==
    /\ posted # <<>> /\ Head(posted).kind = "ended"
    /\ IF Head(posted).server = restarts THEN StopSession(Tail(posted))
         ELSE posted' = Tail(posted) /\ UNCHANGED <<raop, mirror>>
    /\ UNCHANGED <<dlnaVars, runtimeVars, live, audioFirst, sender, sessions>>

shouldShowPairingPlaceholder(new) ==
    raop.pending /\ receiver.state = "IDLE_ADVERTISING" /\ new \in BeginStates

(* onRaopStateChanged; beginPairingPlaceholder                              *)
HandleState ==
    /\ posted # <<>> /\ Head(posted).kind = "raop"
    /\ LET new == Head(posted).state
       IN  IF dlnaPlaybackActive THEN UNCHANGED <<receiver, timers>>
           ELSE IF shouldShowPairingPlaceholder(new)
             THEN /\ receiver' = [transitionTo(receiver, "PAIRING") EXCEPT !.pin = TRUE]
                  /\ timers' = Append(timers, Timer(new, sender))
             ELSE receiver' = transitionTo(receiver, new) /\ UNCHANGED timers
    /\ posted' = Tail(posted)
    /\ UNCHANGED <<nativeVars, dlnaVars, raop, dlnaPlaybackActive, attachedSurface,
                   accepted, restarts>>

(* A delayed runnable takes its place in the queue when its time has come.  *)
TimerDue ==
    /\ timers # <<>>
    /\ timers' = Tail(timers) /\ Post(<<Head(timers)>>)
    /\ UNCHANGED <<nativeVars, dlnaVars, receiver, dlnaPlaybackActive, attachedSurface,
                   accepted, restarts, raop>>

(* The placeholder has been shown for its time.                             *)
HandleTimer ==
    /\ posted # <<>> /\ Head(posted).kind = "timer"
    /\ posted' = Tail(posted)
    /\ IF receiver.state = "PAIRING"
         THEN /\ receiver' = [transitionTo(receiver, Head(posted).next) EXCEPT !.pin = FALSE]
              /\ raop' = [raop EXCEPT !.pending = FALSE]
              /\ accepted' = IF raop.pending
                               THEN [timer |-> Head(posted).for, sender |-> sender]
                               ELSE accepted
         ELSE UNCHANGED <<receiver, raop, accepted>>
    /\ UNCHANGED <<nativeVars, dlnaVars, timers, dlnaPlaybackActive, attachedSurface, restarts>>

(* onDlnaPlaybackChanged                                                    *)
MoveIf(from, r, new) == IF r.state \in from THEN transitionTo(r, new) ELSE r
DlnaMoved(playing) ==
    LET requested == MoveIf({"IDLE_ADVERTISING", "AUDIO_ACTIVE"}, receiver, "VIDEO_REQUESTED")
        loading == MoveIf({"VIDEO_REQUESTED", "WAITING_FOR_SURFACE"}, requested, "VIDEO_STARTING")
    IN  MoveIf(IF playing THEN {"VIDEO_STARTING"} ELSE {}, loading, "VIDEO_ACTIVE")

HandleDlna ==
    /\ posted # <<>> /\ Head(posted).kind = "dlna"
    /\ dlnaPlaybackActive' = Head(posted).active
    /\ IF Head(posted).active
         THEN /\ receiver' = DlnaMoved(Head(posted).playing)
              /\ raop' = RaopDetached /\ posted' = Tail(posted) \o RaopDetachPosts
         ELSE /\ receiver' = transitionTo(receiver, "IDLE_ADVERTISING")
              /\ raop' = IF attachedSurface THEN RaopAttached ELSE raop
              /\ posted' = Tail(posted) \o IF attachedSurface THEN RaopAttachPosts ELSE <<>>
    /\ UNCHANGED <<nativeVars, dlnaVars, attachedSurface, timers, accepted, restarts>>

Started(r) == transitionTo(transitionTo(r, "STARTING"), "IDLE_ADVERTISING")
Start ==
    /\ ~Up
    /\ receiver' = Started(receiver)
    /\ UNCHANGED <<nativeVars, dlnaVars, dlnaPlaybackActive, attachedSurface, timers,
                   accepted, restarts, raop, posted>>

(* stop(), start() and attachSurfaceIfReady in one go: the native threads   *)
(* are joined, the objects are new, and what was posted is still there.     *)
Restart ==
    /\ Up /\ restarts < MaxRestarts /\ MayHappen /\ ~audioFirst /\ mirror = "none"
    /\ restarts' = restarts + 1
    /\ receiver' = Started(transitionTo([receiver EXCEPT !.history = "none"], "STOPPED"))
    /\ live' = {} /\ dlna' = "none"
    /\ raop' = [RaopStopped EXCEPT !.surface = attachedSurface /\ ~dlnaPlaybackActive,
                                   !.outlived = FALSE, !.earlier = RaopStopped.outlived]
    /\ UNCHANGED <<dlnaPlaybackActive, attachedSurface, timers, accepted, audioFirst, mirror,
                   sender, sessions, plays, posted>>

Native == Connect \/ FirstAudio \/ EmitAudio \/ FirstVideo \/ RouteVideo \/ EmitVideo
          \/ Rendered \/ OutlivedRendered \/ EarlierRendered
          \/ EndVideo \/ TeardownVideo \/ EndAudio
Renderer == DlnaPlay \/ DlnaStarted \/ DlnaEnds
Looper == handleStreamStopped \/ HandleState \/ HandleTimer \/ HandleDlna
Next == \/ Native \/ Renderer \/ Looper \/ TimerDue
        \/ AttachSurface \/ DetachSurface \/ Stall \/ GiveUp \/ Start \/ Restart

(* The looper runs what is posted, and what is delayed when its time comes; *)
(* everything else is up to the senders, the user and the decoder.          *)
Spec == Init /\ [][Next]_vars /\ WF_vars(Looper) /\ WF_vars(TimerDue)
        /\ WF_vars(EmitAudio)

(***************************************************************************)
(* Properties                                                              *)
(***************************************************************************)
Timers == {Timer(s, n) : s \in BeginStates, n \in 1 .. MaxSessions}
Messages ==
    {State(s) : s \in ActiveStates \cup EndStates} \cup {Dlna(a, p) : a, p \in BOOLEAN}
      \cup [kind : {"ended"}, server : 0 .. MaxRestarts] \cup Timers

(* A receiver that is up is in one of its states; the queue of the looper   *)
(* is longer than its bound only by what one call posts at once.            *)
RuntimeTypeOK ==
    /\ receiver \in [state : States, pin : BOOLEAN, history : {"none", "audio", "video"}]
    /\ dlnaPlaybackActive \in BOOLEAN /\ attachedSurface \in BOOLEAN
    /\ raop \in [surface : BOOLEAN, video : BOOLEAN, audio : BOOLEAN, player : BOOLEAN,
                 started : BOOLEAN, pending : BOOLEAN, outlived : BOOLEAN,
                 earlier : BOOLEAN, late : BOOLEAN]
    /\ mirror \in {"none", "packet", "VIDEO_REQUESTED", "WAITING_FOR_SURFACE"}
    /\ posted \in Seq(Messages) /\ timers \in Seq(Timers)
    /\ live \subseteq Streams /\ dlna \in {"none", "loading", "playing"}

(* While the screen shows media there is an open history record, however    *)
(* the session was reached (startHistorySession is called on the edge only).*)
HistoryWhileActive ==
    RuntimeTypeOK /\ (receiver.state \in ActiveStates => receiver.history # "none")

Quiet == posted = <<>> /\ ~audioFirst /\ mirror \in {"none", "packet"}

(* When the looper has nothing left, the one state of the runtime says what *)
(* the media server is doing, whichever of the posts isValidTransition      *)
(* refused and whatever lay between a look of a thread and its post.  It    *)
(* does not, up to the end of the session, once a thread spoke of what was  *)
(* no longer so: the mirror thread of a first packet or a missing surface   *)
(* while a player runs, a stopped player of its frame (raop.late); nor once *)
(* DLNA, a restart or an accepted overlay has taken part.  (After a session *)
(* AUDIO_ACTIVE may remain: the end of audio is not reported.)              *)
AirPlayOnly == plays = 0 /\ restarts = 0 /\ ~raop.pending /\ accepted.timer = 0

Followed ==
    Quiet /\ Up /\ AirPlayOnly /\ ~raop.late =>
      /\ raop.video => receiver.state =
           CASE raop.started -> "VIDEO_ACTIVE"
             [] raop.player /\ ~raop.started -> "VIDEO_STARTING"
             [] ~raop.player /\ raop.surface -> "VIDEO_REQUESTED"
             [] OTHER -> receiver.state
      /\ raop.video /\ ~raop.player =>
           receiver.state \in {"VIDEO_REQUESTED", "WAITING_FOR_SURFACE"}
      /\ raop.audio /\ ~raop.video => receiver.state = "AUDIO_ACTIVE"
      /\ ~Session /\ live = {} => receiver.state \in {"IDLE_ADVERTISING", "AUDIO_ACTIVE"}

(* The threads say of the player and the surface what is so.                *)
SpokenInTime == ~raop.late

(* No state of a session is shown that neither the media server nor DLNA is *)
(* in: ReceiverState says what each of them stands for.                     *)
NoGhost == Quiet /\ receiver.state \in ActiveStates => Session \/ dlnaPlaybackActive

(* While a session plays the receiver does not say that it waits for one.   *)
SessionShown == Quiet /\ ~dlnaPlaybackActive /\ Session => receiver.state # "IDLE_ADVERTISING"

(* AirPlay is put aside for DLNA only while DLNA plays.                     *)
DlnaWhilePlaying == posted = <<>> /\ dlnaPlaybackActive => dlna # "none"

(* The ready screen has no open history record.                             *)
HistoryClosed == posted = <<>> /\ receiver.state = "IDLE_ADVERTISING" => receiver.history = "none"

(* The PIN overlay gives way to media only when its time is over.           *)
OverlayKept == [][receiver.state = "PAIRING" /\ receiver'.state \in ActiveStates
                    => Head(posted).kind = "timer"]_vars

(* A sender is trusted by the overlay that was shown for it.                *)
TrustedAfterOwnOverlay == accepted.timer = accepted.sender

Busy == live # {} \/ dlna # "none"
Ready == receiver.state = "IDLE_ADVERTISING"

(* When the sender has gone, or DLNA has ended, the receiver returns to the  *)
(* ready screen, whatever was posted when and shown over it.  (It may stay  *)
(* in a state of audio, whose end is not reported; what an old server or    *)
(* the timer of an earlier overlay posted may overtake the end.)            *)
Reported ==
    /\ receiver.state # "AUDIO_ACTIVE" /\ ~raop.audio
    /\ restarts = 0 /\ accepted.timer = accepted.sender
ReturnsToReady == (Up /\ ~Busy /\ Reported) ~> (Ready \/ Busy \/ ~Reported)
==============================================================================
