--------------------------- MODULE AdaptiveQuality ---------------------------
(***************************************************************************)
(* The adaptive quality of a session: the controller that turns            *)
(* predictions into votes (pinn/AdaptiveController.kt), the collector that *)
(* samples on a thread of its own (pinn/PinnTelemetryCollector.kt), and    *)
(* what the main thread does with its decisions (ReceiverRuntime.kt) and   *)
(* with the profile the user selects.                                      *)
(*                                                                         *)
(* A prediction is what evaluate tells apart: the vote it stands for and   *)
(* whether the device is cool.  The network that predicts and its training *)
(* are real arithmetic; that they may switch the collector off is kept.    *)
(***************************************************************************)
EXTENDS Integers, Sequences

CONSTANTS
    UserChoices,     \* profiles the user selects
    FullHd,          \* detectOptimalResolution finds a display of 1080 lines
    VoteThreshold,   \* 3, 5 or 8, by aggressiveness
    MaxCollectors,   \* sessions, each with a collector (bound)
    MaxDecisions,    \* runnables that wait when a decision is posted (bound)
    MaxChanges       \* selections by the user (bound)

PROFILE_ORDER == <<"compatibility", "low_latency", "balanced", "best_quality">>
Profiles == {PROFILE_ORDER[i] : i \in DOMAIN PROFILE_ORDER}

ASSUME AdaptiveAssumption ==
    /\ UserChoices \subseteq Profiles \cup {"auto", "audio_stable"} /\ UserChoices # {}
    /\ FullHd \in BOOLEAN /\ VoteThreshold \in Nat \ {0}
    /\ {MaxCollectors, MaxDecisions, MaxChanges} \subseteq Nat

VARIABLES
    choice,          \* qualityProfile in the preferences
    videoHeight,     \* of RaopServer: what /info advertises
    pinnCollector,   \* pinnCollector # null: a collector exists
    observing,       \* the first minute of the session
    autoDisabled,
    ctl,             \* the controller of the latest collector
    decided,         \* by session: what its thread decided and did not post yet
    decisions,       \* runnables of handlePinnDecision in the main looper
    recent,          \* history: votes since the last change of profile
    session, changes \* counters of the bounds

collectorVars == <<pinnCollector, observing, autoDisabled, ctl, recent, session>>
qualityVars == <<choice, videoHeight, collectorVars, decided, decisions, changes>>

normalizeProfile(p) ==
    CASE p \in {"best_quality", "auto"} -> "best_quality"
      [] p \in {"compatibility", "audio_stable"} -> "compatibility"
      [] OTHER -> p
profileIndex(p) == CHOOSE i \in DOMAIN PROFILE_ORDER : PROFILE_ORDER[i] = p

selectedVideoSize(p) ==
    IF p \in {"balanced", "best_quality"} \/ (p = "auto" /\ FullHd) THEN 1080 ELSE 720
videoSizeForAdaptiveProfile(p) == IF p \in {"balanced", "best_quality"} THEN 1080 ELSE 720

NewController(p) ==
    [baseline |-> normalizeProfile(p), active |-> normalizeProfile(p),
     lastVote |-> 0, consecutiveVotes |-> 0, healthyReadings |-> 0, coolReadings |-> 0]

QualityInit ==
    /\ choice \in UserChoices /\ videoHeight = selectedVideoSize(choice)
    /\ pinnCollector = FALSE /\ observing = FALSE /\ autoDisabled = FALSE
    /\ ctl = NewController(choice)
    /\ decided = [n \in 1 .. MaxCollectors |-> "none"] /\ decisions = <<>>
    /\ recent = <<>> /\ session = 0 /\ changes = 0

(***************************************************************************)
(* The controller                                                          *)
(***************************************************************************)
(* Mutant: the votes that led to a decision count for the next one. *)
VotesKept(c) == c
resetVotes(c) == [c EXCEPT !.lastVote = 0, !.consecutiveVotes = 0]

(* Counting stops at the threshold, which is all evaluate asks for. *)
More(n) == IF n < VoteThreshold THEN n + 1 ELSE n
Count(c, vote) ==
    [c EXCEPT !.lastVote = vote,
              !.consecutiveVotes = IF vote # c.lastVote THEN 1 ELSE More(@)]
trackVote(c, vote) == IF vote = 0 THEN resetVotes(c) ELSE Count(c, vote)

downgrade(c) ==
    LET lower == profileIndex(c.active) - 1 IN PROFILE_ORDER[IF lower < 1 THEN 1 ELSE lower]

(* upgrade, and the comparison with the baseline after it *)
upgrade(c) ==
    LET i == profileIndex(c.active)
    IN  PROFILE_ORDER[IF i < profileIndex(c.baseline) THEN i + 1 ELSE i]

Read(c, vote, cool) ==
    [c EXCEPT !.healthyReadings = IF vote = 1 THEN More(@) ELSE 0,
              !.coolReadings = IF cool THEN More(@) ELSE 0]

evaluate(c, vote, cool) ==
    LET read == trackVote(Read(c, vote, cool), vote)
        enough == read.consecutiveVotes >= VoteThreshold
        steady == read.healthyReadings >= VoteThreshold /\ read.coolReadings >= VoteThreshold
    IN  IF vote < 0 /\ enough THEN [resetVotes(read) EXCEPT !.active = downgrade(c)]
        ELSE IF vote > 0 /\ enough /\ steady THEN [resetVotes(read) EXCEPT !.active = upgrade(c)]
        ELSE read

(***************************************************************************)
(* The thread of the collector                                             *)
(***************************************************************************)
(* The latest readings, as many as a decision can rest on. *)
Remember(vote) ==
    LET longer == Append(recent, vote)
    IN  IF Len(longer) > VoteThreshold THEN Tail(longer) ELSE longer

(* sample, up to the call of onDecision *)
sample ==
    /\ pinnCollector /\ ~observing /\ ~autoDisabled
    /\ decided[session] = "none"
    /\ \E vote \in {-1, 0, 1}, cool \in BOOLEAN :
         LET next == evaluate(ctl, vote, cool)
         IN  /\ vote = 1 => cool
             /\ ctl' = next
             /\ recent' = IF next.active = ctl.active THEN Remember(vote) ELSE <<>>
             /\ decided' = IF next.active = ctl.active THEN decided
                           ELSE [decided EXCEPT ![session] = next.active]
    /\ UNCHANGED <<choice, videoHeight, pinnCollector, observing, autoDisabled, session,
                   decisions, changes>>

handlePinnDecision(n) ==
    /\ decided[n] # "none" /\ Len(decisions) < MaxDecisions
    /\ decisions' = Append(decisions, decided[n])
    /\ decided' = [decided EXCEPT ![n] = "none"]
    /\ UNCHANGED <<choice, videoHeight, collectorVars, changes>>

EndObservation ==
    /\ pinnCollector /\ observing
    /\ observing' = FALSE
    /\ UNCHANGED <<choice, videoHeight, pinnCollector, autoDisabled, ctl, recent, session,
                   decided, decisions, changes>>

(* trainBatch finds the loss too high for too long. *)
AutoDisable ==
    /\ pinnCollector /\ ~observing /\ ~autoDisabled
    /\ autoDisabled' = TRUE
    /\ UNCHANGED <<choice, videoHeight, pinnCollector, observing, ctl, recent, session,
                   decided, decisions, changes>>

(***************************************************************************)
(* The main thread                                                         *)
(***************************************************************************)
startPinnCollector ==
    /\ ~pinnCollector /\ session < MaxCollectors
    /\ pinnCollector' = TRUE /\ session' = session + 1
    /\ observing' = TRUE /\ autoDisabled' = FALSE
    /\ ctl' = NewController(choice) /\ recent' = <<>>
    /\ UNCHANGED <<choice, videoHeight, decided, decisions, changes>>

(* The sample that its thread is in goes on. *)
stopPinnCollector ==
    /\ pinnCollector
    /\ pinnCollector' = FALSE /\ observing' = FALSE
    /\ UNCHANGED <<choice, videoHeight, autoDisabled, ctl, recent, session, decided,
                   decisions, changes>>

HandleDecision ==
    /\ decisions # <<>>
    /\ videoHeight' = videoSizeForAdaptiveProfile(Head(decisions))
    /\ decisions' = Tail(decisions)
    /\ UNCHANGED <<choice, collectorVars, decided, changes>>

(* Also when the profile stays the same: the activity was bound again. *)
setVideoMode ==
    /\ changes < MaxChanges
    /\ changes' = changes + 1
    /\ choice' \in UserChoices
    /\ videoHeight' = selectedVideoSize(choice')
    /\ UNCHANGED <<collectorVars, decided, decisions>>

QualityNext ==
    \/ sample \/ EndObservation \/ AutoDisable
    \/ \E n \in 1 .. MaxCollectors : handlePinnDecision(n)
    \/ startPinnCollector \/ stopPinnCollector \/ HandleDecision \/ setVideoMode

QualitySpec == QualityInit /\ [][QualityNext]_qualityVars

-----------------------------------------------------------------------------
Unanimous(votes, vote) ==
    Len(votes) >= VoteThreshold
    /\ \A i \in Len(votes) - VoteThreshold + 1 .. Len(votes) : votes[i] = vote

(* The profile moves by one step, and only when the last readings, as many  *)
(* as the threshold and all of them after the last move, ask for it; then   *)
(* it does move unless it is at the end of its range: no flapping, and no   *)
(* pressure that is overlooked.                                             *)
MovesOnUnanimity ==
    [][ctl' # ctl /\ session' = session =>
         \E vote \in {-1, 0, 1} :
            LET readings == Remember(vote)
                moves == \/ Unanimous(readings, -1) /\ ctl.active # PROFILE_ORDER[1]
                         \/ Unanimous(readings, 1) /\ ctl.active # ctl.baseline
            IN  /\ recent' = IF moves THEN <<>> ELSE readings
                /\ profileIndex(ctl'.active) =
                     profileIndex(ctl.active) + (IF moves THEN vote ELSE 0)]_qualityVars

(* The size is never above what the user selected (README.md: without       *)
(* exceeding the user-selected baseline).                                   *)
WithinChoice == videoHeight <= selectedVideoSize(choice)

(* The model observes for the first minute of a session (README.md): until  *)
(* then the session has the size the user selected.                         *)
ObservedUntouched == observing => videoHeight = selectedVideoSize(choice)
==============================================================================
