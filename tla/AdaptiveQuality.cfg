SPECIFICATION QualitySpec
CONSTANTS
    UserChoices = {"auto", "best_quality", "balanced", "low_latency", "compatibility", "audio_stable"}
    FullHd = TRUE
    VoteThreshold = 3
    MaxCollectors = 2
    MaxDecisions = 1
    MaxChanges = 1
PROPERTY MovesOnUnanimity
CHECK_DEADLOCK FALSE
