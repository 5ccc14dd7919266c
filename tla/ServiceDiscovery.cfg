SPECIFICATION Spec
CONSTANTS
    Labels = {"AirPlay", "RAOP"}
    MaxRegisters = 3
    MaxConfigs = 2
INVARIANTS
    AdvertisedIsCurrent
    AnnouncedOrRetried
    StatusIsCurrent
CHECK_DEADLOCK FALSE
