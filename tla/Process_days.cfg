SPECIFICATION Spec
CONSTANTS
    c1 = c1
    c2 = c2
    v1 = v1
    v2 = v2
    v3 = v3
    NoVod = NoVod
    Threshold = 0
    Cooldown = 1
    Channels = {c1}
    Vods <- ThreeVods
    Home <- ThreeVodsHome
    Date <- ThreeVodsDate
    Old = {v1, v2}
    MaxSlots = 1
    MaxAttempts = 1
    MaxUploads = 1
    UploadsOn = TRUE
    DailyLimit = 2
    BackfillLimit = 1
    BatchLimit = 20
    Day = 2
    RetryCooldown = 1
    SweepOn = TRUE
    SweepAge = 1
    Priorities = {1}
    MaxFaults = 0
    MaxEdits = 1
INVARIANTS DailyLimitsKept RecordedFileIsThere
