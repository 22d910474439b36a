SPECIFICATION Spec
CONSTANTS
    c1 = c1
    c2 = c2
    v1 = v1
    v2 = v2
    v3 = v3
    NoVod = NoVod
    Threshold = 1
    Cooldown = 1
    Channels = {c1, c2}
    Vods <- TwoVods
    Home <- TwoHomes
    Date <- TwoVodsDate
    Old = {}
    MaxSlots = 1
    MaxAttempts = 1
    MaxUploads = 2
    UploadsOn = TRUE
    DailyLimit = 9
    BackfillLimit = 9
    BatchLimit = 20
    Day = 1
    RetryCooldown = 1
    SweepOn = TRUE
    SweepAge = 1
    Priorities = {}
    MaxFaults = 1
    MaxEdits = 1
INVARIANTS TypeOK NoDuplicateUpload SlotsBalanced
