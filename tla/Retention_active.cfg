SPECIFICATION RetentionSpec
CONSTANTS
    c1 = c1
    c2 = c2
    v1 = v1
    v2 = v2
    v3 = v3
    NoVod = NoVod
    Threshold = 0
    Cooldown = 1
    Channels = {c1}
    Vods <- TwoVods
    Home <- TwoVodsHome
    Date <- TwoVodsDate
    Old = {}
    MaxSlots = 1
    MaxAttempts = 1
    MaxUploads = 1
    UploadsOn = TRUE
    DailyLimit = 9
    BackfillLimit = 9
    BatchLimit = 20
    Day = 1
    RetryCooldown = 1
    SweepOn = FALSE
    SweepAge = 0
    Priorities = {}
    MaxFaults = 0
    Young = {}
    KeepCount = 1
    DryRun = FALSE
    Hour = 1
    MaxEdits = 0
PROPERTIES ActiveIsSpared
