SPECIFICATION FairSpec
CONSTANTS
    c1 = c1
    c2 = c2
    v1 = v1
    v2 = v2
    v3 = v3
    NoVod = NoVod
    Threshold = 1
    Cooldown = 1
    Channels = {c1, c2}
    Vods <- ThreeVods
    Home <- ThreeHomes
    Date <- ThreeVodsDate
    Old = {v1}
    MaxSlots = 1
    MaxAttempts = 1
    MaxUploads = 1
    UploadsOn = TRUE
    DailyLimit = 1
    BackfillLimit = 9
    BatchLimit = 20
    Day = 1
    RetryCooldown = 1
    SweepOn = FALSE
    SweepAge = 0
    Priorities = {}
    MaxFaults = 0
    MaxEdits = 0
PROPERTIES EveryVodSettles
