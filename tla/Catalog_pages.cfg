SPECIFICATION FairSpec
CONSTANTS
    Callers = {job, request}
    Job = job
    MaxRetries = 2
    MaxBlips = 1
    MaxFaults = 1
    Archive = 4
    PageSize = 2
    JobMax = 3
    Modes <- ThreeModes
INVARIANTS TypeOK RefreshedIsTried NothingSkipped BlipsAreAbsorbed
PROPERTY AllIsKnown
