SPECIFICATION FairSpec
CONSTANTS
    Refreshers = {p1, p2}
    Clients = {c1}
    Callbacks = {l1}
    Answers = {1, 2, 3, 4, 5, 6, 7}
    Lifetime = 5
    Window = 3
    MinWait = 1
    MaxWait = 2
    FirstWait = 3
    Keyed = TRUE
    CleanEvery = 2
    MaxStates = 2
    MaxLogins = 1
    MaxFaults = 1
INVARIANTS TypeOK OneToken StaysRefreshable RefusedOnlyWhenFull
PROPERTIES Recovers NeverExpires
