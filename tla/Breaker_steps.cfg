SPECIFICATION FairSpec
CONSTANTS
    Threshold = 3
    Cooldown = 3
    MaxFaults = 3
INVARIANTS TypeOK CooldownHonoured ClosedMeansFewFailures
PROPERTIES ImplementsBreaker OpenIsLeft
