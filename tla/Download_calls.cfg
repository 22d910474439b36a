SPECIFICATION FairSpec
CONSTANTS
    MaxAttempts = 3
    MaxCalls = 2
INVARIANTS TypeOK RegistryIsCurrent NoStrayProcess
PROPERTIES ImplementsDownload ShutdownEndsCall
\* After the shutdown, and after MaxCalls calls, nothing more happens.
CHECK_DEADLOCK FALSE
