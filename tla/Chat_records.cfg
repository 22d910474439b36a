SPECIFICATION FairSpec
CONSTANTS
    MaxStreams = 2
    Start <- TwoStarts
    Date <- TwoDates
    Near = 10
    Tasks = {t1, t2}
    MaxAttempts = 2
    MaxMessages = 2
    MaxFaults = 2
INVARIANTS TypeOK Aligned OneRecorder
PROPERTY EndedIsReconciled
\* After the last stream there may be nothing left to do.
CHECK_DEADLOCK FALSE
