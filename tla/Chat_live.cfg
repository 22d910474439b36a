SPECIFICATION FairSpec
CONSTANTS
    MaxStreams = 2
    Start <- TwoStarts
    Date <- TwoDates
    Near = 10
    Tasks = {t1, t2}
    MaxAttempts = 2
    MaxMessages = 0
    MaxFaults = 0
PROPERTY LiveIsRecorded
\* After the last stream there may be nothing left to do.
CHECK_DEADLOCK FALSE
