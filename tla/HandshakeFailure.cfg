\* With the descriptor lost both sides wait for ever: the system does stop.
CHECK_DEADLOCK FALSE
CONSTANTS
    RunModes = {"enforce"}
    Faults = {"nofd", "wrap"}
    MaxEvents = 1
SPECIFICATION FairSpec
PROPERTY
    FailedHandshakeReaps
