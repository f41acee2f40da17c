CONSTANTS
    Safeguards = {"idle-timeout", "max-runtime"}
    IdleTimeout = 3
    MaxRuntime = 4
    Interval = 2
    MinObservations = 2
    DeadAfter = 3
    MaxFaults = 3
SPECIFICATION FairSpec
INVARIANTS WatchdogTypeOK NoRequestIsCut
PROPERTIES NeverIdlesForEver NeverWatchesTheDead
CHECK_DEADLOCK FALSE
