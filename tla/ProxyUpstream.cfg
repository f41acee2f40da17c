CONSTANTS
    Machines = {a, b}
    First = a
    Workers = {w1, w2}
    None = None
    MaxFaults = 2
SPECIFICATION FairSpec
INVARIANTS ProxyTypeOK ServesWhatItReports
PROPERTIES KeepsItsPromise FollowsStateFile NeverServesTheDead
CHECK_DEADLOCK FALSE
