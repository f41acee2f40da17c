CONSTANTS
    Commands = {c1, c2}
    Machines = {m1, m2, m3}
    None = None
    Kinds = {"up", "restart", "replace"}
    Faults = {"lookup", "destroy", "preempted", "killed", "request", "proxy", "id"}
    MaxFaults = 3
    KeepOnFailure = FALSE
SPECIFICATION Spec
SYMMETRY Symmetry
INVARIANTS TypeOK AccountedUnlessHarmed
PROPERTIES NeverDestroysTheServed
CHECK_DEADLOCK FALSE
