CONSTANTS
    Commands = {c1, c2, c3}
    Machines = {m1, m2}
    None = None
    Kinds = {"down", "pause", "restart"}
    Faults = {"destroy", "preempted", "killed", "proxy"}
    MaxFaults = 3
    KeepOnFailure = TRUE
SPECIFICATION Spec
SYMMETRY Symmetry
INVARIANTS Accounted
CHECK_DEADLOCK FALSE
