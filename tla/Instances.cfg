CONSTANTS
    Instances = {a, b}
    Pids = {p1, p2, p3}
    NoPid = NoPid
    MaxPort = 2
    MaxCommands = 3
    MaxReboots = 1
SPECIFICATION Spec
SYMMETRY Symmetry
INVARIANTS
    TypeOK
    ReadyIsItsOwn
    UpsChooseApart
PROPERTIES
    EndsOnlyItsOwn
CHECK_DEADLOCK FALSE
