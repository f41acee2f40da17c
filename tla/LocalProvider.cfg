CONSTANTS
    Processes = {p1, p2}
    Containers = {a, b}
    None = None
    MaxId = 2
SPECIFICATION Spec
SYMMETRY Symmetry
INVARIANTS TypeOK KeepsEveryEntry IdsAreUnique
PROPERTIES FindsTheRunning
CHECK_DEADLOCK FALSE
