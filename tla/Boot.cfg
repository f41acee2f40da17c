CONSTANTS
    Ups = {u1, u2}
    Late = {u2}
    None = None
    Old = Old
    Rounds = 2
    MaxFlakes = 1
SPECIFICATION Spec
INVARIANTS TypeOK LostIsLost ShipsAPair ReadyIsSecure
PROPERTY EveryBootEnds
CHECK_DEADLOCK FALSE
