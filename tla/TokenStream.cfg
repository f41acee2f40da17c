CONSTANTS
    Stops <- TwoStops
    Tools = TRUE
    Length = 7
    MaxChunk = 3
SPECIFICATION Spec
INVARIANTS TypeOK SendsNothingOfAStop StreamsTheAnswer
CHECK_DEADLOCK FALSE
