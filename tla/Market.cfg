CONSTANTS
    None = None
    Offers <- TheOffers
    Profiles = {"exact", "value"}
    Searchable = {"value"}
    Listed <- TheListed
    Group <- TheGroup
    Offer <- TheOffer
    Gpu <- TheGpu
    Config <- TheConfig
    Requests <- TheRequests
    Openings <- TheOpenings
    Highest = 4
    Moving = {"fast", "weak"}
    MaxCommands = 2
    MaxMoves = 2
    MaxFaults = 1
SPECIFICATION Spec
INVARIANTS TypeOK RecommendsAnUpgrade RentsTheUndominated
PROPERTY IsToldInTheEnd
CHECK_DEADLOCK FALSE
