SPECIFICATION DriversFairSpec
CONSTANTS
    NrStages <- MCNrStages
    ErrorsDuringEnrollScan = FALSE
    NbPartials <- MCNbPartials
    UruTries <- MCUruTries
    UruPending <- MCUruPending
    UruKeys <- MCUruKeys
    UruFaults = {}
    ElanMinFrames <- MCElanMinFrames
    ElanMaxFrames <- MCElanMaxFrames
    ElanAttempts <- MCElanAttempts
INVARIANTS
    DriverKeepsOrder
PROPERTIES
    DriversAreOrderly
    TransitionsEnd
