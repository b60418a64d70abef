SPECIFICATION FairSpec
CONSTANTS
    NrStages <- MCNrStages
    ErrorsDuringEnrollScan = FALSE
INVARIANTS
    StateIsConsistent
    NoAssertionFails
    SuccessIsComplete
PROPERTIES
    FirstErrorWins
    OperationsReturn
