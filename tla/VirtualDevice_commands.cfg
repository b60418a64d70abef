SPECIFICATION FairSpec
CONSTANTS
    a = a
    b = b
    NoId = NoId
    Ids <- MCIds
    Commands <- MCCommands
    NrStages <- MCNrStages
    MaxCommands <- MCMaxCommands
    Provoked = {}
INVARIANTS
    VirtualAssertionsHold
    OperationsAreSeparate
PROPERTIES
    OperationsEnd
CHECK_DEADLOCK FALSE
