SPECIFICATION Spec
CONSTANTS
    p1 = p1
    p2 = p2
    Prints <- TwoPrints
    NoPrint = NoPrint
INVARIANTS
    ResultsKeepContract
    EmulationAgrees
