SPECIFICATION Spec
CONSTANTS
    GallerySize = 2
    NrStages = 2
    Percents <- MCPercents
    Provoked = {"suspend_completing"}
INVARIANTS
    SuspendFindsCommand
