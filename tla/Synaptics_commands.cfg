SPECIFICATION FairSpec
CONSTANTS
    GallerySize = 2
    NrStages = 2
    Percents <- MCPercents
    Provoked = {}
INVARIANTS
    CommandsKeepOrder
    AnswersAreOwn
PROPERTIES
    CallsReturn
