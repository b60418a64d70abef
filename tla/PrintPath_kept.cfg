SPECIFICATION Spec
CONSTANTS
    None = None
    FrameWidth = 2
    FrameHeight = 4
    ImageWidth = 4
    MaxPixel = 12
    MaxDx = 1
    UIntSize = 65536
    MaxHeight = 5
    Resolution = 2
    FilterSize = 3
    Fixed = 4
    MaxRows = 2
    Scene <- MCScene
    SceneWidth = 3
    SceneHeight = 8
    Plain <- MCPlain
    SwipeLength = 3
    NrLines <- MCNrLines
    MaxOffset = 3
    Minutiae <- MCMinutiae
    Devices <- MCDevices
    Metadata <- MCMetadata
    NrStages = 2
INVARIANTS
    ImagesAreAssembled
    StoredPrintIsKept
    EnrolledIsRecognised
CHECK_DEADLOCK FALSE
