SPECIFICATION FairSpec
CONSTANTS
    d1 = d1
    d2 = d2
    d3 = d3
    Devices <- AllDevices
    Supported <- TwoSupported
    MaxNesting = 0
INVARIANTS
    DevicesAreAccounted
PROPERTIES
    ClosedBeforeWithdrawal
    SilentWhenFinalized
    HotplugSettles
