CONSTANTS
  Offered <- FullOffered
  Vfuncs <- FullVfuncs
  MaxCritical = 2
  MaxNesting = 2
SPECIFICATION FairSpec
INVARIANTS
  TypeOK
  DriverWorksForTask
  CancelBelongsToAction
  RequestsAreOwned
  NoAssertionFails
PROPERTIES
  KeepsDevicePromise
  NoVfuncInCriticalSection
  RequestsReturn
