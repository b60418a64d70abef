CONSTANTS
  Offered <- PlainOffered
  Vfuncs <- PlainVfuncs
  MaxCritical = 1
  MaxNesting = 1
SPECIFICATION FairSpec
INVARIANTS
  SuspendedWithoutLongAction
PROPERTIES
  UserCancelReturns
