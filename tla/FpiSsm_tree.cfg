CONSTANTS
  root = root
  sub = sub
  leaf = leaf
  e1 = e1
  e2 = e2
  Machines <- ThreeMachines
  Root = root
  Parent <- ThreeParents
  NrStates <- ThreeNrStates
  StartCleanup <- ThreeStartCleanup
  Jumps <- OrderlyJumps
  Errors = {e1, e2}
  NoError = NoError
SPECIFICATION FairSpec
INVARIANTS
  OneMover
  FirstErrorReported
PROPERTIES
  KeepsPromise
  MachinesComplete
