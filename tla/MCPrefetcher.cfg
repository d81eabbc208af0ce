SPECIFICATION FairSpec
CONSTANTS
  NumSlots = 4
  NumWindows = 9
INVARIANTS
  LeaseIsStable
  TruncationIsReported
PROPERTIES
  ImplementsWindowStream
  NextReturns
  StopCompletes
