CONSTANTS
  NArtifacts = 2
  NTsa = 2
SPECIFICATION FairSpec
INVARIANTS
  TypeOK
  FallbackInOrder
  FailedMarksTheStop
  SignedCoversListing
PROPERTIES
  SuccessIsGenuine
  ImplementsContract
  CallReturns
