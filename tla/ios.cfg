CONSTANTS
  NArtifacts = 3
  Inside <- AppWithFramework
SPECIFICATION FairSpec
INVARIANTS
  TypeOK
  EverySignatureVerified
  SignedStandsOutsideNests
PROPERTIES
  ImplementsContract
  CallReturns
