CONSTANTS
  NArtifacts = 1
SPECIFICATION Spec
INVARIANTS
  TypeOK
  SuccessIsGenuine
  SignedStaysVerifiable
PROPERTIES
  CosignFloorHolds
  ImplementsContract
