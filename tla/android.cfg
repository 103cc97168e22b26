SPECIFICATION Spec
INVARIANTS
  TypeOK
  VerdictIsTruthful
  ApksignerIsVerified
PROPERTIES
  SuccessIsGenuine
  ImplementsContract
