SPECIFICATION Spec
INVARIANTS
  TypeOK
  AdHocClaimsNothing
  SignedRanEveryStage
PROPERTIES
  SuccessIsGenuine
  ImplementsContract
