CONSTANTS
  NArtifacts = 2
  NTsa = 1
SPECIFICATION Spec
INVARIANT EverySignatureVerified
