SPECIFICATION Spec
INVARIANT SignedIsVerified
