CONSTANTS
  Platforms = {"windows", "macos"}
  Providers = {"local_file"}
  MaxTargets = 2
SPECIFICATION Spec
CHECK_DEADLOCK FALSE
INVARIANT SignedIsReported
