CONSTANTS
  Platforms = {"windows", "macos"}
  Providers = {"azure_key_vault"}
  MaxTargets = 2
SPECIFICATION Spec
CHECK_DEADLOCK FALSE
INVARIANT CounterCountsOutcomes
