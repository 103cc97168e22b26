CONSTANTS
  Platforms = {"windows", "macos", "android"}
  Providers = {"local_file", "os_keychain", "azure_key_vault"}
  MaxTargets = 2
SPECIFICATION FairSpec
CHECK_DEADLOCK FALSE
INVARIANTS
  TypeOK
  ExitZeroIsHonest
  DryRunSignsNothing
  ProdManifestStopsWhole
  ProbeAgreesWithSign
PROPERTIES
  CommandEnds
