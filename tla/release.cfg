CONSTANTS
  Artifacts = {1, 2}
  MaxBuilds = 2
  MaxAttempts = 2
  Trees <- MCTrees
  FlagSets <- MCFlagSets
  Lower <- MCLower
  RequirementLists <- MCRequirementLists
SPECIFICATION FairSpec
CHECK_DEADLOCK FALSE
INVARIANTS
  TypeOK
  PublishedWasGated
  GreenReleaseIsComplete
  AcceptedIsGenuine
  SbomDescribesDeclared
PROPERTIES
  AttemptEnds
