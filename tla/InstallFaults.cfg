CONSTANTS
  Builds = {v1, v2}
  OldBuild = v0
  NoBuild = none
  MayForget = TRUE
  Budgets <- EitherWay
SPECIFICATION FairSpec
INVARIANTS Inv SavesKept CompletedIsNew
PROPERTIES BackupOutlived CommitResolves
