CONSTANTS
  Builds = {v1, v2}
  OldBuild = v0
  NoBuild = none
  MayForget = TRUE
  Budgets <- Mixed
SPECIFICATION Spec
INVARIANT SavesKept
