SPECIFICATION Spec
CONSTANTS
  Records = {r1}
  Syncs = {s1, s2, s3}
  Breaks = 1
SYMMETRY Symmetry
VIEW View
INVARIANTS TablesAgree FullSyncReconciles ServedSurvives ImportsAreShown
CHECK_DEADLOCK FALSE
