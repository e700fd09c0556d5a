SPECIFICATION Spec
CONSTANTS
  CommandLines <- MCCommandLines
  TargetIs <- MCTargetIs
  LevelIs <- MCLevelIs
  BareLevel <- MCBareLevel
  Encoded = 3
  Prep <- MCPrep
  Operations = 5
  Loop = {2, 3}
  ThreadCounts = {1}
  MaxCalls = 3
  None = None
INVARIANTS
  TypeOK
  TraceIsComplete
  ReplaysOwnSetting
