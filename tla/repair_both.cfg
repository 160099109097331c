SPECIFICATION Spec
CONSTANTS
  HoldPins = {h1, h2}
  HoldPorts = {}
  Stages = {u}
  Slacks <- MCSlacks
  Starts <- MCStarts
  Eps = 1
  Mode = "both"
  MaxFixes = 0
  HaveDelayCell = TRUE
  PreferSwap = TRUE
  MaxCandidates = 1
  Unusable = {h2}
  NoSnapshot = NoSnapshot
INVARIANT TypeOK
INVARIANT PlanMatchesTimer
INVARIANT HarmBounded
INVARIANT NothingLeftUntried
INVARIANT FreshNames
PROPERTY EveryStepProgresses
PROPERTY Termination
CHECK_DEADLOCK FALSE
