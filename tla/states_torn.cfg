\* A command whose state scripts run during a check.
SPECIFICATION Spec
CONSTANTS
  Values = {"open", "closed"}
  Period = 2
  Overlaps = {TRUE}
  Quiet = FALSE
  Signal = FALSE
CHECK_DEADLOCK FALSE
INVARIANTS
  ReportsWhole
