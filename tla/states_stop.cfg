\* tmate's state changes, then the user stops the plugIN.
SPECIFICATION FairSpec
CONSTANTS
  Values = {"open", "closed"}
  Period = 2
  Overlaps = {FALSE}
  Quiet = FALSE
  Signal = TRUE
CHECK_DEADLOCK FALSE
PROPERTIES
  ReportedBeforeStop
