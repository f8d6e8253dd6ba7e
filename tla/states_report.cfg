\* Commands and checks that keep out of each other's way, with a signal at any time; and
\* commands and checks that overlap, with nothing else going on.
SPECIFICATION FairSpec
CONSTANTS
  Values = {"open", "closed"}
  Period = 2
  Overlaps = {FALSE, TRUE}
  Quiet = TRUE
  Signal = TRUE
CHECK_DEADLOCK FALSE
INVARIANTS
  TypeOK
  OutputThere
  WholeIfApart
PROPERTIES
  ChangeReported
