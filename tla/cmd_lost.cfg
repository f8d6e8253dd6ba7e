\* An agent that sends the next command when the one before is answered.
SPECIFICATION FairSpec
CONSTANTS
  Commands = {c1, c2}
  NoCommand = null
  MaxItems = 2
  Agents = {"sequential"}
CHECK_DEADLOCK FALSE
PROPERTIES
  CommandAnswered
