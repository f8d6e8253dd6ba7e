\* The agent cannot be reached and the user presses ctrl-c.
SPECIFICATION FairSpec
CONSTANTS
  Addr = {a1}
  Updaters = {t1}
  NoClient = null
  Environment = {"fail", "sigint"}
  Reuse = FALSE
PROPERTIES
  SignalEndsProcess
