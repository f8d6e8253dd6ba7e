\* Two registration threads over one address that is handed out again: what
\* survives when a thread of an earlier connection adopts the new client.
SPECIFICATION Spec
CONSTANTS
  Addr = {a1}
  Updaters = {t1, t2}
  NoClient = null
  Environment = {"fail", "close", "error"}
  Reuse = TRUE
SYMMETRY UpdaterSymmetry
INVARIANTS
  MainAndCallbacksExclusive
  HandlePublishedBeforeSend
  UpdatedMeansHeard
