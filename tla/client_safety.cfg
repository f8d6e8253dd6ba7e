\* Every environment event; a leftover registration thread ends before the
\* next client starts its own: safety of the client.
SPECIFICATION Spec
CONSTANTS
  Addr = {a1}
  Updaters = {t1}
  NoClient = null
  Environment = {"fail", "close", "error", "badcode", "offline", "online", "thread", "sigint"}
  Reuse = FALSE
INVARIANTS
  TypeOK
  DeadStatesUnreachable
  CallbacksOnLiveClient
PROPERTIES
  DisconnectedOnlyWhenDown
  SupervisorSpec
