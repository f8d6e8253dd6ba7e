\* One server outage that begins before the plugIN has registered.
SPECIFICATION Spec
CONSTANTS
  Addr = {a1}
  Updaters = {t1}
  NoClient = null
  Environment = {"offline", "online"}
  Reuse = FALSE
PROPERTIES
  ServerOfflineOnlyOnEvent
