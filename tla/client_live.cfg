\* Liveness under a fair scheduler, for an agent that does anything but the
\* faults that leave main waiting for ever.
SPECIFICATION FairSpec
CONSTANTS
  Addr = {a1}
  Updaters = {t1}
  NoClient = null
  Environment = {"fail", "close", "error", "offline", "online"}
  Reuse = FALSE
PROPERTIES
  BrokenClientReplaced
  RegistrationAttempted
  DeviceOfflineRetried
