\* Faulty bus, slow chip; the watchdog fires within a flow.
CONSTANTS
  POLLING_MAX = 4
  WATCHDOG = 3
  EXEC_MAX = 2
  RESET_KEYS = 3
  Faulty = TRUE
SPECIFICATION FairSpec
INVARIANTS TypeOK OwnAnswer
PROPERTIES OwnNonce MethodReturns
