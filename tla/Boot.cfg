SPECIFICATION Spec
CONSTANTS
  JOIN_TIMEOUT = 3
  WIFI_RETRY = 2
  BUY_DEADLINE = 1
INVARIANTS TypeOK WatchdogKept
PROPERTIES BoughtKept BuyOnlyWhatWorks RevertOnlyUnhealthy TrialEnds WifiRetries
