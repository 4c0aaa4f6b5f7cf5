\* Two targets, windows of 250 ms: a retry takes four of them.
CONSTANTS
  a = a b = b
  Targets = {a, b}
  NoTarget = NoTarget
  Coalesce = 1
  Retry = 4
SPECIFICATION FairSpec
INVARIANTS TypeOK NoUrgencyLost
PROPERTIES EveryWakeHandled
CHECK_DEADLOCK FALSE
