\* One target, windows of 250 ms: a retry takes four of them.
CONSTANTS
  a = a b = b
  Targets = {a}
  NoTarget = NoTarget
  Coalesce = 1
  Retry = 4
SPECIFICATION Spec
PROPERTIES RetryDelayKept
CHECK_DEADLOCK FALSE
