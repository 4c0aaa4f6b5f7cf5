\* One lane, four entries, every drop policy, every way a task may end,
\* limits that are raised and lowered between 1 and 2.
CONSTANTS
  Lanes = {main}
  Tasks = {t1, t2, t3, t4}
  NoTask = NoTask
  Limits = {1, 2}
  Outcomes = {"result", "error", "cancelled"}
  DropPolicies = {"none", "old", "new", "summarize"}
  MaxGeneration = 0
SPECIFICATION FairSpec
INVARIANTS TypeOK EntryOnce CounterExact NoStrandedEntry NoLostCaller
PROPERTIES StartsWithinLimit ImplementsFifoExecutor EveryCallerAnswered
CHECK_DEADLOCK FALSE
