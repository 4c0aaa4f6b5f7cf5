\* Three requests of two sessions, two of them for the one slot of lane main:
\* a drain, aborts, a timed request, lane clears, turns that end in
\* CancelledError.
CONSTANTS
  r1 = r1 r2 = r2 r3 = r3 s1 = s1 s2 = s2 main = main global = global
  Requests = {r1, r2, r3}
  Sessions = {s1, s2}
  SessionOf <- TwoSessions
  CommandLanes = {main, global}
  GlobalLane = global
  TargetOf <- TwoTargets
  LimitOf <- OneSlot
  Timed = {r3}
  Outcomes = {"result", "cancelled"}
  NoTask = NoTask
SPECIFICATION FairSpec
INVARIANTS TypeOK SessionSerial NoTurnAfterVerdict
PROPERTIES EveryRequestAnswered
CHECK_DEADLOCK FALSE
