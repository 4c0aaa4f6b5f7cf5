\* Nobody is cancelled and the process does not end.
SPECIFICATION Spec
CONSTANTS
  t1 = t1
  t2 = t2
  t3 = t3
  r1 = r1
  r2 = r2
  NoTurn = NoTurn
  Turns <- MCTurns
  RunIds <- MCRunIds
  RunOf <- MCRunOf
  Cancellable = {}
  Candidates <- MCCandidates
  Profiles <- MCProfiles
  Copilot = {}
  StaleAge = 1
  MaxHold = 4
  MaxCrashes = 0
INVARIANT LockReleasedAtExit
CHECK_DEADLOCK FALSE
