\* t1 rotates models and profiles, t2 models, t3 has a model of its own; one unit of time is 150 s.
SPECIFICATION Spec
CONSTANTS
  t1 = t1
  t2 = t2
  t3 = t3
  r1 = r1
  r2 = r2
  NoTurn = NoTurn
  Turns <- MCTurns
  RunIds <- MCRunIds
  RunOf <- MCRunOf
  Cancellable <- MCCancellable
  Candidates <- MCCandidates
  Profiles <- MCProfiles
  Copilot <- MCCopilot
  StaleAge = 1
  MaxHold = 4
  MaxCrashes = 1
INVARIANTS TypeOK AttemptsExclusive RegistryTruthful
PROPERTY EveryTurnEnds
CHECK_DEADLOCK FALSE
