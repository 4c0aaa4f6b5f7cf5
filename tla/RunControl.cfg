SPECIFICATION Spec
CONSTANTS
  c1 = c1
  c2 = c2
  g1 = g1
  g2 = g2
  k1 = k1
  k2 = k2
  k3 = k3
  a1 = a1
  NoRun = NoRun
  NoKey = NoKey
  Requests <- MCRequests
  Chat <- MCChat
  Resets <- MCResets
  Keys <- MCKeys
  KeyOf <- MCKeyOf
  Aborts <- MCAborts
INVARIANTS TypeOK RunTableExact TruthfulWait
PROPERTIES AbortedIsLast EveryChatConcluded
CHECK_DEADLOCK FALSE
