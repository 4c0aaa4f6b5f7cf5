\* Four messages, a queue that holds two, no interrupts, no foreign runs.
CONSTANTS
  m1 = m1 m2 = m2 m3 = m3 m4 = m4
  Messages = {m1, m2, m3, m4}
  ChannelOf <- MCChannelOf
  Objects = {q1, q2, q3}
  NoObject = NoObject
  Foreign = {}
  NoRun = NoRun
  Cap = 2
  Modes = {"followup", "collect", "steer"}
  Policies = {"old", "new"}
SPECIFICATION FairSpec
INVARIANTS TypeOK PromptedAtMostOnce NoMessageLost ArrivalOrder
PROPERTIES EveryMessagePrompted
CHECK_DEADLOCK FALSE
