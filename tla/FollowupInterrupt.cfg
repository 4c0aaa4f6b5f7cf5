\* Four messages, a queue that holds two, one of which may interrupt the session.
CONSTANTS
  m1 = m1 m2 = m2 m3 = m3 m4 = m4
  Messages = {m1, m2, m3, m4}
  ChannelOf <- MCChannelOf
  Objects = {q1, q2, q3}
  NoObject = NoObject
  Foreign = {}
  NoRun = NoRun
  Cap = 2
  Modes = {"followup", "collect", "interrupt"}
  Policies = {"old", "new"}
SPECIFICATION ContendedSpec
INVARIANTS NoMessageLost
CHECK_DEADLOCK FALSE
