\* The gateway as it is: no disconnect of a node clears its subscriptions.
CONSTANTS
  n1 = n1 n2 = n2 d1 = d1 c1 = c1 c2 = c2 c3 = c3 i1 = i1 i2 = i2
  Nodes = {n1, n2, d1}
  Conns = {c1, c2, c3}
  NodeOf <- MCNodeOf
  CallerOf <- MCCallerOf
  DeviceOf <- MCDeviceOf
  NoConn = NoConn
  Sessions = {s}
  Invokes = {i1, i2}
  TargetOf <- MCTargetOf
SPECIFICATION GatewaySpec
INVARIANTS SubscribersConnected
CHECK_DEADLOCK FALSE
