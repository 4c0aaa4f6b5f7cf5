----------------------------- MODULE NodeRegistry -----------------------------
(***************************************************************************)
(* gateway/node_registry.py with the parts of the gateway around it: the   *)
(* life of a node's WebSocket connection (gateway/server.py), the session  *)
(* subscriptions of nodes (gateway/node_subscriptions.py), and the calls   *)
(* of node.invoke and node.invoke.result (gateway/handlers.py).            *)
(*                                                                         *)
(* A client has two ids: the one handle_connect would register it under,   *)
(* and the one its requests are attributed to.  An invocation goes out     *)
(* over the connection registered when it starts and is answered by a      *)
(* message of the node, a timer, or the node's unregistration.             *)
(*                                                                         *)
(* GatewayNext is the gateway as it is: a connect with role "node" fails   *)
(* before it reaches register_node, the only call of it.  Next adds that   *)
(* call, for whoever uses the registry as its docstring says.              *)
(***************************************************************************)
EXTENDS Integers, FiniteSets

CONSTANTS
  Nodes,     \* ids of nodes; some clients give another id as their caller id
  Conns,     \* WebSocket connections that authenticate with role "node"
  NodeOf,    \* NodeOf[c]: instanceId or id of the client of c
  CallerOf,  \* CallerOf[c]: its device id, or else its client id
  DeviceOf,  \* DeviceOf[c]: its device id, or else its node id
  NoConn,    \* no NodeEntry for the node
  Sessions,  \* session keys nodes subscribe to
  Invokes,   \* calls of invoke
  TargetOf   \* TargetOf[i]: the node id of call i

ASSUME NodeRegistryAssumption ==
  /\ NodeOf \in [Conns -> Nodes]
  /\ CallerOf \in [Conns -> Nodes]
  /\ DOMAIN DeviceOf = Conns
  /\ NoConn \notin Conns
  /\ TargetOf \in [Invokes -> Nodes]

VARIABLES
  conn,         \* conn[c]: "new", "open", "lost" (peer gone, handler alive), "closed"
  registered,   \* the connections whose node_id is set
  entry,        \* _nodes: the connection of the NodeEntry, or NoConn
  connToNode,   \* _conn_to_node: the connections it has a key for
  deviceNodes,  \* _device_to_nodes: node ids of each device
  subscribed,   \* pairs of caller id and session in the subscription manager
  call,         \* call[i]: "idle", "sending", "waiting", or "returned" early
  via,          \* via[i]: the connection whose send_event call i uses
  request,      \* request[i]: "none", "sent", "received" by the node
  answer,       \* answer[i]: the connection over which the node answered, or NoConn
  pending,      \* _pending_invokes: the calls it holds
  armed,        \* calls whose timer runs
  reply         \* reply[i]: what the future or the early return of call i holds

connVars == <<conn, registered, entry, connToNode, deviceNodes, subscribed>>
callVars == <<call, via, request, answer, pending, armed, reply>>
vars == <<connVars, callVars>>

Devices == {DeviceOf[c] : c \in Conns}
Errors == {"NOT_CONNECTED", "UNAVAILABLE", "TIMEOUT", "DISCONNECTED"}

(* The handler coroutine of the connection has not been left. *)
Served(c) == conn[c] \in {"open", "lost"}

Init ==
  /\ conn = [c \in Conns |-> "new"]
  /\ registered = {}
  /\ entry = [n \in Nodes |-> NoConn]
  /\ connToNode = {}
  /\ deviceNodes = [d \in Devices |-> {}]
  /\ subscribed = {}
  /\ call = [i \in Invokes |-> "idle"]
  /\ via = [i \in Invokes |-> NoConn]
  /\ request = [i \in Invokes |-> "none"]
  /\ answer = [i \in Invokes |-> NoConn]
  /\ pending = {}
  /\ armed = {}
  /\ reply = [i \in Invokes |-> "none"]

(* set_result on the futures of the calls S that are not done. *)
Resolve(S, r) ==
  reply' = [i \in Invokes |-> IF i \in S /\ reply[i] = "none" THEN r ELSE reply[i]]

-----------------------------------------------------------------------------
(* handle_connect with role "node": the client is authenticated, then      *)
(* connect_req.caps raises (ConnectRequest has no such field), the client  *)
(* is answered HANDSHAKE_FAILED and its connection stays open.             *)
Connect(c) ==
  /\ conn[c] = "new"
  /\ conn' = [conn EXCEPT ![c] = "open"]
  /\ UNCHANGED <<registered, entry, connToNode, deviceNodes, subscribed, callVars>>

(* register_node, which replaces any entry of the node id, and node_id of  *)
(* the connection.                                                         *)
Register(c) ==
  /\ conn[c] = "open" /\ c \notin registered
  /\ registered' = registered \cup {c}
  /\ entry' = [entry EXCEPT ![NodeOf[c]] = c]
  /\ connToNode' = connToNode \cup {c}
  /\ deviceNodes' = [deviceNodes EXCEPT ![DeviceOf[c]] = @ \cup {NodeOf[c]}]
  /\ UNCHANGED <<conn, subscribed, callVars>>

(* The peer is gone and the gateway does not know it yet. *)
PeerLost(c) ==
  /\ conn[c] = "open"
  /\ conn' = [conn EXCEPT ![c] = "lost"]
  /\ UNCHANGED <<registered, entry, connToNode, deviceNodes, subscribed, callVars>>

(* Fault: the callers of the cancelled calls are not told. *)
CancelTimersOnly(n) ==
  LET cancelled == {i \in pending : TargetOf[i] = n} IN
  /\ pending' = pending \ cancelled
  /\ armed' = armed \ cancelled
  /\ UNCHANGED reply

(* The second half of unregister_node: DISCONNECTED for the calls of the   *)
(* node, and unsubscribe_all.                                              *)
CancelInvokes(n) ==
  LET cancelled == {i \in pending : TargetOf[i] = n} IN
  /\ pending' = pending \ cancelled
  /\ armed' = armed \ cancelled
  /\ Resolve(cancelled, "DISCONNECTED")

WithoutSubscriptions(n) == {p \in subscribed : p[1] # n}

(* unregister_node looks the node up by its id, not by the connection that *)
(* ended.                                                                  *)
Unregister(n) ==
  IF entry[n] = NoConn
  THEN UNCHANGED <<entry, connToNode, deviceNodes, subscribed, pending, armed, reply>>
  ELSE /\ entry' = [entry EXCEPT ![n] = NoConn]
       /\ connToNode' = connToNode \ {entry[n]}
       /\ deviceNodes' = [deviceNodes EXCEPT ![DeviceOf[entry[n]]] = @ \ {n}]
       /\ CancelInvokes(n)
       /\ subscribed' = WithoutSubscriptions(n)

(* The finally clause of handle_websocket. *)
Close(c) ==
  /\ Served(c)
  /\ conn' = [conn EXCEPT ![c] = "closed"]
  /\ IF c \in registered
     THEN Unregister(NodeOf[c])
     ELSE UNCHANGED <<entry, connToNode, deviceNodes, subscribed, pending, armed, reply>>
  /\ UNCHANGED <<registered, call, via, request, answer>>

(* chat.subscribe and chat.unsubscribe events, which the handler loop may  *)
(* still read after the peer is gone.  They are attributed to the caller   *)
(* id; unregister_node clears the node id.                                 *)
Subscribe(c, s) ==
  /\ Served(c)
  /\ subscribed' = subscribed \cup {<<CallerOf[c], s>>}
  /\ UNCHANGED <<conn, registered, entry, connToNode, deviceNodes, callVars>>

Unsubscribe(c, s) ==
  /\ Served(c)
  /\ subscribed' = subscribed \ {<<CallerOf[c], s>>}
  /\ UNCHANGED <<conn, registered, entry, connToNode, deviceNodes, callVars>>

-----------------------------------------------------------------------------
(* Fault: any connected node will do. *)
AnyNode(i) == IF connToNode = {} THEN NoConn ELSE CHOOSE c \in connToNode : TRUE

TargetEntry(i) == entry[TargetOf[i]]

(* invoke up to the await of send: the frame is written. *)
Invoke(i) ==
  LET c == TargetEntry(i) IN
  /\ call[i] = "idle"
  /\ IF c = NoConn
     THEN /\ call' = [call EXCEPT ![i] = "returned"]
          /\ reply' = [reply EXCEPT ![i] = "NOT_CONNECTED"]
          /\ UNCHANGED <<via, request>>
     ELSE /\ call' = [call EXCEPT ![i] = "sending"]
          /\ via' = [via EXCEPT ![i] = c]
          /\ request' = [request EXCEPT ![i] = "sent"]
          /\ UNCHANGED reply
  /\ UNCHANGED <<connVars, answer, pending, armed>>

(* The send returns, at once or when the socket drained (a connection that *)
(* is closed cleanly also releases the wait): only now is the call pending *)
(* and its timer armed.                                                    *)
SendReturns(i) ==
  /\ call[i] = "sending"
  /\ call' = [call EXCEPT ![i] = "waiting"]
  /\ pending' = pending \cup {i}
  /\ armed' = armed \cup {i}
  /\ UNCHANGED <<connVars, via, request, answer, reply>>

SendFails(i) ==
  /\ call[i] = "sending" /\ conn[via[i]] # "open"
  /\ call' = [call EXCEPT ![i] = "returned"]
  /\ reply' = [reply EXCEPT ![i] = "UNAVAILABLE"]
  /\ UNCHANGED <<connVars, via, request, answer, pending, armed>>

(* _on_timeout. *)
Timeout(i) ==
  /\ i \in armed
  /\ armed' = armed \ {i}
  /\ pending' = pending \ {i}
  /\ Resolve({i}, "TIMEOUT")
  /\ UNCHANGED <<connVars, call, via, request, answer>>

(* The frame reaches the node. *)
NodeReceives(i) ==
  /\ request[i] = "sent" /\ conn[via[i]] = "open"
  /\ request' = [request EXCEPT ![i] = "received"]
  /\ UNCHANGED <<connVars, call, via, answer, pending, armed, reply>>

(* Fault: the timer of the call is not cancelled. *)
AnswerKeepsTimer(i, n) ==
  IF i \in pending /\ TargetOf[i] = n
  THEN /\ pending' = pending \ {i}
       /\ UNCHANGED armed
       /\ Resolve({i}, "ok")
  ELSE UNCHANGED <<pending, armed, reply>>

(* Fault: whoever knows the id of a call answers it. *)
AnyoneAnswers(i, n) ==
  IF i \in pending
  THEN /\ pending' = pending \ {i}
       /\ armed' = armed \ {i}
       /\ Resolve({i}, "ok")
  ELSE UNCHANGED <<pending, armed, reply>>

(* resolve_invoke_result: only a call that is in the dictionary, and only  *)
(* for the id it was addressed to.                                         *)
ResolveInvokeResult(i, n) ==
  IF i \in pending /\ TargetOf[i] = n
  THEN /\ pending' = pending \ {i}
       /\ armed' = armed \ {i}
       /\ Resolve({i}, "ok")
  ELSE UNCHANGED <<pending, armed, reply>>

(* node.invoke.result, over any connection of the client that received the *)
(* call, possibly read after the peer is gone; the sender is the caller id *)
(* of the connection.                                                      *)
NodeAnswers(i, c) ==
  /\ request[i] = "received" /\ answer[i] = NoConn
  /\ NodeOf[c] = TargetOf[i] /\ Served(c)
  /\ answer' = [answer EXCEPT ![i] = c]
  /\ ResolveInvokeResult(i, CallerOf[c])
  /\ UNCHANGED <<connVars, call, via, request>>

-----------------------------------------------------------------------------
ConnStep(c) ==
  \/ PeerLost(c)
  \/ Close(c)
  \/ \E s \in Sessions : Subscribe(c, s) \/ Unsubscribe(c, s)

InvokeStep(i) ==
  \/ Invoke(i) \/ SendReturns(i) \/ SendFails(i) \/ Timeout(i)
  \/ NodeReceives(i)
  \/ \E c \in Conns : NodeAnswers(i, c)

GatewayNext ==
  \/ \E c \in Conns : Connect(c) \/ ConnStep(c)
  \/ \E i \in Invokes : InvokeStep(i)

Next == GatewayNext \/ \E c \in Conns : Register(c)

(* A send returns or fails, and the loop runs the timers. *)
Fairness ==
  \A i \in Invokes :
    WF_vars(SendReturns(i) \/ SendFails(i)) /\ WF_vars(Timeout(i))

Spec == Init /\ [][Next]_vars
FairSpec == Spec /\ Fairness
GatewaySpec == Init /\ [][GatewayNext]_vars

-----------------------------------------------------------------------------
TypeOK ==
  /\ conn \in [Conns -> {"new", "open", "lost", "closed"}]
  /\ registered \subseteq Conns
  /\ entry \in [Nodes -> Conns \cup {NoConn}]
  /\ connToNode \subseteq Conns
  /\ deviceNodes \in [Devices -> SUBSET Nodes]
  /\ subscribed \subseteq Nodes \X Sessions
  /\ call \in [Invokes -> {"idle", "sending", "waiting", "returned"}]
  /\ via \in [Invokes -> Conns \cup {NoConn}]
  /\ request \in [Invokes -> {"none", "sent", "received"}]
  /\ answer \in [Invokes -> Conns \cup {NoConn}]
  /\ pending \subseteq Invokes
  /\ armed \subseteq Invokes
  /\ reply \in [Invokes -> {"none", "ok"} \cup Errors]
  /\ \A i \in Invokes :
       /\ via[i] # NoConn => NodeOf[via[i]] = TargetOf[i]
       /\ call[i] = "returned" => reply[i] # "none"

(* An entry belongs to a connection that is still served and is found by   *)
(* its node, its connection and its device, also when a node registers     *)
(* again beside its old connection and that one closes.  A call in the     *)
(* dictionary is exactly one whose caller waits on an unresolved future,   *)
(* and its timer runs, whichever of the answer, the timer and the          *)
(* disconnect came first.                                                  *)
TablesAgree ==
  /\ \A n \in Nodes, c \in Conns : entry[n] = c =>
       /\ Served(c) /\ c \in registered /\ NodeOf[c] = n
       /\ c \in connToNode /\ n \in deviceNodes[DeviceOf[c]]
  /\ pending = {i \in Invokes : call[i] = "waiting" /\ reply[i] = "none"}
  /\ armed = pending

(* A caller is told "ok" only of an answer that came under the id it had   *)
(* called, and DISCONNECTED only when a connection registered under that   *)
(* id has ended.                                                           *)
TrueReplies ==
  \A i \in Invokes :
    /\ reply[i] = "ok" => answer[i] # NoConn /\ CallerOf[answer[i]] = TargetOf[i]
    /\ reply[i] = "DISCONNECTED" =>
         \E c \in registered : NodeOf[c] = TargetOf[i] /\ conn[c] = "closed"

(* Every call returns: also one that was sent to a node that left before   *)
(* the call became pending, or whose answer was refused.                   *)
EveryInvokeReturns ==
  \A i \in Invokes : (call[i] # "idle") ~> (reply[i] # "none")

(* node_subscriptions.py:100: unsubscribe_all is "called on disconnect",   *)
(* line 37: "Node disconnects -- clean up all its subscriptions".  No      *)
(* session has a subscriber without a connection.                          *)
SubscribersConnected ==
  \A p \in subscribed : \E c \in Conns : Served(c) /\ CallerOf[c] = p[1]
=============================================================================
