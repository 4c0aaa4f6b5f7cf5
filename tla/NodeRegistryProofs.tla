-------------------------- MODULE NodeRegistryProofs --------------------------
(***************************************************************************)
(* Proofs about NodeRegistry for any number of nodes, connections,         *)
(* sessions and calls, and any ids the clients give.                       *)
(***************************************************************************)
EXTENDS NodeRegistry, TLAPS

-----------------------------------------------------------------------------
(* The inductive invariant.  EntriesFound and CallTables are the two       *)
(* halves of TablesAgree; Unanswered says that a call has no reply before  *)
(* it was sent.                                                            *)
EntriesFound ==
  \A n \in Nodes, c \in Conns : entry[n] = c =>
    /\ Served(c) /\ c \in registered /\ NodeOf[c] = n
    /\ c \in connToNode /\ n \in deviceNodes[DeviceOf[c]]

CallTables ==
  /\ \A i \in Invokes : i \in pending <=> call[i] = "waiting" /\ reply[i] = "none"
  /\ armed = pending

Unanswered ==
  \A i \in Invokes : call[i] \in {"idle", "sending"} => reply[i] = "none"

Registry == TypeOK /\ EntriesFound /\ CallTables /\ Unanswered /\ TrueReplies

LEMMA ConstantTypes ==
  /\ NoConn \notin Conns
  /\ \A c \in Conns : NodeOf[c] \in Nodes /\ CallerOf[c] \in Nodes /\ DeviceOf[c] \in Devices
  /\ \A i \in Invokes : TargetOf[i] \in Nodes
BY NodeRegistryAssumption DEF Devices

LEMMA TablesAgreeParts == TypeOK => (TablesAgree <=> EntriesFound /\ CallTables)
<1> SUFFICES ASSUME TypeOK PROVE TablesAgree <=> EntriesFound /\ CallTables
  OBVIOUS
<1>1. pending = {i \in Invokes : call[i] = "waiting" /\ reply[i] = "none"} <=>
        \A i \in Invokes : i \in pending <=> call[i] = "waiting" /\ reply[i] = "none"
  BY DEF TypeOK
<1> QED BY <1>1 DEF TablesAgree, EntriesFound, CallTables

(* What a step has to leave alone for the calls to stay as they are: no    *)
(* closed connection comes back.                                           *)
LEMMA CallsUntouched ==
  ASSUME Registry, UNCHANGED callVars, registered \subseteq registered',
         \A c \in Conns : conn[c] = "closed" => conn'[c] = "closed"
  PROVE  CallTables' /\ Unanswered' /\ TrueReplies'
<1>1. UNCHANGED <<call, via, request, answer, pending, armed, reply>>
  BY DEF callVars
<1>2. registered \subseteq Conns
  BY DEF Registry, TypeOK
<1> QED BY <1>1, <1>2 DEF Registry, CallTables, Unanswered, TrueReplies

-----------------------------------------------------------------------------
(* A connect leaves every table alone.                                     *)
LEMMA ConnectStep ==
  ASSUME Registry, NEW c \in Conns, Connect(c)
  PROVE  Registry'
<1> USE ConstantTypes DEF Registry
<1>1. /\ conn[c] = "new" /\ conn' = [conn EXCEPT ![c] = "open"]
      /\ UNCHANGED <<registered, entry, connToNode, deviceNodes, subscribed>>
      /\ UNCHANGED callVars
  BY DEF Connect
<1>2. TypeOK'
  BY <1>1 DEF TypeOK, callVars
<1>3. \A d \in Conns : /\ Served(d) => Served(d)'
                       /\ conn[d] = "closed" => conn'[d] = "closed"
  BY <1>1 DEF TypeOK, Served
<1>4. EntriesFound'
  BY <1>1, <1>3 DEF EntriesFound
<1> QED BY <1>1, <1>2, <1>3, <1>4, CallsUntouched

(* A registration replaces the entry of its node and no other.             *)
LEMMA RegisterStep ==
  ASSUME Registry, NEW c \in Conns, Register(c)
  PROVE  Registry'
<1> USE ConstantTypes DEF Registry
<1>1. /\ conn[c] = "open"
      /\ registered' = registered \cup {c}
      /\ entry' = [entry EXCEPT ![NodeOf[c]] = c]
      /\ connToNode' = connToNode \cup {c}
      /\ deviceNodes' = [deviceNodes EXCEPT ![DeviceOf[c]] = @ \cup {NodeOf[c]}]
      /\ UNCHANGED <<conn, subscribed>>
      /\ UNCHANGED callVars
  BY DEF Register
<1>2. TypeOK'
  BY <1>1 DEF TypeOK, callVars
<1>3. ASSUME NEW n \in Nodes, NEW d \in Conns, entry'[n] = d
      PROVE  /\ Served(d)' /\ d \in registered' /\ NodeOf[d] = n
             /\ d \in connToNode' /\ n \in deviceNodes'[DeviceOf[d]]
  <2>1. CASE n = NodeOf[c]
    BY <1>1, <1>3, <2>1 DEF TypeOK, Served
  <2>2. CASE n # NodeOf[c]
    <3>1. entry[n] = d
      BY <1>1, <1>3, <2>2 DEF TypeOK
    <3>2. deviceNodes[DeviceOf[d]] \subseteq deviceNodes'[DeviceOf[d]]
      BY <1>1 DEF TypeOK
    <3> QED BY <1>1, <3>1, <3>2 DEF EntriesFound, Served
  <2> QED BY <2>1, <2>2
<1>4. EntriesFound'
  BY <1>3 DEF EntriesFound
<1> QED BY <1>1, <1>2, <1>4, CallsUntouched

(* The end of a connection takes the entry of its node along, also when    *)
(* the entry is that of a later connection; the calls of the node are      *)
(* told so, and the connection that ended is the witness.                  *)
LEMMA CloseStep ==
  ASSUME Registry, NEW c \in Conns, Close(c)
  PROVE  Registry'
<1> USE ConstantTypes DEF Registry
<1>1. /\ Served(c) /\ conn' = [conn EXCEPT ![c] = "closed"]
      /\ UNCHANGED <<registered, call, via, request, answer>>
  BY DEF Close
<1>2. \A d \in Conns : /\ Served(d) /\ d # c => Served(d)'
                       /\ conn[d] = "closed" => conn'[d] = "closed"
  BY <1>1 DEF TypeOK, Served
<1>3. CASE c \notin registered \/ entry[NodeOf[c]] = NoConn
  <2>1. UNCHANGED <<entry, connToNode, deviceNodes, subscribed, pending, armed, reply>>
    BY <1>3 DEF Close, Unregister
  <2>2. TypeOK'
    BY <1>1, <2>1 DEF TypeOK
  <2>3. EntriesFound'
    <3>1. \A n \in Nodes : entry[n] # c
      BY <1>3 DEF EntriesFound
    <3> QED BY <1>1, <1>2, <2>1, <3>1 DEF EntriesFound
  <2>4. UNCHANGED callVars
    BY <1>1, <2>1 DEF callVars
  <2> QED BY <1>1, <1>2, <2>2, <2>3, <2>4, CallsUntouched
<1>4. CASE c \in registered /\ entry[NodeOf[c]] # NoConn
  <2> DEFINE n == NodeOf[c]
             old == entry[n]
             cancelled == {i \in pending : TargetOf[i] = n}
  <2>1. /\ entry' = [entry EXCEPT ![n] = NoConn]
        /\ connToNode' = connToNode \ {old}
        /\ deviceNodes' = [deviceNodes EXCEPT ![DeviceOf[old]] = @ \ {n}]
        /\ pending' = pending \ cancelled
        /\ armed' = armed \ cancelled
        /\ reply' = [i \in Invokes |-> IF i \in cancelled /\ reply[i] = "none"
                                       THEN "DISCONNECTED" ELSE reply[i]]
        /\ subscribed' = {p \in subscribed : p[1] # n}
    BY <1>4 DEF Close, Unregister, CancelInvokes, WithoutSubscriptions, Resolve
  <2>2. old \in Conns
    BY <1>4 DEF TypeOK
  <2>3. TypeOK'
    BY <1>1, <2>1, <2>2 DEF TypeOK, Errors
  <2>4. EntriesFound'
    <3> SUFFICES ASSUME NEW m \in Nodes, NEW d \in Conns, entry'[m] = d
                 PROVE  /\ Served(d)' /\ d \in registered' /\ NodeOf[d] = m
                        /\ d \in connToNode' /\ m \in deviceNodes'[DeviceOf[d]]
      BY DEF EntriesFound
    <3>1. m # n /\ entry[m] = d
      BY <2>1 DEF TypeOK
    <3>2. NodeOf[d] = m /\ d # c /\ d # old
      BY <2>2, <3>1 DEF EntriesFound
    <3>3. m \in deviceNodes'[DeviceOf[d]]
      BY <2>1, <2>2, <3>1 DEF EntriesFound, TypeOK
    <3> QED BY <1>1, <1>2, <2>1, <3>1, <3>2, <3>3 DEF EntriesFound
  <2>5. CallTables'
    BY <1>1, <2>1 DEF TypeOK, CallTables
  <2>6. Unanswered'
    BY <1>1, <2>1 DEF TypeOK, Unanswered, CallTables
  <2>7. TrueReplies'
    <3> SUFFICES ASSUME NEW i \in Invokes
                 PROVE  /\ reply'[i] = "ok" =>
                             answer'[i] # NoConn /\ CallerOf[answer'[i]] = TargetOf[i]
                        /\ reply'[i] = "DISCONNECTED" =>
                             \E d \in registered' : NodeOf[d] = TargetOf[i] /\ conn'[d] = "closed"
      BY DEF TrueReplies
    <3>1. CASE i \in cancelled
      <4>1. c \in registered' /\ NodeOf[c] = TargetOf[i] /\ conn'[c] = "closed"
        BY <1>1, <1>4, <3>1 DEF TypeOK
      <4>2. reply'[i] # "ok"
        BY <2>1, <3>1 DEF CallTables
      <4> QED BY <4>1, <4>2
    <3>2. CASE i \notin cancelled
      <4>1. reply'[i] = reply[i] /\ answer'[i] = answer[i]
        BY <1>1, <2>1, <3>2
      <4>2. \A d \in registered : d \in registered' /\ (conn[d] = "closed" => conn'[d] = "closed")
        BY <1>1, <1>2 DEF TypeOK
      <4> QED BY <4>1, <4>2 DEF TrueReplies
    <3> QED BY <3>1, <3>2
  <2> QED BY <2>3, <2>4, <2>5, <2>6, <2>7
<1> QED BY <1>3, <1>4

-----------------------------------------------------------------------------
(* The other steps of a connection leave the tables of connections alone.  *)
LEMMA ConnStepKeeps ==
  ASSUME Registry, NEW c \in Conns, ConnStep(c)
  PROVE  Registry'
<1> USE ConstantTypes DEF Registry
<1>1. CASE PeerLost(c)
  <2>1. /\ conn[c] = "open" /\ conn' = [conn EXCEPT ![c] = "lost"]
        /\ UNCHANGED <<registered, entry, connToNode, deviceNodes, subscribed>>
        /\ UNCHANGED callVars
    BY <1>1 DEF PeerLost
  <2>2. \A d \in Conns : /\ Served(d)' <=> Served(d)
                         /\ conn[d] = "closed" => conn'[d] = "closed"
    BY <2>1 DEF TypeOK, Served
  <2>3. TypeOK'
    BY <2>1 DEF TypeOK, callVars
  <2>4. EntriesFound'
    BY <2>1, <2>2 DEF EntriesFound
  <2> QED BY <2>1, <2>2, <2>3, <2>4, CallsUntouched
<1>2. CASE Close(c)
  BY <1>2, CloseStep
<1>3. ASSUME NEW s \in Sessions, Subscribe(c, s) \/ Unsubscribe(c, s) PROVE Registry'
  <2>1. /\ subscribed' \subseteq subscribed \cup {<<CallerOf[c], s>>}
        /\ UNCHANGED <<conn, registered, entry, connToNode, deviceNodes>>
        /\ UNCHANGED callVars
    BY <1>3 DEF Subscribe, Unsubscribe
  <2>2. TypeOK'
    BY <2>1 DEF TypeOK, callVars
  <2>3. EntriesFound'
    BY <2>1 DEF EntriesFound, Served
  <2> QED BY <2>1, <2>2, <2>3, CallsUntouched
<1> QED BY <1>1, <1>2, <1>3 DEF ConnStep

(* The steps of a call: whichever of the answer, the timer and the failure *)
(* of the send comes first takes the call off the tables.                  *)
LEMMA InvokeStepKeeps ==
  ASSUME Registry, NEW i \in Invokes, InvokeStep(i)
  PROVE  Registry'
<1> USE ConstantTypes DEF Registry
<1>1. UNCHANGED connVars => (EntriesFound' <=> EntriesFound)
  BY DEF connVars, EntriesFound, Served
<1>2. CASE Invoke(i)
  <2>1. CASE TargetEntry(i) = NoConn
    <3>1. /\ call[i] = "idle"
          /\ call' = [call EXCEPT ![i] = "returned"]
          /\ reply' = [reply EXCEPT ![i] = "NOT_CONNECTED"]
          /\ UNCHANGED <<via, request, answer, pending, armed>>
          /\ UNCHANGED connVars
      BY <1>2, <2>1 DEF Invoke
    <3> QED BY <1>1, <3>1 DEF TypeOK, connVars, CallTables, Unanswered, TrueReplies, Errors
  <2>2. CASE TargetEntry(i) # NoConn
    <3>1. /\ call[i] = "idle"
          /\ call' = [call EXCEPT ![i] = "sending"]
          /\ via' = [via EXCEPT ![i] = TargetEntry(i)]
          /\ request' = [request EXCEPT ![i] = "sent"]
          /\ UNCHANGED <<answer, reply, pending, armed>>
          /\ UNCHANGED connVars
      BY <1>2, <2>2 DEF Invoke
    <3>2. TargetEntry(i) \in Conns /\ NodeOf[TargetEntry(i)] = TargetOf[i]
      BY <2>2 DEF TargetEntry, TypeOK, EntriesFound
    <3>3. TypeOK'
      BY <3>1, <3>2 DEF TypeOK, connVars
    <3>4. Unanswered' /\ TrueReplies' /\ CallTables'
      BY <3>1 DEF TypeOK, connVars, CallTables, Unanswered, TrueReplies
    <3> QED BY <1>1, <3>1, <3>3, <3>4
  <2> QED BY <2>1, <2>2
<1>3. CASE SendReturns(i)
  <2>1. TypeOK'
    BY <1>3 DEF SendReturns, TypeOK, connVars
  <2> QED BY <1>1, <1>3, <2>1 DEF SendReturns, TypeOK, connVars, CallTables, Unanswered, TrueReplies
<1>4. CASE SendFails(i)
  <2>1. TypeOK'
    BY <1>4 DEF SendFails, TypeOK, connVars, Errors
  <2> QED BY <1>1, <1>4, <2>1 DEF SendFails, TypeOK, connVars, CallTables, Unanswered, TrueReplies
<1>5. CASE Timeout(i)
  <2>1. /\ armed' = armed \ {i} /\ pending' = pending \ {i}
        /\ reply' = [j \in Invokes |-> IF j = i /\ reply[j] = "none" THEN "TIMEOUT" ELSE reply[j]]
        /\ UNCHANGED <<call, via, request, answer>>
        /\ UNCHANGED connVars
    BY <1>5 DEF Timeout, Resolve
  <2>2. TypeOK'
    BY <2>1 DEF TypeOK, connVars, Errors
  <2>3. CallTables'
    BY <2>1 DEF TypeOK, CallTables
  <2>4. /\ call[i] = "waiting" /\ reply'[i] \in {reply[i], "TIMEOUT"}
        /\ \A j \in Invokes : j # i => reply'[j] = reply[j]
    BY <1>5, <2>1 DEF Timeout, CallTables
  <2>5. Unanswered' /\ TrueReplies'
    BY <2>1, <2>4 DEF connVars, Unanswered, TrueReplies
  <2> QED BY <1>1, <2>1, <2>2, <2>3, <2>5
<1>6. CASE NodeReceives(i)
  <2>1. TypeOK'
    BY <1>6 DEF NodeReceives, TypeOK, connVars
  <2> QED BY <1>1, <1>6, <2>1 DEF NodeReceives, TypeOK, connVars, CallTables, Unanswered, TrueReplies
<1>7. ASSUME NEW c \in Conns, NodeAnswers(i, c) PROVE Registry'
  <2> DEFINE accepted == i \in pending /\ TargetOf[i] = CallerOf[c]
  <2>1. /\ answer[i] = NoConn /\ answer' = [answer EXCEPT ![i] = c]
        /\ pending' = IF accepted THEN pending \ {i} ELSE pending
        /\ armed' = IF accepted THEN armed \ {i} ELSE armed
        /\ UNCHANGED <<call, via, request>>
        /\ UNCHANGED connVars
    BY <1>7 DEF NodeAnswers, ResolveInvokeResult
  <2>2. reply' = [j \in Invokes |-> IF j = i /\ accepted /\ reply[j] = "none"
                                    THEN "ok" ELSE reply[j]]
    BY <1>7 DEF NodeAnswers, ResolveInvokeResult, Resolve, TypeOK
  <2>3. TypeOK'
    BY <2>1, <2>2 DEF TypeOK, connVars
  <2>4. CallTables' /\ Unanswered'
    BY <2>1, <2>2 DEF TypeOK, connVars, CallTables, Unanswered
  <2>5. TrueReplies'
    <3>1. reply'[i] = "ok" => accepted
      BY <2>1, <2>2 DEF TypeOK, TrueReplies
    <3> QED BY <2>1, <2>2, <3>1 DEF TypeOK, connVars, TrueReplies
  <2> QED BY <1>1, <2>1, <2>3, <2>4, <2>5
<1> QED BY <1>2, <1>3, <1>4, <1>5, <1>6, <1>7 DEF InvokeStep

LEMMA RegistryInit == Init => Registry
BY ConstantTypes DEF Init, Registry, TypeOK, EntriesFound, CallTables, Unanswered, TrueReplies

LEMMA RegistryStep == Registry /\ [Next]_vars => Registry'
<1> SUFFICES ASSUME Registry, [Next]_vars PROVE Registry'
  OBVIOUS
<1>1. ASSUME NEW c \in Conns, Connect(c) PROVE Registry'
  BY <1>1, ConnectStep
<1>2. ASSUME NEW c \in Conns, Register(c) PROVE Registry'
  BY <1>2, RegisterStep
<1>3. ASSUME NEW c \in Conns, ConnStep(c) PROVE Registry'
  BY <1>3, ConnStepKeeps
<1>4. ASSUME NEW i \in Invokes, InvokeStep(i) PROVE Registry'
  BY <1>4, InvokeStepKeeps
<1>5. CASE UNCHANGED vars
  BY <1>5 DEF vars, connVars, callVars, Registry, TypeOK, EntriesFound, CallTables, Unanswered,
              TrueReplies, Served
<1> QED BY <1>1, <1>2, <1>3, <1>4, <1>5 DEF Next, GatewayNext

-----------------------------------------------------------------------------
(* The tables keep their types, a call goes out over a connection of the   *)
(* node it names, and an early return has an answer.                       *)
THEOREM TypeCorrect == Spec => []TypeOK
<1>1. Registry => TypeOK
  BY DEF Registry
<1> QED BY <1>1, RegistryInit, RegistryStep, PTL DEF Spec

(* Every entry of the registry belongs to a connection that is served and  *)
(* is found by all its keys, and the dictionary of calls holds those whose *)
(* caller waits, however registrations, closes, answers and timers follow  *)
(* each other.                                                             *)
THEOREM TablesAgreeCorrect == Spec => []TablesAgree
<1>1. Registry => TablesAgree
  BY TablesAgreeParts DEF Registry
<1> QED BY <1>1, RegistryInit, RegistryStep, PTL DEF Spec

(* "ok" is told only of an answer under the id that was called,            *)
(* DISCONNECTED only when a connection registered under it has ended.      *)
THEOREM TrueRepliesCorrect == Spec => []TrueReplies
<1>1. Registry => TrueReplies
  BY DEF Registry
<1> QED BY <1>1, RegistryInit, RegistryStep, PTL DEF Spec
===============================================================================
