-------------------------- MODULE QueueManagerProofs --------------------------
(***************************************************************************)
(* Proofs about QueueManager for any number of requests, sessions, lanes   *)
(* and slots of the command lanes.  What is known of one lane comes from   *)
(* LaneProofs: the lanes of the manager are lanes in normal operation.     *)
(***************************************************************************)
EXTENDS QueueManager, TLAPS

LP == INSTANCE LaneProofs WITH Tasks <- Entries, DropPolicies <- {"none"},
                               Outcomes <- Outcomes \cup {"result", "error"},
                               Limits <- {LimitOf[l] : l \in Lanes}, MaxGeneration <- 0

LEMMA Assumptions ==
  /\ LP!LaneAssumption
  /\ \A r \in Requests : /\ SessionOf[r] \in Sessions /\ TargetOf[r] \in CommandLanes
                         /\ Outer(r) \in Entries /\ Inner(r) \in Entries
  /\ \A r, q \in Requests : /\ Outer(r) # Inner(q)
                            /\ Outer(r) = Outer(q) => r = q
                            /\ Inner(r) = Inner(q) => r = q
  /\ Sessions \subseteq Lanes /\ CommandLanes \subseteq Lanes
  /\ Sessions \cap CommandLanes = {}
<1>1. LP!LaneAssumption
  BY QueueManagerAssumption DEF LP!LaneAssumption
<1> QED BY <1>1, QueueManagerAssumption DEF Entries, Outer, Inner, Lanes

-----------------------------------------------------------------------------
(* Every step of the manager is a step of its lanes in normal operation.   *)

LEMMA SameLane ==
  /\ L!TypeOK <=> LP!TypeOK
  /\ L!EntryOnce <=> LP!EntryOnce
  /\ L!Init <=> LP!Init
  /\ UNCHANGED laneVars <=> UNCHANGED LP!vars
<1>1. L!TypeOK <=> LP!TypeOK
  BY DEF L!TypeOK, LP!TypeOK, L!WorkerStates, LP!WorkerStates, L!FutureStates, LP!FutureStates
<1>2. L!EntryOnce <=> LP!EntryOnce
  BY DEF L!EntryOnce, LP!EntryOnce, L!Waiting, LP!Waiting, L!Queued, LP!Queued
<1>4. L!Init <=> LP!Init
  BY DEF L!Init, LP!Init
<1>5. UNCHANGED laneVars <=> UNCHANGED LP!vars
  BY DEF laneVars, LP!vars, LP!slotVars, LP!workerVars, LP!entryVars
<1> QED BY <1>1, <1>2, <1>4, <1>5

LEMMA SameNext == L!Next => LP!Next
<1> SUFFICES ASSUME L!Next PROVE LP!Next
  OBVIOUS
<1> USE DEF L!slotVars, LP!slotVars, L!workerVars, LP!workerVars, L!entryVars, LP!entryVars
<1>1. ASSUME NEW l \in Lanes, L!WorkerStep(l) PROVE LP!WorkerStep(l)
  BY <1>1 DEF L!WorkerStep, LP!WorkerStep, L!WorkerBegin, LP!WorkerBegin, L!LoopOrExit,
              LP!LoopOrExit, L!Take, LP!Take, L!StartHeld, LP!StartHeld, L!SlotFree, LP!SlotFree,
              L!GetTimeout, LP!GetTimeout, L!Idle, LP!Idle
<1>2. ASSUME NEW l \in Lanes, L!CallerStep(l) PROVE LP!CallerStep(l)
  BY <1>2 DEF L!CallerStep, LP!CallerStep, L!Enqueue, LP!Enqueue, L!Put, LP!Put, L!StartWorker,
              LP!StartWorker, L!Clear, LP!Clear, L!Queued, LP!Queued, L!SetConcurrency,
              LP!SetConcurrency
<1>3. ASSUME NEW l \in Lanes, L!CompleteStep(l) PROVE LP!CompleteStep(l)
  BY <1>3 DEF L!CompleteStep, LP!CompleteStep, L!Complete, LP!Complete, L!Answer, LP!Answer,
              L!Release, LP!Release
<1>4. ASSUME NEW t \in Entries, L!Abandon(t) PROVE LP!Abandon(t)
  BY <1>4 DEF L!Abandon, LP!Abandon
<1> QED BY <1>1, <1>2, <1>3, <1>4 DEF L!Next, LP!Next

(* What a step of the manager may be for its lanes. *)
Enqueues(l, t) == L!Enqueue(l, t, "none")
Completes(l, t) == \E o \in Outcomes \cup {"result", "error"} : L!Complete(l, t, o)

LEMMA StepIsLaneStep ==
  ASSUME Next
  PROVE  \/ /\ UNCHANGED managerVars
            /\ \/ \E r \in Requests : Enqueues(SessionOf[r], Outer(r))
               \/ \E r \in Requests :
                    /\ Outer(r) \in executing[SessionOf[r]] /\ future[Inner(r)] = "none"
                    /\ ~ RefusedByDrain(r)
                    /\ Enqueues(TargetOf[r], Inner(r))
               \/ \E r \in Requests :
                    /\ future[Inner(r)] # "pending"
                    /\ Completes(SessionOf[r], Outer(r))
               \/ \E r \in Requests : Completes(TargetOf[r], Inner(r))
               \/ \E r \in Requests : L!Abandon(Outer(r))
               \/ \E r \in Timed : L!Abandon(Inner(r))
               \/ \E l \in Lanes : L!WorkerStep(l) \/ L!Clear(l)
         \/ /\ UNCHANGED laneVars /\ draining' = TRUE
            /\ \/ UNCHANGED drained
               \/ NoActiveTasks /\ drained' = TRUE
<1> USE DEF Enqueues, Completes
<1>1. ASSUME NEW r \in Requests, Submit(r)
      PROVE  UNCHANGED managerVars /\ Enqueues(SessionOf[r], Outer(r))
  BY <1>1 DEF Submit
<1>2. ASSUME NEW r \in Requests, EnterTarget(r)
      PROVE  /\ UNCHANGED managerVars
             /\ future[Inner(r)] = "none" /\ Outer(r) \in executing[SessionOf[r]]
             /\ \/ Completes(SessionOf[r], Outer(r))
                \/ ~ RefusedByDrain(r) /\ Enqueues(TargetOf[r], Inner(r))
  BY <1>2 DEF EnterTarget, TargetLane
<1>3. ASSUME NEW r \in Requests, ReturnFromTarget(r)
      PROVE  /\ UNCHANGED managerVars
             /\ future[Inner(r)] # "pending" /\ Completes(SessionOf[r], Outer(r))
  BY <1>3 DEF ReturnFromTarget, TurnAnswered
<1>4. ASSUME NEW r \in Requests, FinishTurn(r)
      PROVE  UNCHANGED managerVars /\ Completes(TargetOf[r], Inner(r))
  BY <1>4 DEF FinishTurn, TargetLane
<1>5. ASSUME NEW r \in Requests, Abort(r) PROVE UNCHANGED managerVars /\ L!Abandon(Outer(r))
  BY <1>5 DEF Abort
<1>6. ASSUME NEW r \in Requests, InnerTimeout(r)
      PROVE  UNCHANGED managerVars /\ r \in Timed /\ L!Abandon(Inner(r))
  BY <1>6 DEF InnerTimeout
<1>7. ASSUME NEW l \in Lanes, WorkerStep(l) \/ ClearCommandLane(l)
      PROVE  UNCHANGED managerVars /\ (L!WorkerStep(l) \/ L!Clear(l))
  BY <1>7 DEF WorkerStep, ClearCommandLane
<1>8. CASE BeginDrain \/ ReportDrained
  BY <1>8 DEF BeginDrain, ReportDrained
<1>9. CASE \E r \in Requests : Submit(r)
  BY <1>1, <1>9
<1>10. CASE \E r \in Requests : BodyStep(r)
  <2>1. PICK r \in Requests : EnterTarget(r) \/ ReturnFromTarget(r) \/ FinishTurn(r)
    BY <1>10 DEF BodyStep
  <2>2. CASE EnterTarget(r)
    <3>1. future[Inner(r)] # "pending"
      BY <1>2, <2>2
    <3> QED BY <1>2, <2>2, <3>1
  <2> QED BY <1>3, <1>4, <2>1, <2>2
<1>11. CASE \E r \in Requests : Abort(r) \/ InnerTimeout(r)
  BY <1>5, <1>6, <1>11
<1>12. CASE \E l \in Lanes : WorkerStep(l) \/ ClearCommandLane(l)
  BY <1>7, <1>12
<1> QED BY <1>8, <1>9, <1>10, <1>11, <1>12 DEF Next

(* The invariants of the lanes, in the words of LaneProofs. *)
LanesOK == LP!TypeOK /\ LP!EntryOnce /\ LP!CounterExact

LEMMA LaneStep ==
  ASSUME L!TypeOK, LP!EntryOnce, LP!CounterExact, UNCHANGED laneVars \/ L!Next
  PROVE  L!TypeOK' /\ LanesOK'
<1>1. LP!TypeOK
  BY SameLane
<1>2. [LP!Next]_LP!vars /\ [LP!LifecycleNext]_LP!vars
  BY SameLane, SameNext DEF LP!LifecycleNext, LP!RestartNext
<1>3. LP!TypeOK'
  BY <1>1, <1>2, Assumptions, LP!TypeStep
<1>4. LP!EntryOnce'
  BY <1>1, <1>2, Assumptions, LP!OnceStep
<1>5. LP!CounterExact'
  BY <1>1, <1>2, Assumptions, LP!CounterStep
<1>6. L!TypeOK'
  BY <1>3 DEF L!TypeOK, LP!TypeOK, L!WorkerStates, LP!WorkerStates, L!FutureStates, LP!FutureStates
<1> QED BY <1>3, <1>4, <1>5, <1>6 DEF LanesOK

LEMMA NextIsLaneNext == [Next]_vars => UNCHANGED laneVars \/ L!Next
<1> SUFFICES ASSUME [Next]_vars PROVE UNCHANGED laneVars \/ L!Next
  OBVIOUS
<1>1. ASSUME NEW l \in Lanes, NEW t \in Entries, Enqueues(l, t) \/ Completes(l, t) PROVE L!Next
  BY <1>1 DEF Enqueues, Completes, L!CompleteStep, L!Next, L!CallerStep
<1>2. ASSUME NEW l \in Lanes, L!WorkerStep(l) \/ L!Clear(l) PROVE L!Next
  BY <1>2 DEF L!Next, L!CallerStep
<1>3. Timed \subseteq Requests
  BY QueueManagerAssumption
<1>4. ASSUME NEW t \in Entries, L!Abandon(t) PROVE L!Next
  BY <1>4 DEF L!Next
<1>5. CASE Next
  BY <1>1, <1>2, <1>3, <1>4, <1>5, StepIsLaneStep, Assumptions
<1> QED BY <1>5 DEF vars

-----------------------------------------------------------------------------
(* What the operations of a lane do to the entries in it. *)

InLane(l) == L!Waiting(l) \cup executing[l]

LEMMA EntriesInLane ==
  ASSUME L!TypeOK, NEW l \in Lanes
  PROVE  InLane(l) \subseteq Entries /\ executing[l] \subseteq Entries
<1>1. queue[l] \in Seq(Entries)
  BY DEF L!TypeOK
<1>2. L!Queued(l) \subseteq Entries
  BY <1>1 DEF L!Queued
<1> QED BY <1>2 DEF L!TypeOK, InLane, L!Waiting

LEMMA EnqueueEffect ==
  ASSUME L!TypeOK, NEW l \in Lanes, NEW t \in Entries, Enqueues(l, t)
  PROVE  /\ future[t] = "none" /\ future' = [future EXCEPT ![t] = "pending"]
         /\ executing' = executing /\ limit' = limit
         /\ InLane(l)' = InLane(l) \cup {t}
         /\ \A k \in Lanes : k # l => InLane(k)' = InLane(k)
<1>1. /\ future[t] = "none" /\ future' = [future EXCEPT ![t] = "pending"]
      /\ queue' = [queue EXCEPT ![l] = Append(queue[l], t)]
      /\ held' = held /\ executing' = executing /\ limit' = limit
  BY DEF Enqueues, L!Enqueue, L!Put, L!slotVars
<1>2. queue[l] \in Seq(Entries)
  BY DEF L!TypeOK
<1>3. LP!Elems(Append(queue[l], t)) = LP!Elems(queue[l]) \cup {t}
  BY <1>2, LP!AppendElems, Assumptions
<1>4. L!Queued(l)' = L!Queued(l) \cup {t}
  BY <1>1, <1>3 DEF L!Queued, LP!Elems, L!TypeOK
<1>5. \A k \in Lanes : k # l => InLane(k)' = InLane(k)
  BY <1>1 DEF L!TypeOK, InLane, L!Waiting, L!Queued
<1> QED BY <1>1, <1>4, <1>5 DEF InLane, L!Waiting

LEMMA WorkerEffect ==
  ASSUME L!TypeOK, NEW l \in Lanes, L!WorkerStep(l)
  PROVE  /\ future' = future /\ limit' = limit
         /\ \A k \in Lanes : InLane(k)' \subseteq InLane(k)
         /\ \A k \in Lanes : \/ executing'[k] = executing[k]
                             \/ /\ active[k] < limit[k]
                                /\ executing'[k] = executing[k] \cup {held[k]}
<1> USE DEF L!slotVars, L!workerVars, L!entryVars
<1>1. CASE L!WorkerBegin(l) \/ L!GetTimeout(l)
  <2>1. UNCHANGED <<queue, held, executing, future, limit>>
    BY <1>1 DEF L!WorkerBegin, L!GetTimeout
  <2>2. \A k \in Lanes : InLane(k)' = InLane(k)
    BY <2>1 DEF InLane, L!Waiting, L!Queued
  <2> QED BY <2>1, <2>2
<1>2. CASE L!Take(l)
  <2>1. /\ queue[l] \in Seq(Entries) /\ queue[l] # <<>>
        /\ queue' = [queue EXCEPT ![l] = Tail(queue[l])]
        /\ held' = [held EXCEPT ![l] = Head(queue[l])]
        /\ UNCHANGED <<executing, future, limit>>
    BY <1>2 DEF L!Take, L!TypeOK
  <2>2. LP!Elems(queue[l]) = LP!Elems(Tail(queue[l])) \cup {Head(queue[l])}
    BY <2>1, LP!TailElems, Assumptions
  <2>3. /\ queue'[l] = Tail(queue[l]) /\ held'[l] = Head(queue[l])
        /\ \A k \in Lanes : k # l => queue'[k] = queue[k] /\ held'[k] = held[k]
    BY <2>1 DEF L!TypeOK
  <2>4. L!Queued(l) = LP!Elems(queue[l]) /\ L!Queued(l)' = LP!Elems(Tail(queue[l]))
    BY <2>3 DEF L!Queued, LP!Elems
  <2>5. InLane(l)' \subseteq InLane(l)
    BY <2>1, <2>2, <2>3, <2>4 DEF InLane, L!Waiting
  <2>6. \A k \in Lanes : k # l => InLane(k)' = InLane(k)
    BY <2>1, <2>3 DEF InLane, L!Waiting, L!Queued
  <2> QED BY <2>1, <2>5, <2>6
<1>3. CASE L!StartHeld(l)
  <2>1. /\ active[l] < limit[l] /\ held[l] \in Entries /\ held[l] # NoTask
        /\ executing' = [executing EXCEPT ![l] = @ \cup {held[l]}]
        /\ held' = [held EXCEPT ![l] = NoTask]
        /\ UNCHANGED <<queue, future, limit>>
    BY <1>3 DEF L!StartHeld, L!SlotFree, L!TypeOK
  <2>2. \A k \in Lanes : L!Queued(k)' = L!Queued(k)
    BY <2>1 DEF L!Queued
  <2>3. \A k \in Lanes : InLane(k)' \subseteq InLane(k)
    BY <2>1, <2>2 DEF InLane, L!Waiting, L!TypeOK
  <2>4. \A k \in Lanes : \/ executing'[k] = executing[k]
                         \/ active[k] < limit[k] /\ executing'[k] = executing[k] \cup {held[k]}
    BY <2>1 DEF L!TypeOK
  <2> QED BY <2>1, <2>3, <2>4
<1> QED BY <1>1, <1>2, <1>3 DEF L!WorkerStep

LEMMA CompleteEffect ==
  ASSUME L!TypeOK, NEW l \in Lanes, NEW t \in Entries, Completes(l, t)
  PROVE  /\ t \in executing[l] /\ limit' = limit
         /\ executing' = [executing EXCEPT ![l] = @ \ {t}]
         /\ \A k \in Lanes : L!Waiting(k)' = L!Waiting(k)
         /\ \A u \in Entries : u # t => future'[u] = future[u]
         /\ future'[t] \in {future[t], "result", "error"}
<1>1. PICK o \in Outcomes \cup {"result", "error"} : L!Complete(l, t, o)
  BY DEF Completes
<1>2. o \in {"result", "error", "cancelled"}
  BY QueueManagerAssumption
<1> QED BY <1>1, <1>2 DEF L!Complete, L!Answer, L!TypeOK, L!Waiting, L!Queued

LEMMA ClearEffect ==
  ASSUME L!TypeOK, NEW l \in Lanes, L!Clear(l)
  PROVE  /\ executing' = executing /\ limit' = limit
         /\ \A k \in Lanes : InLane(k)' \subseteq InLane(k)
         /\ \A u \in Entries : \/ future'[u] = future[u]
                               \/ future'[u] = "cleared" /\ u \in L!Queued(l)
         /\ L!Queued(l)' = {} /\ held' = held
<1>1. /\ queue' = [queue EXCEPT ![l] = <<>>] /\ held' = held /\ executing' = executing
      /\ limit' = limit
  BY DEF L!Clear, L!slotVars
<1>2. L!Queued(l)' = {} /\ \A k \in Lanes : k # l => L!Queued(k)' = L!Queued(k)
  BY <1>1 DEF L!TypeOK, L!Queued
<1>3. \A k \in Lanes : InLane(k)' \subseteq InLane(k)
  BY <1>1, <1>2 DEF InLane, L!Waiting
<1> QED BY <1>1, <1>2, <1>3 DEF L!Clear, L!TypeOK

-----------------------------------------------------------------------------
(* The inductive invariant: where the two entries of a request are.  The   *)
(* session entry is in the lane of its session, runs alone there, and runs *)
(* as long as the turn's caller waits for the turn.                        *)
Nested ==
  /\ \A r \in Requests, l \in Lanes : Outer(r) \in InLane(l) => l = SessionOf[r]
  /\ \A r \in Requests, l \in Lanes : Inner(r) \in InLane(l) =>
       l = TargetOf[r] /\ future[Inner(r)] \in {"pending", "abandoned"}
  /\ \A r \in Requests : future[Inner(r)] = "pending" => \E l \in Lanes : Outer(r) \in executing[l]
  /\ \A r \in Requests : future[Inner(r)] = "abandoned" => r \in Timed
  /\ \A s \in Sessions : \A t, u \in executing[s] : t = u
  /\ limit = LimitOf

Manager == TypeOK /\ LP!EntryOnce /\ LP!CounterExact /\ Nested

LEMMA SubmitNested ==
  ASSUME Manager, NEW r \in Requests, Enqueues(SessionOf[r], Outer(r))
  PROVE  Nested'
<1> USE Assumptions DEF Manager, Nested, TypeOK
<1>1. /\ future' = [future EXCEPT ![Outer(r)] = "pending"]
      /\ executing' = executing /\ limit' = limit
      /\ InLane(SessionOf[r])' = InLane(SessionOf[r]) \cup {Outer(r)}
      /\ \A k \in Lanes : k # SessionOf[r] => InLane(k)' = InLane(k)
  BY EnqueueEffect
<1>2. \A q \in Requests : future'[Inner(q)] = future[Inner(q)]
  BY <1>1 DEF L!TypeOK
<1>3. \A q \in Requests, k \in Lanes : Outer(q) \in InLane(k)' => k = SessionOf[q]
  BY <1>1
<1>4. \A q \in Requests, k \in Lanes : Inner(q) \in InLane(k)' => Inner(q) \in InLane(k)
  BY <1>1
<1> QED BY <1>1, <1>2, <1>3, <1>4

LEMMA EnterNested ==
  ASSUME Manager, NEW r \in Requests, NEW l \in Lanes, Outer(r) \in executing[l],
         Enqueues(TargetOf[r], Inner(r)), UNCHANGED managerVars
  PROVE  Nested'
<1> USE Assumptions DEF Manager, Nested, TypeOK
<1>1. /\ future' = [future EXCEPT ![Inner(r)] = "pending"]
      /\ executing' = executing /\ limit' = limit
      /\ InLane(TargetOf[r])' = InLane(TargetOf[r]) \cup {Inner(r)}
      /\ \A k \in Lanes : k # TargetOf[r] => InLane(k)' = InLane(k)
  BY EnqueueEffect
<1>2. /\ future'[Inner(r)] = "pending"
      /\ \A q \in Requests : q # r => future'[Inner(q)] = future[Inner(q)]
  BY <1>1 DEF L!TypeOK
<1> QED BY <1>1, <1>2

LEMMA CompleteNested ==
  ASSUME Manager, NEW r \in Requests, NEW l \in Lanes,
         \/ Completes(l, Inner(r))
         \/ future[Inner(r)] # "pending" /\ Completes(l, Outer(r)),
         UNCHANGED managerVars
  PROVE  Nested'
<1> USE Assumptions DEF Manager, Nested, TypeOK
<1> DEFINE t == IF Completes(l, Inner(r)) THEN Inner(r) ELSE Outer(r)
<1>1. t \in Entries /\ Completes(l, t)
  OBVIOUS
<1>2. /\ t \in executing[l] /\ limit' = limit
      /\ executing' = [executing EXCEPT ![l] = @ \ {t}]
      /\ \A k \in Lanes : L!Waiting(k)' = L!Waiting(k)
      /\ \A u \in Entries : u # t => future'[u] = future[u]
      /\ future'[t] \in {future[t], "result", "error"}
  BY <1>1, CompleteEffect
<1>3. /\ t \notin L!Waiting(l)
      /\ \A k \in Lanes : executing'[k] \subseteq executing[k] /\ InLane(k)' \subseteq InLane(k)
      /\ t \notin InLane(l)'
      /\ \A k \in Lanes, u \in Entries : u # t /\ u \in executing[k] => u \in executing'[k]
  <2> HIDE DEF t
  <2>1. t \notin L!Waiting(l)
    BY <1>2, SameLane DEF L!EntryOnce
  <2>2. \A k \in Lanes : executing'[k] = IF k = l THEN executing[l] \ {t} ELSE executing[k]
    BY <1>2 DEF L!TypeOK
  <2> QED BY <1>2, <2>1, <2>2 DEF InLane
<1>4. \A q \in Requests : \/ future'[Inner(q)] = future[Inner(q)]
                          \/ Inner(q) = t /\ future'[Inner(q)] \in {"result", "error"}
  BY <1>2
<1>5. \A q \in Requests, k \in Lanes : Inner(q) \in InLane(k)' =>
        k = TargetOf[q] /\ future'[Inner(q)] \in {"pending", "abandoned"}
  <2> SUFFICES ASSUME NEW q \in Requests, NEW k \in Lanes, Inner(q) \in InLane(k)'
               PROVE  k = TargetOf[q] /\ future'[Inner(q)] \in {"pending", "abandoned"}
    OBVIOUS
  <2>1. k = TargetOf[q] /\ future[Inner(q)] \in {"pending", "abandoned"}
    BY <1>3
  <2>2. Inner(q) # t
    <3>1. CASE Inner(q) = t
      <4>1. l = TargetOf[q]
        BY <1>2, <3>1 DEF InLane
      <4> QED BY <1>3, <2>1, <3>1, <4>1
    <3> QED BY <3>1
  <2> QED BY <1>4, <2>1, <2>2
<1>6. \A q \in Requests : future'[Inner(q)] = "pending" => \E k \in Lanes : Outer(q) \in executing'[k]
  <2> SUFFICES ASSUME NEW q \in Requests, future'[Inner(q)] = "pending"
               PROVE  \E k \in Lanes : Outer(q) \in executing'[k]
    OBVIOUS
  <2>1. future[Inner(q)] = "pending"
    BY <1>4
  <2>2. Outer(q) # t
    BY <2>1
  <2> QED BY <1>3, <2>1, <2>2
<1>7. \A k \in Sessions : \A u, v \in executing'[k] : u = v
  BY <1>3
<1> QED BY <1>2, <1>3, <1>4, <1>5, <1>6, <1>7

LEMMA AbandonNested ==
  ASSUME Manager, NEW t \in Entries, L!Abandon(t), UNCHANGED managerVars,
         \A r \in Requests : t = Inner(r) => r \in Timed
  PROVE  Nested'
<1> USE Assumptions DEF Manager, Nested, TypeOK
<1>1. /\ future[t] = "pending" /\ future' = [future EXCEPT ![t] = "abandoned"]
      /\ UNCHANGED <<queue, held, executing, limit>>
  BY DEF L!Abandon, L!slotVars
<1>2. \A k \in Lanes : InLane(k)' = InLane(k)
  BY <1>1 DEF InLane, L!Waiting, L!Queued
<1> QED BY <1>1, <1>2 DEF L!TypeOK

LEMMA WorkerNested ==
  ASSUME Manager, NEW l \in Lanes, L!WorkerStep(l), UNCHANGED managerVars
  PROVE  Nested'
<1> USE Assumptions DEF Manager, Nested, TypeOK
<1>1. /\ future' = future /\ limit' = limit
      /\ \A k \in Lanes : InLane(k)' \subseteq InLane(k)
      /\ \A k \in Lanes : \/ executing'[k] = executing[k]
                          \/ active[k] < limit[k] /\ executing'[k] = executing[k] \cup {held[k]}
  BY WorkerEffect
<1>2. ASSUME NEW k \in Sessions, active[k] < limit[k] PROVE executing[k] = {}
  <2>1. LimitOf[k] = 1 /\ active[k] \in Int
    BY QueueManagerAssumption DEF L!TypeOK
  <2>2. active[k] = LP!Cardinality(executing[k]) /\ LP!IsFiniteSet(executing[k])
    BY DEF LP!CounterExact
  <2>3. LP!Cardinality(executing[k]) \in Nat
    BY <2>2, LP!FS_CardinalityType, Assumptions
  <2>4. active[k] = 0
    BY <1>2, <2>1, <2>2, <2>3
  <2> QED BY <2>2, <2>4, LP!FS_EmptySet, Assumptions
<1>3. \A k \in Sessions : \A t, u \in executing'[k] : t = u
  BY <1>1, <1>2
<1>4. \A k \in Lanes : executing[k] \subseteq executing'[k]
  BY <1>1
<1> QED BY <1>1, <1>3, <1>4

LEMMA ClearNested ==
  ASSUME Manager, NEW l \in Lanes, L!Clear(l), UNCHANGED managerVars
  PROVE  Nested'
<1> USE Assumptions DEF Manager, Nested, TypeOK
<1>1. /\ executing' = executing /\ limit' = limit /\ held' = held
      /\ \A k \in Lanes : InLane(k)' \subseteq InLane(k)
      /\ \A u \in Entries : \/ future'[u] = future[u]
                            \/ future'[u] = "cleared" /\ u \in L!Queued(l)
      /\ L!Queued(l)' = {}
  BY ClearEffect
<1>2. \A u \in L!Queued(l) : u \in InLane(l) /\ u \notin InLane(l)'
  BY <1>1, SameLane DEF L!EntryOnce, InLane, L!Waiting
<1>3. \A q \in Requests, k \in Lanes : Inner(q) \in InLane(k)' =>
        k = TargetOf[q] /\ future'[Inner(q)] = future[Inner(q)]
  BY <1>1, <1>2
<1> QED BY <1>1, <1>3

LEMMA ManagerStep == Manager /\ [Next]_vars => Manager'
<1> SUFFICES ASSUME Manager, [Next]_vars PROVE Manager'
  OBVIOUS
<1>1. L!TypeOK' /\ LP!EntryOnce' /\ LP!CounterExact'
  BY NextIsLaneNext, LaneStep DEF Manager, TypeOK, LanesOK
<1>2. TypeOK'
  BY <1>1, StepIsLaneStep DEF Manager, TypeOK, managerVars, vars
<1>3. Nested'
  <2>1. CASE UNCHANGED laneVars
    BY <2>1 DEF Manager, Nested, laneVars, InLane, L!Waiting, L!Queued
  <2>2. ASSUME NEW r \in Requests, Enqueues(SessionOf[r], Outer(r))
        PROVE  Nested'
    BY <2>2, SubmitNested
  <2>3. ASSUME UNCHANGED managerVars, NEW r \in Requests,
               \/ /\ Outer(r) \in executing[SessionOf[r]]
                  /\ Enqueues(TargetOf[r], Inner(r))
               \/ future[Inner(r)] # "pending" /\ Completes(SessionOf[r], Outer(r))
               \/ Completes(TargetOf[r], Inner(r))
        PROVE  Nested'
    <3>1. SessionOf[r] \in Lanes /\ TargetOf[r] \in Lanes
      BY Assumptions
    <3> QED BY <2>3, <3>1, EnterNested, CompleteNested
  <2>4. ASSUME UNCHANGED managerVars, NEW r \in Requests,
               L!Abandon(Outer(r)) \/ (r \in Timed /\ L!Abandon(Inner(r)))
        PROVE  Nested'
    BY <2>4, AbandonNested, Assumptions
  <2>5. ASSUME UNCHANGED managerVars, NEW l \in Lanes, L!WorkerStep(l) \/ L!Clear(l)
        PROVE  Nested'
    BY <2>5, WorkerNested, ClearNested
  <2>6. CASE Next
    BY <2>1, <2>2, <2>3, <2>4, <2>5, <2>6, StepIsLaneStep, QueueManagerAssumption DEF Manager
  <2> QED BY <2>1, <2>6 DEF vars
<1> QED BY <1>1, <1>2, <1>3 DEF Manager

LEMMA ManagerInit == Init => Manager
<1> SUFFICES ASSUME Init PROVE Manager
  OBVIOUS
<1>1. LP!Init
  BY SameLane DEF Init
<1>2. LP!EntryOnce
  BY <1>1, Assumptions DEF LP!LaneAssumption, LP!Init, LP!EntryOnce, LP!Waiting, LP!Queued
<1>3. LP!CounterExact
  BY <1>1, LP!FS_EmptySet, Assumptions DEF LP!Init, LP!CounterExact
<1>4. TypeOK
  <2>1. L!TypeOK
    BY Assumptions DEF Init, L!Init, L!TypeOK, L!WorkerStates, L!FutureStates, LP!LaneAssumption
  <2> QED BY <2>1 DEF Init, TypeOK
<1>5. \A l \in Lanes : InLane(l) = {} /\ executing[l] = {}
  BY <1>1 DEF LP!Init, InLane, L!Waiting, L!Queued
<1>6. Nested
  BY <1>5, Assumptions DEF Init, L!Init, Nested
<1> QED BY <1>2, <1>3, <1>4, <1>6 DEF Manager

-----------------------------------------------------------------------------
(* Each lane of the manager is a lane in normal operation: whatever        *)
(* LaneProofs proves of lanes, from the counters to the order in which     *)
(* entries start, holds of the lanes of the manager.                       *)
THEOREM LanesInNormalOperation == Spec => L!Spec
<1>1. Init => L!Init
  BY DEF Init
<1>2. [Next]_vars => [L!Next]_L!vars
  BY NextIsLaneNext DEF laneVars, L!vars, L!slotVars, L!workerVars, L!entryVars
<1> QED BY <1>1, <1>2, PTL DEF Spec, L!Spec

(* The lanes of the manager and its drain flags keep their types.          *)
THEOREM TypeCorrect == Spec => []TypeOK
<1>1. Manager => TypeOK
  BY DEF Manager
<1> QED BY <1>1, ManagerInit, ManagerStep, PTL DEF Spec

(* The turns of a session never overlap unless a wait of one of its bodies *)
(* timed out: a turn that runs and was not given up is awaited by a body   *)
(* in the lane of the session, where only one body runs.                   *)
THEOREM SessionSerialCorrect == Spec => []SessionSerial
<1>1. Manager => SessionSerial
  <2> SUFFICES ASSUME Manager, NEW s \in Sessions,
                      \A r \in Requests : SessionOf[r] = s => future[Inner(r)] # "abandoned",
                      NEW r1 \in Requests, NEW r2 \in Requests,
                      SessionOf[r1] = s, SessionOf[r2] = s, TurnRuns(r1), TurnRuns(r2)
               PROVE  r1 = r2
    BY DEF SessionSerial, Overlap
  <2>1. future[Inner(r1)] = "pending" /\ future[Inner(r2)] = "pending"
    BY Assumptions DEF TurnRuns, Manager, Nested, InLane
  <2>2. PICK l1 \in Lanes, l2 \in Lanes : Outer(r1) \in executing[l1] /\ Outer(r2) \in executing[l2]
    BY <2>1 DEF Manager, Nested
  <2>3. l1 = s /\ l2 = s
    BY <2>2 DEF Manager, Nested, InLane
  <2> QED BY <2>2, <2>3, Assumptions DEF Manager, Nested
<1> QED BY <1>1, ManagerInit, ManagerStep, PTL DEF Spec

(* What makes the verdict of a drain last: the drain goes on, and no turn  *)
(* of a fixed lane is under way, except one that a timed wait gave up.     *)
Verdict ==
  drained =>
    /\ draining
    /\ \A r \in Requests \ Timed : TargetOf[r] # GlobalLane => Inner(r) \notin InLane(TargetOf[r])

(* With the counters at zero no session entry executes, so no turn is      *)
(* awaited in a command lane.                                              *)
LEMMA CountersZero ==
  ASSUME Manager, NoActiveTasks
  PROVE  \A r \in Requests \ Timed : Inner(r) \notin InLane(TargetOf[r])
<1>1. \A l \in Lanes : executing[l] = {}
  BY LP!FS_EmptySet, Assumptions DEF Manager, LP!CounterExact, NoActiveTasks
<1>2. \A r \in Requests : future[Inner(r)] # "pending"
  BY <1>1 DEF Manager, Nested
<1> QED BY <1>1, <1>2, Assumptions DEF Manager, Nested

(* Only the body of a session entry puts a turn in a command lane, and it  *)
(* is refused there during a drain.                                        *)
LEMMA VerdictStep == Manager /\ Verdict /\ [Next]_vars => Verdict'
<1> SUFFICES ASSUME Manager, Verdict, [Next]_vars PROVE Verdict'
  OBVIOUS
<1> USE Assumptions DEF Manager, TypeOK
<1>1. ASSUME UNCHANGED managerVars, \A k \in Lanes : InLane(k)' \subseteq InLane(k)
      PROVE  Verdict'
  BY <1>1 DEF Verdict, managerVars
<1>2. ASSUME NEW r \in Requests, Enqueues(SessionOf[r], Outer(r)), UNCHANGED managerVars
      PROVE  Verdict'
  <2>1. \A k \in Lanes : InLane(k)' \subseteq InLane(k) \cup {Outer(r)}
    BY <1>2, EnqueueEffect
  <2> QED BY <1>2, <2>1 DEF Verdict, managerVars
<1>3. ASSUME UNCHANGED managerVars, NEW r \in Requests, ~ RefusedByDrain(r),
             Enqueues(TargetOf[r], Inner(r))
      PROVE  Verdict'
  <2>1. \A k \in Lanes : InLane(k)' \subseteq InLane(k) \cup {Inner(r)}
    BY <1>3, EnqueueEffect
  <2>2. ~ draining \/ TargetOf[r] = GlobalLane
    BY <1>3 DEF RefusedByDrain
  <2> QED BY <1>3, <2>1, <2>2 DEF Verdict, managerVars
<1>4. ASSUME UNCHANGED managerVars, NEW l \in Lanes, NEW t \in Entries, Completes(l, t)
      PROVE  Verdict'
  <2>1. /\ executing' = [executing EXCEPT ![l] = @ \ {t}]
        /\ \A k \in Lanes : L!Waiting(k)' = L!Waiting(k)
    BY <1>4, CompleteEffect
  <2>2. \A k \in Lanes : executing'[k] \subseteq executing[k]
    BY <2>1 DEF L!TypeOK
  <2>3. \A k \in Lanes : InLane(k)' \subseteq InLane(k)
    BY <2>1, <2>2 DEF InLane
  <2> QED BY <1>1, <1>4, <2>3
<1>5. ASSUME UNCHANGED managerVars, NEW t \in Entries, L!Abandon(t)
      PROVE  Verdict'
  <2>1. UNCHANGED <<queue, held, executing>>
    BY <1>5 DEF L!Abandon, L!slotVars
  <2>2. \A k \in Lanes : InLane(k)' = InLane(k)
    BY <2>1 DEF InLane, L!Waiting, L!Queued
  <2> QED BY <1>1, <1>5, <2>2
<1>6. ASSUME UNCHANGED managerVars, NEW l \in Lanes, L!WorkerStep(l) \/ L!Clear(l)
      PROVE  Verdict'
  BY <1>1, <1>6, WorkerEffect, ClearEffect
<1>7. ASSUME UNCHANGED laneVars, draining' = TRUE,
             UNCHANGED drained \/ (NoActiveTasks /\ drained' = TRUE)
      PROVE  Verdict'
  <2>1. \A k \in Lanes : InLane(k)' = InLane(k)
    BY <1>7 DEF laneVars, InLane, L!Waiting, L!Queued
  <2>2. CASE UNCHANGED drained
    BY <1>7, <2>1, <2>2 DEF Verdict
  <2>3. CASE NoActiveTasks
    BY <1>7, <2>1, <2>3, CountersZero DEF Verdict
  <2> QED BY <1>7, <2>2, <2>3
<1>8. CASE Next
  BY <1>2, <1>3, <1>4, <1>5, <1>6, <1>7, <1>8, StepIsLaneStep, QueueManagerAssumption
<1>9. CASE UNCHANGED vars
  BY <1>9 DEF Verdict, vars, laneVars, managerVars, InLane, L!Waiting, L!Queued
<1> QED BY <1>8, <1>9

(* After a gateway was reported drained no turn enters a fixed lane: a     *)
(* session entry that starts late has its body refused.                    *)
THEOREM NoTurnAfterVerdictCorrect == Spec => []NoTurnAfterVerdict
<1>1. Init => Verdict
  BY DEF Init, Verdict
<1>2. Verdict => NoTurnAfterVerdict
  BY DEF Verdict, NoTurnAfterVerdict, InLane
<1> QED BY <1>1, <1>2, VerdictStep, ManagerInit, ManagerStep, PTL DEF Spec
===============================================================================
