----------------------------- MODULE LaneProofs -----------------------------
(***************************************************************************)
(* Proofs about Lane for any number of lanes, entries and limits: its      *)
(* invariants, and that it implements FifoExecutor.                        *)
(***************************************************************************)
EXTENDS Lane, TLAPS, FiniteSetTheorems, SequenceTheorems

-----------------------------------------------------------------------------
(* TypeOK is preserved by each step of Next. *)

LEMMA EnqueueType ==
  ASSUME TypeOK, NEW l \in Lanes, NEW t \in Tasks, NEW policy \in DropPolicies,
         Enqueue(l, t, policy)
  PROVE  TypeOK'
<1> USE LaneAssumption
<1>1. CASE future' = [future EXCEPT ![t] = "refused"] /\ UNCHANGED <<queue, held, slotVars, workerVars, limit, generation, entryGen, lost>>
  BY <1>1 DEF TypeOK, FutureStates, slotVars, workerVars
<1>2. ASSUME NEW q \in Seq(Tasks), Put(l, t, q), lost' \subseteq Tasks
      PROVE  TypeOK'
  <2>1. queue' \in [Lanes -> Seq(Tasks)]
    BY <1>2 DEF TypeOK, Put
  <2>2. entryGen' \in [Tasks -> Nat] /\ future' \in [Tasks -> FutureStates]
    BY <1>2 DEF TypeOK, Put, FutureStates
  <2>3. /\ running' \in [Lanes -> BOOLEAN] /\ worker' \in [Lanes -> WorkerStates]
        /\ \A k \in Lanes : worker'[k] = "hold" <=> worker[k] = "hold"
    BY <1>2 DEF TypeOK, Put, StartWorker, workerVars, WorkerStates
  <2> QED BY <1>2, <2>1, <2>2, <2>3 DEF TypeOK, Put, slotVars
<1>3. queue[l] \in Seq(Tasks) /\ (queue[l] # <<>> => Tail(queue[l]) \in Seq(Tasks) /\ Head(queue[l]) \in Tasks)
  BY DEF TypeOK
<1> QED BY <1>1, <1>2, <1>3 DEF Enqueue, TypeOK

LEMMA WorkerStepType ==
  ASSUME TypeOK, NEW l \in Lanes, WorkerStep(l)
  PROVE  TypeOK'
<1> USE LaneAssumption DEF TypeOK, WorkerStates, slotVars, entryVars
<1>1. CASE WorkerBegin(l)
  BY <1>1 DEF WorkerBegin, LoopOrExit
<1>2. CASE Take(l)
  <2>1. Head(queue[l]) \in Tasks /\ Tail(queue[l]) \in Seq(Tasks)
    BY <1>2 DEF Take
  <2> QED BY <1>2, <2>1 DEF Take
<1>3. CASE StartHeld(l)
  BY <1>3 DEF StartHeld, LoopOrExit
<1>4. CASE GetTimeout(l)
  BY <1>4 DEF GetTimeout
<1> QED BY <1>1, <1>2, <1>3, <1>4 DEF WorkerStep

LEMMA CompleteType ==
  ASSUME TypeOK, NEW l \in Lanes, NEW t \in Tasks, NEW outcome \in Outcomes,
         Complete(l, t, outcome)
  PROVE  TypeOK'
<1> USE LaneAssumption DEF TypeOK
<1>1. future' \in [Tasks -> FutureStates]
  BY DEF Complete, Answer, FutureStates
<1>2. active' \in [Lanes -> Int] /\ tracked' \in [Lanes -> SUBSET Tasks]
  BY DEF Complete, Release
<1> QED BY <1>1, <1>2 DEF Complete, workerVars

LEMMA CallerStepType ==
  ASSUME TypeOK, NEW l \in Lanes, CallerStep(l)
  PROVE  TypeOK'
<1>1. CASE \E t \in Tasks, policy \in DropPolicies : Enqueue(l, t, policy)
  BY <1>1, EnqueueType
<1>2. CASE Clear(l)
  BY <1>2 DEF Clear, TypeOK, FutureStates, slotVars, workerVars
<1>3. CASE \E n \in Limits : SetConcurrency(l, n)
  BY <1>3 DEF SetConcurrency, TypeOK, slotVars, workerVars, entryVars
<1> QED BY <1>1, <1>2, <1>3 DEF CallerStep

LEMMA AbandonType ==
  ASSUME TypeOK, NEW t \in Tasks, Abandon(t)
  PROVE  TypeOK'
BY DEF Abandon, TypeOK, FutureStates, slotVars, workerVars

LEMMA ResetType ==
  ASSUME TypeOK, ResetAllLanes
  PROVE  TypeOK'
<1>1. /\ generation' \in [Lanes -> Nat] /\ tracked' \in [Lanes -> SUBSET Tasks]
      /\ active' \in [Lanes -> Int] /\ running' \in [Lanes -> BOOLEAN]
  BY DEF ResetAllLanes, TypeOK
<1>2. /\ worker' \in [Lanes -> WorkerStates]
      /\ \A l \in Lanes : worker'[l] = "hold" <=> worker[l] = "hold"
  BY DEF ResetAllLanes, TypeOK, WorkerStates
<1>3. lost' \subseteq Tasks
  BY DEF ResetAllLanes, TypeOK
<1> QED BY <1>1, <1>2, <1>3 DEF ResetAllLanes, TypeOK

LEMMA EndOfLaneType ==
  ASSUME TypeOK, NEW l \in Lanes, Stop(l) \/ ResetGeneration(l)
  PROVE  TypeOK'
<1>1. CASE Stop(l)
  BY <1>1 DEF Stop, TypeOK, slotVars, entryVars
<1>2. CASE ResetGeneration(l)
  <2>1. generation' \in [Lanes -> Nat]
    BY <1>2 DEF ResetGeneration, TypeOK
  <2> QED BY <1>2, <2>1 DEF ResetGeneration, TypeOK, slotVars, workerVars, entryVars
<1> QED BY <1>1, <1>2

LEMMA TypeStep == TypeOK /\ [LifecycleNext]_vars => TypeOK'
<1> SUFFICES ASSUME TypeOK, [LifecycleNext]_vars PROVE TypeOK'
  OBVIOUS
<1>1. CASE \E l \in Lanes : WorkerStep(l) \/ CallerStep(l) \/ CompleteStep(l)
  BY <1>1, WorkerStepType, CallerStepType, CompleteType DEF CompleteStep
<1>2. CASE \E t \in Tasks : Abandon(t)
  BY <1>2, AbandonType
<1>3. CASE UNCHANGED vars
  BY <1>3 DEF vars, slotVars, workerVars, entryVars, TypeOK
<1>4. CASE ResetAllLanes
  BY <1>4, ResetType
<1>5. CASE \E l \in Lanes : Stop(l) \/ ResetGeneration(l)
  BY <1>5, EndOfLaneType
<1> QED BY <1>1, <1>2, <1>3, <1>4, <1>5 DEF LifecycleNext, RestartNext, Next

(* Every variable of the lanes keeps its type, and the worker holds an     *)
(* entry exactly while it polls for a slot, resets and stops included.     *)
THEOREM TypeCorrect == LifecycleSpec => []TypeOK
<1>1. Init => TypeOK
  BY LaneAssumption DEF Init, TypeOK, WorkerStates, FutureStates
<1> QED BY <1>1, TypeStep, PTL DEF LifecycleSpec

LEMMA NormalOperation == Spec => LifecycleSpec
<1>1. [Next]_vars => [LifecycleNext]_vars
  BY DEF LifecycleNext, RestartNext
<1> QED BY <1>1, PTL DEF Spec, LifecycleSpec

-----------------------------------------------------------------------------
(* The counter. *)

LEMMA CompleteCounts ==
  ASSUME TypeOK, CounterExact, NEW l \in Lanes, CompleteStep(l)
  PROVE  CounterExact'
<1> PICK t \in Tasks, outcome \in Outcomes : Complete(l, t, outcome)
  BY DEF CompleteStep
<1>1. t \in executing[l] /\ IsFiniteSet(executing[l])
  BY DEF Complete, CounterExact
<1>2. /\ IsFiniteSet(executing[l] \ {t})
      /\ Cardinality(executing[l] \ {t}) = Cardinality(executing[l]) - 1
  BY <1>1, FS_RemoveElement
<1> QED BY <1>2 DEF Complete, Release, CounterExact, TypeOK

LEMMA StartHeldCounts ==
  ASSUME TypeOK, CounterExact, EntryOnce, NEW l \in Lanes, StartHeld(l)
  PROVE  /\ CounterExact'
         /\ Cardinality(executing'[l]) = Cardinality(executing[l]) + 1
<1>1. held[l] \in Tasks /\ held[l] \in Waiting(l)
  BY DEF StartHeld, TypeOK, Waiting
<1>2. held[l] \notin executing[l] /\ IsFiniteSet(executing[l])
  BY <1>1 DEF EntryOnce, CounterExact
<1>3. /\ IsFiniteSet(executing[l] \cup {held[l]})
      /\ Cardinality(executing[l] \cup {held[l]}) = Cardinality(executing[l]) + 1
  BY <1>2, FS_AddElement
<1> QED BY <1>3 DEF StartHeld, CounterExact, TypeOK

LEMMA CounterStep ==
  TypeOK /\ EntryOnce /\ CounterExact /\ [Next]_vars => CounterExact'
<1> SUFFICES ASSUME TypeOK, EntryOnce, CounterExact, [Next]_vars PROVE CounterExact'
  OBVIOUS
<1>1. CASE UNCHANGED slotVars
  BY <1>1 DEF slotVars, CounterExact
<1>2. ASSUME NEW l \in Lanes, WorkerStep(l) PROVE CounterExact'
  <2>1. WorkerBegin(l) \/ Take(l) \/ GetTimeout(l) => UNCHANGED slotVars
    BY DEF WorkerBegin, Take, GetTimeout, slotVars
  <2> QED BY <1>1, <1>2, <2>1, StartHeldCounts DEF WorkerStep
<1>3. ASSUME NEW l \in Lanes, CallerStep(l) PROVE CounterExact'
  <2>1. \A t \in Tasks, policy \in DropPolicies : Enqueue(l, t, policy) => UNCHANGED slotVars
    BY DEF Enqueue, Put
  <2>2. Clear(l) => UNCHANGED slotVars
    BY DEF Clear
  <2>3. \A n \in Limits : SetConcurrency(l, n) => UNCHANGED slotVars
    BY DEF SetConcurrency
  <2> QED BY <1>1, <1>3, <2>1, <2>2, <2>3 DEF CallerStep
<1>4. ASSUME NEW l \in Lanes, CompleteStep(l) PROVE CounterExact'
  BY <1>4, CompleteCounts
<1>5. ASSUME NEW t \in Tasks, Abandon(t) PROVE CounterExact'
  BY <1>5, <1>1 DEF Abandon
<1>6. CASE UNCHANGED vars
  BY <1>6, <1>1 DEF vars
<1> QED BY <1>2, <1>3, <1>4, <1>5, <1>6 DEF Next

-----------------------------------------------------------------------------
(* Sequences as the lanes use them. *)

Elems(q) == {q[i] : i \in 1..Len(q)}
Distinct(q) == \A i, j \in 1..Len(q) : i # j => q[i] # q[j]

LEMMA AppendElems ==
  ASSUME NEW S, NEW q \in Seq(S), NEW t \in S
  PROVE  /\ Elems(Append(q, t)) = Elems(q) \cup {t}
         /\ Distinct(q) /\ t \notin Elems(q) => Distinct(Append(q, t))
<1>1. /\ Len(Append(q, t)) = Len(q) + 1
      /\ \A i \in 1..Len(q) : Append(q, t)[i] = q[i]
      /\ Append(q, t)[Len(q) + 1] = t
      /\ Len(q) \in Nat
  OBVIOUS
<1>2. 1..(Len(q) + 1) = 1..Len(q) \cup {Len(q) + 1}
  BY <1>1
<1> QED BY <1>1, <1>2 DEF Elems, Distinct

LEMMA TailElems ==
  ASSUME NEW S, NEW q \in Seq(S), q # <<>>
  PROVE  /\ Elems(q) = Elems(Tail(q)) \cup {Head(q)}
         /\ Distinct(q) => Distinct(Tail(q)) /\ Head(q) \notin Elems(Tail(q))
         /\ Tail(q) \in Seq(S) /\ Head(q) \in S
<1>1. /\ Len(q) \in Nat \ {0}
      /\ Head(q) = q[1]
      /\ Len(Tail(q)) = Len(q) - 1
      /\ \A i \in 1..(Len(q) - 1) : Tail(q)[i] = q[i + 1]
      /\ Tail(q) \in Seq(S) /\ q[1] \in S
  OBVIOUS
<1>2. \A i \in 1..Len(q) : i = 1 \/ i - 1 \in 1..(Len(q) - 1)
  BY <1>1
<1>3. \A i \in 1..(Len(q) - 1) : i + 1 \in 1..Len(q) /\ i + 1 # 1
  BY <1>1
<1>4. Elems(q) \subseteq Elems(Tail(q)) \cup {Head(q)}
  <2> SUFFICES ASSUME NEW i \in 1..Len(q) PROVE q[i] \in Elems(Tail(q)) \cup {Head(q)}
    BY DEF Elems
  <2>1. CASE i = 1
    BY <2>1, <1>1
  <2>2. CASE i - 1 \in 1..(Len(q) - 1)
    <3>1. Tail(q)[i - 1] = q[i]
      BY <2>2, <1>1
    <3> QED BY <3>1, <2>2, <1>1 DEF Elems
  <2> QED BY <2>1, <2>2, <1>2
<1>5. Elems(Tail(q)) \subseteq Elems(q) /\ Head(q) \in Elems(q)
  BY <1>1, <1>3 DEF Elems
<1>6. Distinct(q) => Head(q) \notin Elems(Tail(q))
  BY <1>1, <1>3 DEF Elems, Distinct
<1>7. Distinct(q) => Distinct(Tail(q))
  BY <1>1, <1>3 DEF Distinct
<1> QED BY <1>1, <1>4, <1>5, <1>6, <1>7

-----------------------------------------------------------------------------
(* Every entry is in one place. *)

Accepted(t) == future[t] \notin {"none", "refused"}

Once(l) ==
  /\ Distinct(queue[l])
  /\ held[l] \notin Queued(l)
  /\ executing[l] \cap Waiting(l) = {}
  /\ \A t \in Waiting(l) \cup executing[l] : Accepted(t)

LEMMA EntryOnceIsOnce == EntryOnce <=> \A l \in Lanes : Once(l)
BY DEF EntryOnce, Once, Distinct, Accepted

LEMMA InLaneTasks ==
  ASSUME TypeOK, NEW l \in Lanes
  PROVE  /\ Queued(l) = Elems(queue[l])
         /\ Queued(l) \subseteq Tasks /\ NoTask \notin Queued(l)
         /\ Waiting(l) \subseteq Tasks
         /\ executing[l] \subseteq Tasks
<1>1. queue[l] \in Seq(Tasks)
  BY DEF TypeOK
<1>2. Queued(l) \subseteq Tasks
  BY <1>1 DEF Queued
<1> QED BY <1>2, LaneAssumption DEF TypeOK, Queued, Elems, Waiting

(* A lane that a step leaves alone. *)
LEMMA OnceFrame ==
  ASSUME TypeOK, NEW l \in Lanes, Once(l),
         queue'[l] = queue[l], held'[l] = held[l], executing'[l] = executing[l],
         \A t \in Tasks : Accepted(t) => Accepted(t)'
  PROVE  Once(l)'
<1>1. Queued(l)' = Queued(l) /\ Waiting(l)' = Waiting(l)
  BY DEF Queued, Waiting
<1> QED BY <1>1, InLaneTasks DEF Once

LEMMA PutOnce ==
  ASSUME TypeOK, NEW l \in Lanes, Once(l), NEW t \in Tasks,
         NEW q \in Seq(Tasks), Put(l, t, q),
         Distinct(q), Elems(q) \subseteq Queued(l)
  PROVE  Once(l)'
<1>1. /\ future[t] = "none"
      /\ queue'[l] = Append(q, t) /\ held'[l] = held[l] /\ executing'[l] = executing[l]
      /\ \A u \in Tasks : Accepted(u)' <=> Accepted(u) \/ u = t
  BY DEF Put, slotVars, TypeOK, Accepted
<1>2. t \notin Waiting(l) \cup executing[l] /\ t \notin Elems(q)
  BY <1>1 DEF Once, Accepted, Waiting
<1>3. Elems(Append(q, t)) = Elems(q) \cup {t} /\ Distinct(Append(q, t))
  BY <1>2, AppendElems
<1>4. Queued(l)' = Elems(q) \cup {t}
  BY <1>1, <1>3 DEF Queued, Elems
<1>5. held[l] # t
  BY <1>2, LaneAssumption DEF Waiting
<1>6. Waiting(l)' \subseteq Waiting(l) \cup {t}
  BY <1>1, <1>4 DEF Waiting
<1>7. Distinct(queue[l])'
  BY <1>1, <1>3
<1> QED BY <1>1, <1>2, <1>4, <1>5, <1>6, <1>7, InLaneTasks DEF Once

LEMMA EnqueueOnce ==
  ASSUME TypeOK, NEW l \in Lanes, Once(l), NEW t \in Tasks,
         NEW policy \in DropPolicies, Enqueue(l, t, policy)
  PROVE  Once(l)'
<1>1. queue[l] \in Seq(Tasks) /\ Distinct(queue[l]) /\ Queued(l) = Elems(queue[l])
  BY InLaneTasks DEF TypeOK, Once
<1>2. CASE Put(l, t, queue[l])
  BY <1>1, <1>2, PutOnce
<1>3. CASE queue[l] # <<>> /\ Put(l, t, Tail(queue[l]))
  <2>1. /\ Tail(queue[l]) \in Seq(Tasks) /\ Distinct(Tail(queue[l]))
        /\ Elems(Tail(queue[l])) \subseteq Queued(l)
    BY <1>1, <1>3, TailElems
  <2> QED BY <1>3, <2>1, PutOnce
<1>4. CASE /\ future[t] = "none"
           /\ future' = [future EXCEPT ![t] = "refused"]
           /\ UNCHANGED <<queue, held, slotVars>>
  <2>1. \A u \in Waiting(l) \cup executing[l] : u # t /\ u \in Tasks
    BY <1>4, InLaneTasks DEF Once, Accepted
  <2>2. Queued(l)' = Queued(l) /\ Waiting(l)' = Waiting(l)
    BY <1>4 DEF Queued, Waiting
  <2>3. \A u \in Waiting(l) \cup executing[l] : future'[u] = future[u]
    BY <1>4, <2>1 DEF TypeOK
  <2> QED BY <1>4, <2>2, <2>3 DEF Once, slotVars, Accepted
<1> QED BY <1>2, <1>3, <1>4 DEF Enqueue

LEMMA TakeOnce ==
  ASSUME TypeOK, NEW l \in Lanes, Once(l), Take(l)
  PROVE  Once(l)'
<1>1. queue[l] \in Seq(Tasks) /\ queue[l] # <<>> /\ Distinct(queue[l])
  BY DEF Take, TypeOK, Once
<1>2. /\ Elems(queue[l]) = Elems(Tail(queue[l])) \cup {Head(queue[l])}
      /\ Head(queue[l]) \notin Elems(Tail(queue[l]))
      /\ Distinct(Tail(queue[l]))
  BY <1>1, TailElems
<1>3. queue'[l] = Tail(queue[l]) /\ held'[l] = Head(queue[l])
  BY DEF Take, TypeOK
<1>4. Queued(l)' = Elems(Tail(queue[l])) /\ Queued(l) = Elems(queue[l])
  BY <1>3 DEF Queued, Elems
<1>5. Waiting(l)' \subseteq Waiting(l)
  BY <1>2, <1>3, <1>4 DEF Waiting
<1>6. executing'[l] = executing[l] /\ future' = future
  BY DEF Take, slotVars, entryVars
<1> QED BY <1>2, <1>3, <1>4, <1>5, <1>6 DEF Once, Accepted

LEMMA StartHeldOnce ==
  ASSUME TypeOK, NEW l \in Lanes, Once(l), StartHeld(l)
  PROVE  Once(l)'
<1>1. /\ queue'[l] = queue[l] /\ held'[l] = NoTask /\ future' = future
      /\ executing'[l] = executing[l] \cup {held[l]}
  BY DEF StartHeld, TypeOK, entryVars
<1>2. held[l] \in Waiting(l)
  BY DEF StartHeld, TypeOK, Waiting
<1>3. Queued(l)' = Queued(l) /\ Waiting(l)' = Queued(l)
  BY <1>1, InLaneTasks DEF Queued, Waiting
<1>4. Queued(l) \subseteq Waiting(l)
  BY DEF Waiting
<1> QED BY <1>1, <1>2, <1>3, <1>4, InLaneTasks DEF Once, Accepted

LEMMA CompleteOnce ==
  ASSUME TypeOK, NEW l \in Lanes, Once(l), NEW t \in Tasks,
         NEW outcome \in Outcomes, Complete(l, t, outcome)
  PROVE  Once(l)'
<1>1. /\ queue'[l] = queue[l] /\ held'[l] = held[l]
      /\ executing'[l] = executing[l] \ {t}
      /\ \A u \in Tasks : Accepted(u) => Accepted(u)'
  BY LaneAssumption DEF Complete, Answer, TypeOK, Accepted
<1>2. Queued(l)' = Queued(l) /\ Waiting(l)' = Waiting(l)
  BY <1>1 DEF Queued, Waiting
<1> QED BY <1>1, <1>2, InLaneTasks DEF Once

LEMMA ClearOnce ==
  ASSUME TypeOK, NEW l \in Lanes, Once(l), Clear(l)
  PROVE  Once(l)'
<1>1. /\ queue'[l] = <<>> /\ held'[l] = held[l] /\ executing'[l] = executing[l]
      /\ \A u \in Tasks : Accepted(u) => Accepted(u)'
  BY DEF Clear, slotVars, TypeOK, Accepted
<1>2. Queued(l)' = {}
  BY <1>1 DEF Queued
<1>3. Waiting(l)' \subseteq Waiting(l)
  BY <1>1, <1>2 DEF Waiting
<1> QED BY <1>1, <1>2, <1>3, InLaneTasks DEF Once, Distinct

(* What a step does to the lanes it is not about, and to the replies. *)
LEMMA OthersKeep ==
  ASSUME TypeOK, NEW l \in Lanes,
         \/ WorkerStep(l) \/ Clear(l) \/ CompleteStep(l)
         \/ \E t \in Tasks, policy \in DropPolicies : Enqueue(l, t, policy)
         \/ \E n \in Limits : SetConcurrency(l, n)
  PROVE  /\ \A t \in Tasks : Accepted(t) => Accepted(t)'
         /\ \A k \in Lanes \ {l} :
              queue'[k] = queue[k] /\ held'[k] = held[k] /\ executing'[k] = executing[k]
<1> USE DEF TypeOK, slotVars, entryVars
<1>1. CASE WorkerStep(l)
  BY <1>1 DEF WorkerStep, WorkerBegin, Take, StartHeld, GetTimeout, Accepted
<1>2. CASE Clear(l)
  BY <1>2 DEF Clear, Accepted
<1>3. ASSUME NEW t \in Tasks, NEW outcome \in Outcomes, Complete(l, t, outcome)
      PROVE  /\ \A u \in Tasks : Accepted(u) => Accepted(u)'
             /\ \A k \in Lanes \ {l} :
                  queue'[k] = queue[k] /\ held'[k] = held[k] /\ executing'[k] = executing[k]
  BY <1>3, LaneAssumption DEF Complete, Answer, Accepted
<1>4. ASSUME NEW t \in Tasks, NEW policy \in DropPolicies, Enqueue(l, t, policy)
      PROVE  /\ \A u \in Tasks : Accepted(u) => Accepted(u)'
             /\ \A k \in Lanes \ {l} :
                  queue'[k] = queue[k] /\ held'[k] = held[k] /\ executing'[k] = executing[k]
  BY <1>4 DEF Enqueue, Put, Accepted
<1>5. ASSUME NEW n \in Limits, SetConcurrency(l, n)
      PROVE  UNCHANGED <<queue, held, executing, future>>
  BY <1>5 DEF SetConcurrency
<1> QED BY <1>1, <1>2, <1>3, <1>4, <1>5 DEF CompleteStep, Accepted

LEMMA OnceStep == TypeOK /\ EntryOnce /\ [LifecycleNext]_vars => EntryOnce'
<1> SUFFICES ASSUME TypeOK, EntryOnce, [LifecycleNext]_vars, NEW k \in Lanes PROVE Once(k)'
  BY DEF EntryOnce, Once, Distinct, Accepted
<1>0. Once(k)
  BY EntryOnceIsOnce
<1>1. CASE UNCHANGED <<queue, held, executing, future>>
  BY <1>0, <1>1, OnceFrame DEF Accepted
<1>2. ASSUME NEW l \in Lanes, WorkerStep(l) \/ CallerStep(l) \/ CompleteStep(l)
      PROVE  Once(k)'
  <2>1. CASE k # l
    BY <1>0, <1>2, <2>1, OthersKeep, OnceFrame DEF CallerStep
  <2>2. CASE k = l
    <3>1. CASE WorkerStep(k)
      <4>1. WorkerBegin(k) \/ GetTimeout(k) => UNCHANGED <<queue, held, executing, future>>
        BY DEF WorkerBegin, GetTimeout, slotVars, entryVars
      <4> QED BY <1>0, <1>1, <3>1, <4>1, TakeOnce, StartHeldOnce DEF WorkerStep
    <3>2. CASE CompleteStep(k)
      BY <1>0, <3>2, CompleteOnce DEF CompleteStep
    <3>3. CASE CallerStep(k)
      <4>1. \A n \in Limits : SetConcurrency(k, n) => UNCHANGED <<queue, held, executing, future>>
        BY DEF SetConcurrency, slotVars, entryVars
      <4> QED BY <1>0, <1>1, <3>3, <4>1, EnqueueOnce, ClearOnce DEF CallerStep
    <3> QED BY <1>2, <2>2, <3>1, <3>2, <3>3
  <2> QED BY <2>1, <2>2
<1>3. ASSUME NEW t \in Tasks, Abandon(t) PROVE Once(k)'
  <2>1. \A u \in Tasks : Accepted(u) => Accepted(u)'
    BY <1>3 DEF Abandon, Accepted, TypeOK
  <2> QED BY <1>0, <1>3, <2>1, OnceFrame DEF Abandon, slotVars
<1>4. CASE UNCHANGED vars
  BY <1>1, <1>4 DEF vars, slotVars, entryVars
<1>5. CASE ResetAllLanes \/ \E l \in Lanes : Stop(l) \/ ResetGeneration(l)
  BY <1>1, <1>5 DEF ResetAllLanes, Stop, ResetGeneration, slotVars, entryVars
<1> QED BY <1>2, <1>3, <1>4, <1>5 DEF LifecycleNext, RestartNext, Next

(* An entry is never in two places of a lane, nor in a lane before it was  *)
(* enqueued: no caller's task runs twice, whatever resets, stops and new   *)
(* generations come between.                                               *)
THEOREM EntryOnceCorrect == LifecycleSpec => []EntryOnce
<1>1. Init => EntryOnce
  BY LaneAssumption DEF Init, EntryOnce, Waiting, Queued
<1> QED BY <1>1, OnceStep, TypeCorrect, PTL DEF LifecycleSpec

(* Whatever the interleaving of starts, completions, rejections and aborts,*)
(* the counter that the worker polls is the number of running tasks, and   *)
(* every running task may still answer its caller.                         *)
THEOREM CounterCorrect == Spec => []CounterExact
<1>1. Init => CounterExact
  BY FS_EmptySet DEF Init, CounterExact
<1> QED BY <1>1, CounterStep, TypeCorrect, EntryOnceCorrect, NormalOperation, PTL DEF Spec

-----------------------------------------------------------------------------
(* No entry is stranded. *)

Attended(l) ==
  /\ Waiting(l) # {} => worker[l] # "none"
  /\ running[l] <=> worker[l] # "none"

LEMMA AttendedFrame ==
  ASSUME NEW l \in Lanes, Attended(l),
         queue'[l] = queue[l], held'[l] = held[l],
         running'[l] = running[l], worker'[l] = worker[l]
  PROVE  Attended(l)'
BY DEF Attended, Waiting, Queued

LEMMA EnqueueAttended ==
  ASSUME TypeOK, NEW l \in Lanes, Attended(l), NEW t \in Tasks,
         NEW policy \in DropPolicies, Enqueue(l, t, policy)
  PROVE  Attended(l)'
<1>1. ASSUME NEW q, Put(l, t, q) PROVE Attended(l)'
  <2>1. worker'[l] # "none" /\ running'[l]
    BY <1>1 DEF Put, StartWorker, workerVars, TypeOK, Attended
  <2> QED BY <2>1 DEF Attended
<1>2. CASE UNCHANGED <<queue, held, workerVars>>
  BY <1>2, AttendedFrame DEF workerVars
<1> QED BY <1>1, <1>2 DEF Enqueue

LEMMA WorkerAttended ==
  ASSUME TypeOK, NEW l \in Lanes, Attended(l), WorkerStep(l)
  PROVE  Attended(l)'
<1>1. CASE worker[l] # "get"
  <2>1. running[l] /\ worker'[l] = "get" /\ running'[l] = running[l]
    BY <1>1 DEF WorkerStep, WorkerBegin, Take, StartHeld, GetTimeout, LoopOrExit,
                TypeOK, Attended
  <2> QED BY <2>1 DEF Attended
<1>2. CASE Take(l)
  BY <1>2 DEF Take, TypeOK, Attended
<1>3. CASE GetTimeout(l)
  <2>1. queue[l] = <<>> /\ held[l] = NoTask
    BY <1>3 DEF GetTimeout, Idle, Attended, TypeOK
  <2>2. /\ queue'[l] = <<>> /\ held'[l] = NoTask
        /\ worker'[l] = "none" /\ running'[l] = FALSE
    BY <1>3, <2>1 DEF GetTimeout, TypeOK
  <2>3. Waiting(l)' = {}
    BY <2>2 DEF Waiting, Queued
  <2> QED BY <2>2, <2>3 DEF Attended
<1> QED BY <1>1, <1>2, <1>3 DEF WorkerStep, WorkerBegin, StartHeld

LEMMA AttendedStep == TypeOK /\ NoStrandedEntry /\ [Next]_vars => NoStrandedEntry'
<1> SUFFICES ASSUME TypeOK, NoStrandedEntry, [Next]_vars, NEW k \in Lanes
             PROVE  Attended(k)'
  BY DEF NoStrandedEntry, Attended
<1>0. Attended(k)
  BY DEF NoStrandedEntry, Attended
<1>1. ASSUME NEW l \in Lanes, WorkerStep(l) PROVE Attended(k)'
  <2>1. CASE k = l
    BY <1>0, <1>1, <2>1, WorkerAttended
  <2>2. CASE k # l
    BY <1>0, <1>1, <2>2, AttendedFrame
       DEF WorkerStep, WorkerBegin, Take, StartHeld, GetTimeout, LoopOrExit, TypeOK
  <2> QED BY <2>1, <2>2
<1>2. ASSUME NEW l \in Lanes, NEW t \in Tasks, NEW policy \in DropPolicies,
             Enqueue(l, t, policy)
      PROVE  Attended(k)'
  <2>1. CASE k = l
    BY <1>0, <1>2, <2>1, EnqueueAttended
  <2>2. CASE k # l
    BY <1>0, <1>2, <2>2, AttendedFrame
       DEF Enqueue, Put, StartWorker, workerVars, TypeOK
  <2> QED BY <2>1, <2>2
<1>3. ASSUME NEW l \in Lanes, Clear(l) PROVE Attended(k)'
  <2>1. /\ held'[k] = held[k] /\ worker'[k] = worker[k] /\ running'[k] = running[k]
        /\ queue'[k] = queue[k] \/ queue'[k] = <<>>
    BY <1>3 DEF Clear, workerVars, TypeOK
  <2>2. Waiting(k)' \subseteq Waiting(k)
    BY <2>1 DEF Waiting, Queued
  <2> QED BY <1>0, <2>1, <2>2 DEF Attended
<1>4. CASE UNCHANGED <<queue, held, workerVars>>
  BY <1>0, <1>4, AttendedFrame DEF workerVars
<1>5. ASSUME NEW l \in Lanes, CompleteStep(l) PROVE UNCHANGED <<queue, held, workerVars>>
  BY <1>5 DEF CompleteStep, Complete
<1>6. ASSUME NEW l \in Lanes, NEW n \in Limits, SetConcurrency(l, n)
      PROVE  UNCHANGED <<queue, held, workerVars>>
  BY <1>6 DEF SetConcurrency
<1>7. ASSUME NEW t \in Tasks, Abandon(t) PROVE UNCHANGED <<queue, held, workerVars>>
  BY <1>7 DEF Abandon
<1>8. CASE UNCHANGED vars
  BY <1>4, <1>8 DEF vars
<1> QED BY <1>1, <1>2, <1>3, <1>4, <1>5, <1>6, <1>7, <1>8 DEF Next, CallerStep

(* A lane with an entry to start has a live worker, for any interleaving   *)
(* of enqueues with the worker's idle exit.                                *)
THEOREM NoStrandedEntryCorrect == Spec => []NoStrandedEntry
<1>1. Init => NoStrandedEntry
  BY DEF Init, NoStrandedEntry, Waiting, Queued
<1> QED BY <1>1, AttendedStep, TypeCorrect, NormalOperation, PTL DEF Spec

-----------------------------------------------------------------------------
(* A step that starts tasks respects the limit. *)

LEMMA OnlyStartHeldStarts ==
  ASSUME TypeOK, [Next]_vars, NEW k \in Lanes, ~ (executing'[k] \subseteq executing[k])
  PROVE  StartHeld(k)
<1>1. executing' # executing
  OBVIOUS
<1>2. \E l \in Lanes : StartHeld(l) \/ CompleteStep(l)
  BY <1>1 DEF Next, vars, slotVars, WorkerStep, WorkerBegin, Take, GetTimeout,
              CallerStep, Enqueue, Put, Clear, SetConcurrency, Abandon
<1>3. ASSUME NEW l \in Lanes, CompleteStep(l) PROVE executing'[k] \subseteq executing[k]
  BY <1>3 DEF CompleteStep, Complete, TypeOK
<1>4. ASSUME NEW l \in Lanes, StartHeld(l), l # k PROVE executing'[k] = executing[k]
  BY <1>4 DEF StartHeld, TypeOK
<1> QED BY <1>2, <1>3, <1>4

(* Tasks start only while fewer than the limit in force are running. *)
THEOREM StartsWithinLimitCorrect == Spec => StartsWithinLimit
<1>1. TypeOK /\ EntryOnce /\ CounterExact /\ [Next]_vars =>
        [\A l \in Lanes :
           ~ (executing'[l] \subseteq executing[l]) =>
             Cardinality(executing'[l]) <= limit[l]]_vars
  <2> SUFFICES ASSUME TypeOK, EntryOnce, CounterExact, [Next]_vars,
                      NEW l \in Lanes, ~ (executing'[l] \subseteq executing[l])
               PROVE  Cardinality(executing'[l]) <= limit[l]
    OBVIOUS
  <2>1. StartHeld(l)
    BY OnlyStartHeldStarts
  <2>2. Cardinality(executing'[l]) = active[l] + 1
    BY <2>1, StartHeldCounts DEF CounterExact
  <2>3. active[l] < limit[l] /\ active[l] \in Int /\ limit[l] \in Nat
    BY <2>1, LaneAssumption DEF StartHeld, SlotFree, TypeOK
  <2> QED BY <2>2, <2>3
<1> QED
  BY <1>1, TypeCorrect, EntryOnceCorrect, CounterCorrect, NormalOperation, PTL
     DEF Spec, StartsWithinLimit

-----------------------------------------------------------------------------
(* No caller is lost. *)

(* The entries of a lane that can still answer their callers. *)
Answerable(l) == Waiting(l) \cup (executing[l] \cap tracked[l])

(* A step at lane l takes no entry out of Answerable(l) whose caller still *)
(* waits and is not one of the lost ones.                                  *)
Keeps(l) ==
  \A t \in Tasks : future'[t] = "pending" /\ t \in Answerable(l) =>
    t \in lost' \cup Answerable(l)'

LEMMA AnswerableFrame ==
  ASSUME NEW l \in Lanes, queue'[l] = queue[l], held'[l] = held[l],
         executing'[l] = executing[l], tracked'[l] = tracked[l]
  PROVE  Keeps(l)
BY DEF Keeps, Answerable, Waiting, Queued

LEMMA PutKeeps ==
  ASSUME TypeOK, NEW l \in Lanes, NEW t \in Tasks, NEW q \in Seq(Tasks),
         Put(l, t, q), Queued(l) \subseteq Elems(q) \cup lost'
  PROVE  Keeps(l) /\ t \in Answerable(l)'
<1>1. Elems(Append(q, t)) = Elems(q) \cup {t}
  BY AppendElems
<1>2. /\ queue'[l] = Append(q, t) /\ held'[l] = held[l]
      /\ executing'[l] = executing[l] /\ tracked'[l] = tracked[l]
  BY DEF Put, slotVars, TypeOK
<1>3. Queued(l)' = Elems(q) \cup {t}
  BY <1>1, <1>2 DEF Queued, Elems
<1> QED BY <1>2, <1>3 DEF Keeps, Answerable, Waiting

LEMMA EnqueueKeeps ==
  ASSUME TypeOK, NEW l \in Lanes, NEW t \in Tasks, NEW policy \in DropPolicies,
         Enqueue(l, t, policy)
  PROVE  Keeps(l) /\ (future'[t] = "pending" => t \in Answerable(l)')
<1>1. queue[l] \in Seq(Tasks) /\ Queued(l) = Elems(queue[l])
  BY InLaneTasks DEF TypeOK
<1>2. CASE Put(l, t, queue[l])
  BY <1>1, <1>2, PutKeeps
<1>3. CASE /\ queue[l] # <<>> /\ lost' = lost \cup {Head(queue[l])}
           /\ Put(l, t, Tail(queue[l]))
  <2>1. Elems(queue[l]) = Elems(Tail(queue[l])) \cup {Head(queue[l])}
    BY <1>1, <1>3, TailElems
  <2>2. Tail(queue[l]) \in Seq(Tasks)
    BY <1>1, <1>3
  <2> QED BY <1>1, <1>3, <2>1, <2>2, PutKeeps
<1>4. CASE future' = [future EXCEPT ![t] = "refused"] /\ UNCHANGED <<queue, held, slotVars>>
  BY <1>4, AnswerableFrame DEF slotVars, TypeOK
<1> QED BY <1>2, <1>3, <1>4 DEF Enqueue

LEMMA WorkerKeeps ==
  ASSUME TypeOK, NEW l \in Lanes, WorkerStep(l)
  PROVE  Keeps(l)
<1>1. CASE WorkerBegin(l) \/ GetTimeout(l)
  BY <1>1, AnswerableFrame DEF WorkerBegin, GetTimeout, slotVars
<1>2. CASE Take(l)
  <2>1. queue[l] \in Seq(Tasks) /\ queue[l] # <<>> /\ held[l] = NoTask
    BY <1>2 DEF Take, TypeOK
  <2>2. Elems(queue[l]) = Elems(Tail(queue[l])) \cup {Head(queue[l])}
    BY <2>1, TailElems
  <2>3. /\ queue'[l] = Tail(queue[l]) /\ held'[l] = Head(queue[l])
        /\ executing'[l] = executing[l] /\ tracked'[l] = tracked[l]
    BY <1>2 DEF Take, slotVars, TypeOK
  <2>4. Queued(l) = Elems(queue[l]) /\ Queued(l)' = Elems(Tail(queue[l]))
    BY <2>3 DEF Queued, Elems
  <2>5. held'[l] # NoTask /\ Waiting(l) = Queued(l)
    BY <2>1, <2>3, LaneAssumption DEF Waiting
  <2>6. Waiting(l)' = Queued(l)' \cup {held'[l]}
    BY <2>5 DEF Waiting
  <2> QED BY <2>2, <2>3, <2>4, <2>5, <2>6 DEF Keeps, Answerable
<1>3. CASE StartHeld(l)
  <2>1. /\ queue'[l] = queue[l] /\ tracked'[l] = tracked[l] \cup {held[l]}
        /\ executing'[l] = executing[l] \cup {held[l]}
    BY <1>3 DEF StartHeld, TypeOK
  <2>2. Queued(l)' = Queued(l)
    BY <2>1 DEF Queued
  <2> QED BY <2>1, <2>2 DEF Keeps, Answerable, Waiting
<1> QED BY <1>1, <1>2, <1>3 DEF WorkerStep

LEMMA CompleteKeeps ==
  ASSUME TypeOK, NEW l \in Lanes, CompleteStep(l)
  PROVE  Keeps(l)
<1> PICK t \in Tasks, outcome \in Outcomes : Complete(l, t, outcome)
  BY DEF CompleteStep
<1>1. /\ queue'[l] = queue[l] /\ held'[l] = held[l]
      /\ executing'[l] = executing[l] \ {t} /\ tracked'[l] = tracked[l] \ {t}
  BY DEF Complete, Release, TypeOK
<1>2. t \in tracked[l] => future'[t] # "pending" \/ t \in lost'
  BY LaneAssumption DEF Complete, Answer, TypeOK
<1>3. Waiting(l)' = Waiting(l)
  BY <1>1 DEF Waiting, Queued
<1> QED BY <1>1, <1>2, <1>3 DEF Keeps, Answerable

LEMMA ClearKeeps ==
  ASSUME TypeOK, NEW l \in Lanes, Clear(l)
  PROVE  Keeps(l)
<1>1. /\ held'[l] = held[l] /\ executing'[l] = executing[l] /\ tracked'[l] = tracked[l]
      /\ \A t \in Tasks : t \in Queued(l) => future'[t] # "pending"
  BY DEF Clear, slotVars, TypeOK
<1> QED BY <1>1 DEF Keeps, Answerable, Waiting

LEMMA ResetKeeps ==
  ASSUME TypeOK, NEW l \in Lanes, ResetAllLanes
  PROVE  Keeps(l)
<1>1. Waiting(l)' = Waiting(l) /\ executing[l] \subseteq lost'
  BY DEF ResetAllLanes, Waiting, Queued
<1> QED BY <1>1 DEF Keeps, Answerable

(* What NoLostCaller says of one caller. *)
Reachable(t) == t \in lost \/ \E l \in Lanes : t \in Answerable(l)

(* A step keeps the callers of every lane, and a caller that starts to     *)
(* wait has an entry.                                                      *)
LEMMA EveryLaneKeeps ==
  ASSUME TypeOK, [LifecycleNext]_vars
  PROVE  /\ \A k \in Lanes : Keeps(k)
         /\ lost \subseteq lost'
         /\ \A t \in Tasks : future'[t] = "pending" /\ future[t] # "pending" => Reachable(t)'
<1>1. CASE UNCHANGED <<queue, held, executing, tracked, future>> /\ lost \subseteq lost'
  BY <1>1, AnswerableFrame
<1>2. ASSUME NEW l \in Lanes, NEW t \in Tasks, NEW policy \in DropPolicies,
             Enqueue(l, t, policy)
      PROVE  /\ \A k \in Lanes : Keeps(k)
             /\ lost \subseteq lost'
             /\ \A u \in Tasks : future'[u] = "pending" /\ future[u] # "pending" => Reachable(u)'
  <2>1. Keeps(l) /\ (future'[t] = "pending" => t \in Answerable(l)')
    BY <1>2, EnqueueKeeps
  <2>2. \A k \in Lanes \ {l} : Keeps(k)
    BY <1>2, AnswerableFrame DEF Enqueue, Put, slotVars, TypeOK
  <2>3. lost \subseteq lost' /\ \A u \in Tasks \ {t} : future'[u] = future[u]
    BY <1>2 DEF Enqueue, Put, TypeOK
  <2> QED BY <2>1, <2>2, <2>3 DEF Reachable
<1>3. ASSUME NEW l \in Lanes, WorkerStep(l) \/ CompleteStep(l) \/ Clear(l)
      PROVE  /\ \A k \in Lanes : Keeps(k)
             /\ lost \subseteq lost'
             /\ \A u \in Tasks : future'[u] = "pending" => future[u] = "pending"
  <2>1. Keeps(l)
    BY <1>3, WorkerKeeps, CompleteKeeps, ClearKeeps
  <2>2. ASSUME NEW k \in Lanes \ {l} PROVE Keeps(k)
    <3>1. /\ queue'[k] = queue[k] /\ held'[k] = held[k]
          /\ executing'[k] = executing[k] /\ tracked'[k] = tracked[k]
      BY <1>3 DEF WorkerStep, WorkerBegin, Take, StartHeld, GetTimeout, CompleteStep,
                  Complete, Release, Clear, slotVars, TypeOK
    <3> QED BY <3>1, AnswerableFrame
  <2>3. lost \subseteq lost'
    BY <1>3 DEF WorkerStep, WorkerBegin, Take, StartHeld, GetTimeout, CompleteStep,
                Complete, Clear, entryVars
  <2>4. ASSUME NEW u \in Tasks, future'[u] = "pending" PROVE future[u] = "pending"
    <3>1. CASE WorkerStep(l)
      BY <2>4, <3>1 DEF WorkerStep, WorkerBegin, Take, StartHeld, GetTimeout, entryVars
    <3>2. CASE CompleteStep(l)
      BY <2>4, <3>2, LaneAssumption DEF CompleteStep, Complete, Answer, TypeOK
    <3>3. CASE Clear(l)
      BY <2>4, <3>3 DEF Clear, TypeOK
    <3> QED BY <1>3, <3>1, <3>2, <3>3
  <2> QED BY <2>1, <2>2, <2>3, <2>4
<1>4. ASSUME NEW t \in Tasks, Abandon(t)
      PROVE  /\ UNCHANGED <<queue, held, executing, tracked, lost>>
             /\ \A u \in Tasks : future'[u] = "pending" => future[u] = "pending"
  BY <1>4 DEF Abandon, slotVars, TypeOK
<1>5. CASE ResetAllLanes
  <2>1. future' = future /\ lost \subseteq lost'
    BY <1>5 DEF ResetAllLanes
  <2> QED BY <1>5, <2>1, ResetKeeps
<1>6. ASSUME NEW l \in Lanes, Stop(l) \/ ResetGeneration(l) \/ \E n \in Limits : SetConcurrency(l, n)
      PROVE  UNCHANGED <<queue, held, executing, tracked, future>> /\ lost \subseteq lost'
  BY <1>6 DEF Stop, ResetGeneration, SetConcurrency, slotVars, entryVars
<1>7. CASE UNCHANGED vars
  BY <1>1, <1>7 DEF vars, slotVars, entryVars
<1>8. CASE \E t \in Tasks : Abandon(t)
  BY <1>4, <1>8, AnswerableFrame
<1> QED BY <1>1, <1>2, <1>3, <1>5, <1>6, <1>7, <1>8
        DEF LifecycleNext, RestartNext, Next, CallerStep

(* A caller that waits has an entry that can still answer it, or is one of *)
(* those the code forgets by design: a drop policy "old", a CancelledError,*)
(* a reset of the lanes.                                                   *)
THEOREM NoLostCallerCorrect == LifecycleSpec => []NoLostCaller
<1>1. Init => NoLostCaller
  BY DEF Init, NoLostCaller
<1>2. TypeOK /\ NoLostCaller /\ [LifecycleNext]_vars => NoLostCaller'
  <2> SUFFICES ASSUME TypeOK, NoLostCaller, [LifecycleNext]_vars,
                      NEW t \in Tasks, future'[t] = "pending"
               PROVE  Reachable(t)'
    BY DEF NoLostCaller, Reachable, Answerable
  <2>1. /\ \A k \in Lanes : Keeps(k)
        /\ lost \subseteq lost'
        /\ future[t] # "pending" => Reachable(t)'
    BY EveryLaneKeeps
  <2>2. CASE future[t] = "pending"
    <3>1. Reachable(t)
      BY <2>2 DEF NoLostCaller, Reachable, Answerable
    <3> QED BY <2>1, <3>1 DEF Reachable, Keeps
  <2> QED BY <2>1, <2>2
<1> QED BY <1>1, <1>2, TypeCorrect, PTL DEF LifecycleSpec

-----------------------------------------------------------------------------
(* The refinement.  A lane in normal operation implements FifoExecutor:    *)
(* every step of Lane is a step of the executor, or changes nothing the    *)
(* executor shows.                                                         *)

(* The line of those who wait, when the worker holds h and when it holds   *)
(* nothing.                                                                *)

LEMMA HeldLine ==
  ASSUME NEW S, NEW h \in S, NEW q \in Seq(S)
  PROVE  /\ <<h>> \o q \in Seq(S) /\ <<h>> \o q # <<>>
         /\ Head(<<h>> \o q) = h /\ Tail(<<h>> \o q) = q
         /\ Len(<<h>> \o q) = Len(q) + 1
         /\ \A i \in 1..Len(q) : (<<h>> \o q)[i + 1] = q[i]
<1>1. /\ <<h>> \in Seq(S) /\ Len(<<h>>) = 1 /\ <<h>>[1] = h
  OBVIOUS
<1>2. /\ <<h>> \o q \in Seq(S) /\ Len(<<h>> \o q) = Len(q) + 1
      /\ (<<h>> \o q)[1] = h
      /\ \A i \in 1..Len(q) : (<<h>> \o q)[i + 1] = q[i]
  BY <1>1
<1>3. /\ Tail(<<h>> \o q) \in Seq(S) /\ Len(Tail(<<h>> \o q)) = Len(q)
      /\ \A i \in 1..Len(q) : Tail(<<h>> \o q)[i] = q[i]
  BY <1>2
<1>4. Tail(<<h>> \o q) = q
  BY <1>3
<1> QED BY <1>2, <1>4

LEMMA EmptyLine ==
  ASSUME NEW S, NEW q \in Seq(S)
  PROVE  <<>> \o q = q
OBVIOUS

LEMMA HeadTail ==
  ASSUME NEW S, NEW q \in Seq(S), q # <<>>
  PROVE  <<Head(q)>> \o Tail(q) = q
<1>1. Head(q) \in S /\ Tail(q) \in Seq(S) /\ Len(Tail(q)) + 1 = Len(q)
  OBVIOUS
<1>2. \A i \in 1..Len(Tail(q)) : (<<Head(q)>> \o Tail(q))[i + 1] = q[i + 1]
  BY <1>1, HeldLine
<1> DEFINE r == <<Head(q)>> \o Tail(q)
<1>3. r \in Seq(S) /\ Len(r) = Len(q) /\ r[1] = q[1]
  BY <1>1, HeldLine
<1>4. ASSUME NEW i \in 1..Len(q) PROVE r[i] = q[i]
  <2>1. CASE i = 1
    BY <1>3, <2>1
  <2>2. CASE i # 1
    <3>1. i - 1 \in 1..Len(Tail(q)) /\ (i - 1) + 1 = i
      BY <1>1, <2>2
    <3> QED BY <1>2, <3>1
  <2> QED BY <2>1, <2>2
<1> HIDE DEF r
<1> QED BY <1>3, <1>4 DEF r

LEMMA AppendToLine ==
  ASSUME NEW S, NEW h \in S, NEW q \in Seq(S), NEW t \in S
  PROVE  <<h>> \o Append(q, t) = Append(<<h>> \o q, t)
OBVIOUS

(* The first of a sequence, and the rest behind its second. *)
LEMMA FirstOnly ==
  ASSUME NEW S, NEW r \in Seq(S), r # <<>>
  PROVE  SubSeq(r, 1, 1) = <<r[1]>>
<1>1. r[1] \in S
  OBVIOUS
<1>2. /\ SubSeq(r, 1, 1) \in Seq(S) /\ Len(SubSeq(r, 1, 1)) = 1
      /\ SubSeq(r, 1, 1)[1] = r[1]
  BY <1>1, SubSeqProperties
<1>3. <<r[1]>> \in Seq(S) /\ Len(<<r[1]>>) = 1 /\ <<r[1]>>[1] = r[1]
  BY <1>1
<1>4. \A i \in 1..Len(SubSeq(r, 1, 1)) : SubSeq(r, 1, 1)[i] = <<r[1]>>[i]
  BY <1>2, <1>3
<1> QED BY <1>2, <1>3, <1>4, SeqEqual

(* Forgetting the first entry behind the worker, or all of them. *)
LEMMA DropFirst ==
  ASSUME NEW S, NEW q \in Seq(S), q # <<>>
  PROVE  SubSeq(q, 1, 0) \o SubSeq(q, 2, Len(q)) = Tail(q)
<1>1. SubSeq(q, 1, 0) = <<>>
  BY SubSeqEmpty
<1>2. SubSeq(q, 2, Len(q)) = Tail(q) /\ Tail(q) \in Seq(S)
  BY TailIsSubSeq
<1> QED BY <1>1, <1>2, EmptyLine

LEMMA DropSecond ==
  ASSUME NEW S, NEW h \in S, NEW q \in Seq(S), q # <<>>
  PROVE  SubSeq(<<h>> \o q, 1, 1) \o SubSeq(<<h>> \o q, 3, Len(<<h>> \o q)) = <<h>> \o Tail(q)
<1> DEFINE r == <<h>> \o q
<1>1. /\ r \in Seq(S) /\ r # <<>> /\ Len(r) = Len(q) + 1 /\ r[1] = h
      /\ Len(q) \in Nat \ {0}
      /\ \A i \in 1..Len(q) : r[i + 1] = q[i]
  BY HeldLine
<1> HIDE DEF r
<1>2. SubSeq(r, 1, 1) = <<h>>
  BY <1>1, FirstOnly
<1>3. /\ SubSeq(r, 3, Len(r)) \in Seq(S) /\ Len(SubSeq(r, 3, Len(r))) = Len(q) - 1
      /\ \A i \in 1..(Len(q) - 1) : SubSeq(r, 3, Len(r))[i] = r[i + 2]
  <2>1. \A i \in 3..Len(r) : r[i] \in S
    BY <1>1
  <2>2. /\ SubSeq(r, 3, Len(r)) \in Seq(S)
        /\ Len(SubSeq(r, 3, Len(r))) = IF 3 <= Len(r) THEN Len(r) - 3 + 1 ELSE 0
        /\ \A i \in 1..(Len(r) - 3 + 1) : SubSeq(r, 3, Len(r))[i] = r[3 + i - 1]
    <3>1. 3 \in Int /\ Len(r) \in Int
      BY <1>1
    <3> HIDE <1>1
    <3> QED BY <2>1, <3>1, SubSeqProperties
  <2>3. Len(r) - 3 + 1 = Len(q) - 1 /\ (~(3 <= Len(r)) => Len(q) - 1 = 0)
    <3>1. \A m, n \in Nat : m # 0 /\ n = m + 1 =>
            n - 3 + 1 = m - 1 /\ (~(3 <= n) => m - 1 = 0)
      OBVIOUS
    <3>2. Len(q) \in Nat /\ Len(q) # 0 /\ Len(r) \in Nat /\ Len(r) = Len(q) + 1
      BY <1>1
    <3> QED BY <3>1, <3>2
  <2>4. \A i \in 1..(Len(q) - 1) : 3 + i - 1 = i + 2
    BY <1>1
  <2>5. Len(SubSeq(r, 3, Len(r))) = Len(q) - 1
    BY <1>1, <2>2, <2>3
  <2> QED BY <2>2, <2>3, <2>4, <2>5
<1>4. ASSUME NEW i \in 1..(Len(q) - 1) PROVE r[i + 2] = Tail(q)[i]
  <2>1. i + 1 \in 1..Len(q) /\ (i + 1) + 1 = i + 2
    BY <1>1
  <2>2. Tail(q)[i] = q[i + 1]
    BY <1>1
  <2> QED BY <1>1, <2>1, <2>2
<1>5. Tail(q) \in Seq(S) /\ Len(Tail(q)) = Len(q) - 1
  BY <1>1
<1>6. SubSeq(r, 3, Len(r)) = Tail(q)
  BY <1>3, <1>4, <1>5, SeqEqual
<1> QED BY <1>2, <1>6 DEF r

LEMMA KeepHeld ==
  ASSUME NEW S, NEW h \in S, NEW q \in Seq(S)
  PROVE  /\ SubSeq(<<h>> \o q, 1, 1) = <<h>>
         /\ {(<<h>> \o q)[i] : i \in 2..Len(<<h>> \o q)} = Elems(q)
<1> DEFINE r == <<h>> \o q
<1>1. /\ r \in Seq(S) /\ r # <<>> /\ Len(r) = Len(q) + 1 /\ r[1] = h /\ Len(q) \in Nat
      /\ \A i \in 1..Len(q) : r[i + 1] = q[i]
  BY HeldLine
<1> HIDE DEF r
<1>2. SubSeq(r, 1, 1) = <<h>>
  BY <1>1, FirstOnly
<1>3. \A i \in 2..Len(r) : i - 1 \in 1..Len(q) /\ (i - 1) + 1 = i
  BY <1>1
<1>4. \A i \in 1..Len(q) : i + 1 \in 2..Len(r)
  BY <1>1
<1>5. ASSUME NEW i \in 2..Len(r) PROVE r[i] \in Elems(q)
  <2>1. i - 1 \in 1..Len(q) /\ r[i] = q[i - 1]
    BY <1>1, <1>3
  <2> QED BY <2>1 DEF Elems
<1>6. Elems(q) \subseteq {r[i] : i \in 2..Len(r)}
  <2> SUFFICES ASSUME NEW i \in 1..Len(q) PROVE q[i] \in {r[k] : k \in 2..Len(r)}
    BY DEF Elems
  <2>1. i + 1 \in 2..Len(r) /\ r[i + 1] = q[i]
    BY <1>1, <1>4
  <2> QED BY <2>1
<1> QED BY <1>2, <1>5, <1>6 DEF r

-----------------------------------------------------------------------------
(* The steps. *)

Hand(l) == IF held[l] = NoTask THEN <<>> ELSE <<held[l]>>
Line(l) == Hand(l) \o queue[l]

LEMMA LineIsLine == WaitingLine = [l \in Lanes |-> Line(l)]
BY DEF WaitingLine, Line, Hand

LEMMA LineOf ==
  ASSUME TypeOK, NEW l \in Lanes
  PROVE  /\ queue[l] \in Seq(Tasks)
         /\ held[l] = NoTask => Line(l) = queue[l]
         /\ held[l] # NoTask => held[l] \in Tasks /\ Line(l) = <<held[l]>> \o queue[l]
<1>1. queue[l] \in Seq(Tasks)
  BY DEF TypeOK
<1>2. held[l] # NoTask => held[l] \in Tasks
  BY DEF TypeOK
<1> QED BY <1>1, <1>2, EmptyLine DEF Line, Hand

LEMMA SameCardinality == \A X : Executor!Cardinality(X) = Cardinality(X)
BY DEF Executor!Cardinality, Cardinality

(* A step that leaves queues and hands alone shows no change of the line.  *)
LEMMA LineFrame ==
  ASSUME UNCHANGED <<queue, held>>
  PROVE  WaitingLine' = WaitingLine
BY DEF WaitingLine

LEMMA WorkerSteps ==
  ASSUME TypeOK, EntryOnce, CounterExact, NEW l \in Lanes, WorkerStep(l)
  PROVE  [Executor!Next]_(Executor!vars)
<1>1. CASE WorkerBegin(l) \/ GetTimeout(l)
  <2>1. UNCHANGED <<queue, held, executing, limit, future>>
    BY <1>1 DEF WorkerBegin, GetTimeout, slotVars, entryVars
  <2> QED BY <2>1, LineFrame DEF Executor!vars
<1>2. CASE Take(l)
  <2>1. /\ queue[l] \in Seq(Tasks) /\ queue[l] # <<>> /\ held[l] = NoTask
        /\ Head(queue[l]) \in Tasks
    BY <1>2 DEF Take, TypeOK
  <2>2. /\ queue'[l] = Tail(queue[l]) /\ held'[l] = Head(queue[l])
        /\ \A k \in Lanes \ {l} : queue'[k] = queue[k] /\ held'[k] = held[k]
    BY <1>2 DEF Take, TypeOK
  <2>3. Line(l)' = Line(l)
    BY <2>1, <2>2, HeadTail, EmptyLine, LaneAssumption DEF Line, Hand
  <2>4. \A k \in Lanes \ {l} : Line(k)' = Line(k)
    BY <2>2 DEF Line, Hand
  <2>5. WaitingLine' = WaitingLine
    BY <2>3, <2>4 DEF WaitingLine, Line, Hand
  <2>6. UNCHANGED <<executing, limit, future>>
    BY <1>2 DEF Take, slotVars, entryVars
  <2> QED BY <2>5, <2>6 DEF Executor!vars
<1>3. CASE StartHeld(l)
  <2>1. /\ held[l] \in Tasks /\ held[l] # NoTask /\ queue[l] \in Seq(Tasks)
        /\ Line(l) = <<held[l]>> \o queue[l]
    BY <1>3, LaneAssumption, LineOf DEF StartHeld, TypeOK
  <2>2. Line(l) # <<>> /\ Head(Line(l)) = held[l] /\ Tail(Line(l)) = queue[l]
    BY <2>1, HeldLine
  <2>3. held[l] \notin executing[l]
    BY <2>1 DEF EntryOnce, Waiting
  <2>4. Cardinality(executing[l]) < limit[l]
    BY <1>3 DEF StartHeld, SlotFree, CounterExact
  <2>5. /\ queue' = queue /\ held'[l] = NoTask
        /\ \A k \in Lanes \ {l} : held'[k] = held[k]
        /\ executing' = [executing EXCEPT ![l] = @ \cup {held[l]}]
        /\ UNCHANGED <<limit, future>>
    BY <1>3 DEF StartHeld, TypeOK, entryVars
  <2>9. queue'[l] = queue[l] /\ <<>> \o queue[l] = queue[l]
    BY <2>1, <2>5, EmptyLine
  <2>6. Line(l)' = queue[l] /\ \A k \in Lanes \ {l} : Line(k)' = Line(k)
    BY <2>5, <2>9 DEF Line, Hand
  <2>7. WaitingLine' = [WaitingLine EXCEPT ![l] = Tail(@)] /\ WaitingLine[l] = Line(l)
    BY <2>2, <2>6, LineIsLine DEF WaitingLine, Line, Hand
  <2>8. Executor!Begin(l)
    BY <2>2, <2>3, <2>4, <2>5, <2>7, SameCardinality DEF Executor!Begin
  <2> QED BY <2>8 DEF Executor!Next
<1> QED BY <1>1, <1>2, <1>3 DEF WorkerStep

LEMMA CompleteSteps ==
  ASSUME TypeOK, CounterExact, NEW l \in Lanes, CompleteStep(l)
  PROVE  Executor!Next
<1> PICK t \in Tasks, outcome \in Outcomes : Complete(l, t, outcome)
  BY DEF CompleteStep
<1>1. /\ t \in executing[l] /\ t \in tracked[l]
      /\ executing' = [executing EXCEPT ![l] = @ \ {t}]
      /\ UNCHANGED <<queue, held, limit>>
  BY DEF Complete, CounterExact
<1> DEFINE o == IF outcome = "cancelled" THEN "pending" ELSE outcome
<1>2. o \in {"result", "error", "pending"}
  BY LaneAssumption
<1>3. future' = [future EXCEPT ![t] = IF @ = "pending" THEN o ELSE @]
  BY <1>1 DEF Complete, Answer, TypeOK
<1>4. WaitingLine' = WaitingLine
  BY <1>1, LineFrame
<1> HIDE DEF o
<1>5. Executor!Finish(l, t)
  BY <1>1, <1>2, <1>3, <1>4 DEF Executor!Finish
<1> QED BY <1>5 DEF Executor!Next

(* Enqueue puts t behind the line, or behind what is left of it.           *)
LEMMA PutLine ==
  ASSUME TypeOK, NEW l \in Lanes, NEW t \in Tasks, NEW q \in Seq(Tasks), Put(l, t, q)
  PROVE  /\ WaitingLine' = [WaitingLine EXCEPT ![l] = Append(Hand(l) \o q, t)]
         /\ future[t] = "none" /\ future' = [future EXCEPT ![t] = "pending"]
         /\ UNCHANGED <<executing, limit>>
<1>1. /\ queue'[l] = Append(q, t) /\ held' = held
      /\ \A k \in Lanes \ {l} : queue'[k] = queue[k]
      /\ future[t] = "none" /\ future' = [future EXCEPT ![t] = "pending"]
      /\ UNCHANGED <<executing, limit>>
  BY DEF Put, slotVars, TypeOK
<1>2. Line(l)' = Append(Hand(l) \o q, t)
  <2>1. CASE held[l] = NoTask
    BY <1>1, <2>1, EmptyLine DEF Line, Hand
  <2>2. CASE held[l] # NoTask
    <3>1. held[l] \in Tasks
      BY <2>2 DEF TypeOK
    <3>2. Hand(l) \o q = <<held[l]>> \o q /\ Line(l)' = <<held[l]>> \o Append(q, t)
      BY <1>1, <2>2 DEF Line, Hand
    <3> QED BY <3>1, <3>2, AppendToLine
  <2> QED BY <2>1, <2>2
<1>3. \A k \in Lanes \ {l} : Line(k)' = Line(k)
  BY <1>1 DEF Line, Hand
<1>4. WaitingLine' = [WaitingLine EXCEPT ![l] = Append(Hand(l) \o q, t)]
  BY <1>2, <1>3, LineIsLine DEF WaitingLine, Line, Hand
<1> QED BY <1>1, <1>4

LEMMA EnqueueSteps ==
  ASSUME TypeOK, NEW l \in Lanes, NEW t \in Tasks, NEW policy \in DropPolicies,
         Enqueue(l, t, policy)
  PROVE  Executor!Next
<1>1. CASE /\ future[t] = "none"
           /\ future' = [future EXCEPT ![t] = "refused"]
           /\ UNCHANGED <<queue, held, slotVars, limit>>
  <2>1. Executor!Refuse(t)
    BY <1>1, LineFrame DEF Executor!Refuse, slotVars
  <2> QED BY <2>1 DEF Executor!Next
<1>2. CASE Put(l, t, queue[l])
  <2>1. /\ WaitingLine' = [WaitingLine EXCEPT ![l] = Append(@, t)]
        /\ future[t] = "none" /\ future' = [future EXCEPT ![t] = "pending"]
        /\ UNCHANGED <<executing, limit>>
    <3>1. queue[l] \in Seq(Tasks) /\ WaitingLine[l] = Hand(l) \o queue[l]
      BY LineIsLine DEF TypeOK, Line
    <3>2. /\ WaitingLine' = [WaitingLine EXCEPT ![l] = Append(Hand(l) \o queue[l], t)]
          /\ future[t] = "none" /\ future' = [future EXCEPT ![t] = "pending"]
          /\ UNCHANGED <<executing, limit>>
      BY <1>2, <3>1, PutLine
    <3> QED BY <3>1, <3>2
  <2>2. Executor!Submit(l, t)
    BY <2>1 DEF Executor!Submit
  <2> QED BY <2>2 DEF Executor!Next
<1>3. CASE queue[l] # <<>> /\ Put(l, t, Tail(queue[l]))
  <2> DEFINE i == IF held[l] = NoTask THEN 1 ELSE 2
             r == Hand(l) \o Tail(queue[l])
             w == Line(l)
  <2>1. queue[l] \in Seq(Tasks) /\ Tail(queue[l]) \in Seq(Tasks)
    BY <1>3 DEF TypeOK
  <2>2. /\ WaitingLine' = [WaitingLine EXCEPT ![l] = Append(r, t)]
        /\ future[t] = "none" /\ future' = [future EXCEPT ![t] = "pending"]
        /\ UNCHANGED <<executing, limit>>
    BY <1>3, <2>1, PutLine
  <2>3. i \in 1..Len(w) /\ r = SubSeq(w, 1, i - 1) \o SubSeq(w, i + 1, Len(w))
    <3>1. CASE held[l] = NoTask
      <4>1. w = queue[l] /\ i = 1 /\ r = Tail(queue[l])
        BY <2>1, <3>1, LineOf, EmptyLine DEF Hand
      <4>2. 1 \in 1..Len(queue[l])
        BY <1>3, <2>1
      <4>3. SubSeq(queue[l], 1, 0) \o SubSeq(queue[l], 2, Len(queue[l])) = Tail(queue[l])
        BY <1>3, <2>1, DropFirst
      <4> HIDE DEF w, i, r
      <4>4. i - 1 = 0 /\ i + 1 = 2
        BY <4>1
      <4> QED BY <4>1, <4>2, <4>3, <4>4
    <3>2. CASE held[l] # NoTask
      <4>1. held[l] \in Tasks /\ w = <<held[l]>> \o queue[l]
        BY <3>2, LineOf
      <4>2. i = 2 /\ r = <<held[l]>> \o Tail(queue[l])
        BY <3>2 DEF Hand
      <4>3. Len(w) = Len(queue[l]) + 1 /\ Len(queue[l]) \in Nat /\ Len(queue[l]) # 0
        BY <1>3, <2>1, <4>1, HeldLine
      <4>4. SubSeq(w, 1, 1) \o SubSeq(w, 3, Len(w)) = <<held[l]>> \o Tail(queue[l])
        BY <1>3, <2>1, <4>1, DropSecond
      <4> HIDE DEF w, i, r
      <4>5. i - 1 = 1 /\ i + 1 = 3 /\ 2 \in 1..Len(w)
        BY <4>2, <4>3
      <4> QED BY <4>2, <4>4, <4>5
    <3> QED BY <3>1, <3>2
  <2>4. WaitingLine[l] = w
    BY LineIsLine
  <2> HIDE DEF w, i, r
  <2>5. Executor!SubmitDropping(l, t, i)
    BY <2>2, <2>3, <2>4 DEF Executor!SubmitDropping
  <2> QED BY <2>3, <2>4, <2>5 DEF Executor!Next
<1> QED BY <1>1, <1>2, <1>3 DEF Enqueue, slotVars

(* Clear rejects all but the entry the worker holds.                       *)
LEMMA ClearSteps ==
  ASSUME TypeOK, NEW l \in Lanes, Clear(l)
  PROVE  Executor!Next
<1> DEFINE k == IF held[l] = NoTask THEN 0 ELSE 1
           w == Line(l)
           rejected == {w[i] : i \in k + 1 .. Len(w)}
<1>1. /\ queue[l] \in Seq(Tasks) /\ queue'[l] = <<>> /\ held' = held
      /\ \A m \in Lanes \ {l} : queue'[m] = queue[m]
      /\ UNCHANGED <<executing, limit>>
  BY DEF Clear, TypeOK, slotVars
<1>2. /\ k \in 0..Len(w) /\ Hand(l) = SubSeq(w, 1, k) /\ Hand(l) \o <<>> = Hand(l)
      /\ rejected = Elems(queue[l])
  <2>1. CASE held[l] = NoTask
    <3>1. k = 0 /\ w = queue[l] /\ Hand(l) = <<>>
      BY <2>1, LineOf DEF Hand
    <3>2. SubSeq(w, 1, 0) = <<>> /\ <<>> \o <<>> = <<>>
      BY SubSeqEmpty
    <3>3. rejected = {queue[l][i] : i \in 1..Len(queue[l])}
      BY <3>1
    <3>4. 0 \in 0..Len(w)
      BY <1>1, <3>1
    <3> QED BY <3>1, <3>2, <3>3, <3>4 DEF Elems
  <2>2. CASE held[l] # NoTask
    <3>1. k = 1 /\ held[l] \in Tasks /\ w = <<held[l]>> \o queue[l] /\ Hand(l) = <<held[l]>>
      BY <2>2, LineOf DEF Hand
    <3>2. SubSeq(w, 1, 1) = <<held[l]>> /\ {w[i] : i \in 2..Len(w)} = Elems(queue[l])
      BY <1>1, <3>1, KeepHeld
    <3>3. 1 \in 0..Len(w)
      <4>1. Len(w) = Len(queue[l]) + 1 /\ Len(queue[l]) \in Nat
        BY <1>1, <3>1, HeldLine
      <4> HIDE DEF w
      <4> QED BY <4>1
    <3>4. <<held[l]>> \o <<>> = <<held[l]>>
      BY <3>1
    <3> HIDE DEF w, k
    <3>5. k + 1 = 2
      BY <3>1
    <3> QED BY <3>1, <3>2, <3>3, <3>4, <3>5
  <2> QED BY <2>1, <2>2
<1>3. Line(l)' = SubSeq(w, 1, k) /\ \A m \in Lanes \ {l} : Line(m)' = Line(m)
  <2>1. Line(l)' = Hand(l) \o <<>>
    BY <1>1 DEF Line, Hand
  <2> HIDE DEF w, k, rejected
  <2> QED BY <1>1, <1>2, <2>1 DEF Line, Hand
<1>4. WaitingLine[l] = w /\ WaitingLine' = [WaitingLine EXCEPT ![l] = SubSeq(w, 1, k)]
  <2> HIDE DEF k
  <2> QED BY <1>3, LineIsLine DEF WaitingLine, Line, Hand
<1>5. future' = [t \in Tasks |-> IF t \in rejected /\ future[t] = "pending"
                                 THEN "cleared" ELSE future[t]]
  <2> HIDE DEF w, k, rejected
  <2> QED BY <1>2, InLaneTasks DEF Clear
<1>6. Executor!RejectAfter(l, k)
  <2> HIDE DEF w, k
  <2> QED BY <1>1, <1>4, <1>5 DEF Executor!RejectAfter
<1> HIDE DEF w, k
<1> QED BY <1>2, <1>4, <1>6 DEF Executor!Next

LEMMA ResizeSteps ==
  ASSUME TypeOK, NEW l \in Lanes, NEW n \in Limits, SetConcurrency(l, n)
  PROVE  Executor!Next
<1>1. Executor!Resize(l, n)
  BY LineFrame DEF SetConcurrency, Executor!Resize, slotVars, entryVars
<1> QED BY <1>1 DEF Executor!Next

LEMMA AbandonSteps ==
  ASSUME NEW t \in Tasks, Abandon(t)
  PROVE  Executor!Next
<1>1. Executor!GiveUp(t)
  BY LineFrame DEF Abandon, Executor!GiveUp, slotVars
<1> QED BY <1>1 DEF Executor!Next

LEMMA ExecutorInit == Init => Executor!Init
<1> SUFFICES ASSUME Init PROVE Executor!Init
  OBVIOUS
<1>1. \A l \in Lanes : Line(l) = <<>>
  BY DEF Init, Line, Hand
<1>2. WaitingLine = [l \in Lanes |-> <<>>]
  BY <1>1, LineIsLine
<1> QED BY <1>2 DEF Init, Executor!Init

LEMMA ExecutorStep ==
  TypeOK /\ EntryOnce /\ CounterExact /\ [Next]_vars => [Executor!Next]_(Executor!vars)
<1> SUFFICES ASSUME TypeOK, EntryOnce, CounterExact, [Next]_vars
             PROVE  [Executor!Next]_(Executor!vars)
  OBVIOUS
<1>1. CASE \E l \in Lanes : WorkerStep(l)
  BY <1>1, WorkerSteps
<1>2. CASE \E l \in Lanes : CallerStep(l)
  BY <1>2, EnqueueSteps, ClearSteps, ResizeSteps DEF CallerStep
<1>3. CASE \E l \in Lanes : CompleteStep(l)
  BY <1>3, CompleteSteps
<1>4. CASE \E t \in Tasks : Abandon(t)
  BY <1>4, AbandonSteps
<1>5. CASE UNCHANGED vars
  BY <1>5, LineFrame DEF vars, slotVars, entryVars, Executor!vars
<1> QED BY <1>1, <1>2, <1>3, <1>4, <1>5 DEF Next

(* In normal operation a lane keeps the executor's promise to its callers: *)
(* _process_queue starts the coroutines in the order enqueue received      *)
(* them, each once and within max_concurrent, and a future is answered     *)
(* once, whatever clears, drops, limit changes and timeouts come between.  *)
THEOREM LaneImplementsFifoExecutor == Spec => ImplementsFifoExecutor
<1> QED BY ExecutorInit, ExecutorStep, TypeCorrect, EntryOnceCorrect, CounterCorrect,
           NormalOperation, PTL DEF Spec, ImplementsFifoExecutor, Executor!Spec
=============================================================================
