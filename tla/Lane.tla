-------------------------------- MODULE Lane --------------------------------
(***************************************************************************)
(* The lanes of agents/queuing/lane.py.  A lane is a FIFO queue of entries *)
(* (a coroutine function, the future its caller awaits, an id and the      *)
(* generation of the lane at enqueue), one background worker that takes    *)
(* entries and starts them while fewer than limit are active, and the      *)
(* counters the worker and the finishing tasks share.                      *)
(*                                                                         *)
(* Everything runs on one asyncio loop: an action is what one coroutine or *)
(* callback does between two suspension points.  An entry is a member of   *)
(* Tasks; each is enqueued at most once, so Tasks also plays the ids.      *)
(***************************************************************************)
EXTENDS Integers, Sequences, FiniteSets

CONSTANTS
  Lanes,         \* the Lane objects of the process
  Tasks,         \* the entries ever enqueued
  NoTask,        \* "the worker holds no entry"
  Limits,        \* the values max_concurrent may take
  Outcomes,      \* how a task body may end
  DropPolicies,  \* the drop_policy arguments callers pass
  MaxGeneration  \* bound: how often the lanes are reset

ASSUME LaneAssumption ==
  /\ NoTask \notin Tasks
  /\ Limits \subseteq Nat \ {0}
  /\ Outcomes \subseteq {"result", "error", "cancelled"}
  /\ DropPolicies \subseteq {"none", "old", "new", "summarize"}
  /\ MaxGeneration \in Nat

VARIABLES
  queue,       \* queue[l]: entries put and not yet taken by the worker
  held,        \* held[l]: the entry the worker took and has not started yet
  executing,   \* executing[l]: entries whose _execute_task coroutine lives
  active,      \* active[l]: the counter compared with the limit
  tracked,     \* tracked[l]: keys of _active_tasks
  running,     \* running[l]: the _running flag
  worker,      \* worker[l]: where the worker coroutine is suspended
  limit,       \* limit[l]: max_concurrent
  generation,  \* generation[l]
  entryGen,    \* entryGen[t]: the generation stored in the entry of t
  future,      \* future[t]: what the caller of enqueue sees
  lost         \* ghost: entries whose caller can no longer be answered

entryVars  == <<entryGen, future, lost>>
workerVars == <<running, worker>>
slotVars   == <<executing, active, tracked>>
vars == <<queue, held, slotVars, workerVars, limit, generation, entryVars>>

WorkerStates == {"none", "created", "get", "hold"}
FutureStates == {"none", "pending", "result", "error", "cleared",
                 "abandoned", "refused"}

Queued(l) == {queue[l][i] : i \in 1..Len(queue[l])}
Waiting(l) == Queued(l) \cup ({held[l]} \ {NoTask})

-----------------------------------------------------------------------------
(* Lane.__init__; QueueManager.__init__ gives every lane its limit. *)
Init ==
  /\ queue = [l \in Lanes |-> <<>>]
  /\ held = [l \in Lanes |-> NoTask]
  /\ executing = [l \in Lanes |-> {}]
  /\ active = [l \in Lanes |-> 0]
  /\ tracked = [l \in Lanes |-> {}]
  /\ running = [l \in Lanes |-> FALSE]
  /\ worker = [l \in Lanes |-> "none"]
  /\ limit \in [Lanes -> Limits]
  /\ generation = [l \in Lanes |-> 0]
  /\ entryGen = [t \in Tasks |-> 0]
  /\ future = [t \in Tasks |-> "none"]
  /\ lost = {}

(* _start_worker: a worker is created only when the previous one is done;  *)
(* otherwise the call changes nothing, _running included.                  *)
StartWorker(l) ==
  IF worker[l] = "none"
  THEN /\ running' = [running EXCEPT ![l] = TRUE]
       /\ worker' = [worker EXCEPT ![l] = "created"]
  ELSE UNCHANGED workerVars

(* Fault: the entry overtakes those that wait. *)
PutInFront(l, t, q) ==
  /\ future[t] = "none"
  /\ queue' = [queue EXCEPT ![l] = <<t>> \o q]
  /\ entryGen' = [entryGen EXCEPT ![t] = generation[l]]
  /\ future' = [future EXCEPT ![t] = "pending"]
  /\ IF running[l] THEN UNCHANGED workerVars ELSE StartWorker(l)
  /\ UNCHANGED <<held, slotVars, limit, generation>>

(* Lane.enqueue up to the await of the future. *)
Put(l, t, q) ==
  /\ future[t] = "none"
  /\ queue' = [queue EXCEPT ![l] = Append(q, t)]
  /\ entryGen' = [entryGen EXCEPT ![t] = generation[l]]
  /\ future' = [future EXCEPT ![t] = "pending"]
  /\ IF running[l] THEN UNCHANGED workerVars ELSE StartWorker(l)
  /\ UNCHANGED <<held, slotVars, limit, generation>>

(* enqueue_in_lane and enqueue_session with a drop policy.  The policies   *)
(* act only on a non-empty queue; "summarize" only logs.                   *)
Enqueue(l, t, policy) ==
  LET busy == queue[l] # <<>> IN
  \/ /\ busy /\ policy = "new"
     /\ future[t] = "none"
     /\ future' = [future EXCEPT ![t] = "refused"]
     /\ UNCHANGED <<queue, held, slotVars, workerVars, limit, generation,
                    entryGen, lost>>
  \/ /\ busy /\ policy = "old"
     /\ lost' = lost \cup {Head(queue[l])}
     /\ Put(l, t, Tail(queue[l]))
  \/ /\ busy => policy \in {"none", "summarize"}
     /\ Put(l, t, queue[l])
     /\ UNCHANGED lost

(* The caller stops waiting: asyncio.wait_for timed out, or the task that  *)
(* awaits enqueue was cancelled.  The future is cancelled, the entry stays *)
(* where it is.                                                            *)
Abandon(t) ==
  /\ future[t] = "pending"
  /\ future' = [future EXCEPT ![t] = "abandoned"]
  /\ UNCHANGED <<queue, held, slotVars, workerVars, limit, generation,
                 entryGen, lost>>

(* Faults: the loop is left after every entry; it polls on with no entry. *)
ReturnAfterEntry(l) == worker' = [worker EXCEPT ![l] = "none"]
PollAgain(l) == worker' = [worker EXCEPT ![l] = "hold"]

(* The test of the worker's while loop: run another get, or return. *)
LoopOrExit(l) ==
  worker' = [worker EXCEPT ![l] = IF running[l] THEN "get" ELSE "none"]

WorkerBegin(l) ==
  /\ worker[l] = "created"
  /\ LoopOrExit(l)
  /\ UNCHANGED <<queue, held, slotVars, running, limit, generation, entryVars>>

(* Fault: the entry is read and stays in the queue. *)
Peek(l) ==
  /\ worker[l] = "get"
  /\ queue[l] # <<>>
  /\ held' = [held EXCEPT ![l] = Head(queue[l])]
  /\ worker' = [worker EXCEPT ![l] = "hold"]
  /\ UNCHANGED <<queue, slotVars, running, limit, generation, entryVars>>

(* wait_for(queue.get()) yields an entry.  wait_for may run the get in a   *)
(* task of its own, so the entry leaves the queue before the worker runs   *)
(* again, even when a slot is free.                                        *)
Take(l) ==
  /\ worker[l] = "get"
  /\ queue[l] # <<>>
  /\ held' = [held EXCEPT ![l] = Head(queue[l])]
  /\ queue' = [queue EXCEPT ![l] = Tail(@)]
  /\ worker' = [worker EXCEPT ![l] = "hold"]
  /\ UNCHANGED <<slotVars, running, limit, generation, entryVars>>

(* Fault: one task more than the limit. *)
SlotAtLimit(l) == active[l] <= limit[l]

(* The condition of the poll on active. *)
SlotFree(l) == active[l] < limit[l]

(* The poll on active ends: register the entry, spawn _execute_task, loop. *)
StartHeld(l) ==
  /\ worker[l] = "hold"
  /\ SlotFree(l)
  /\ tracked' = [tracked EXCEPT ![l] = @ \cup {held[l]}]
  /\ active' = [active EXCEPT ![l] = @ + 1]
  /\ executing' = [executing EXCEPT ![l] = @ \cup {held[l]}]
  /\ held' = [held EXCEPT ![l] = NoTask]
  /\ LoopOrExit(l)
  /\ UNCHANGED <<queue, running, limit, generation, entryVars>>

(* Fault: the queue is not looked at again after the timeout. *)
NothingActive(l) == active[l] = 0

(* The test of the worker before it returns on a timeout. *)
Idle(l) == queue[l] = <<>> /\ active[l] = 0

(* The get times out after a second.  The worker returns when the lane is  *)
(* idle or when _running was cleared meanwhile; otherwise it gets again,   *)
(* which changes nothing.                                                  *)
GetTimeout(l) ==
  /\ worker[l] = "get"
  /\ Idle(l) \/ ~ running[l]
  /\ running' = [running EXCEPT ![l] = FALSE]
  /\ worker' = [worker EXCEPT ![l] = "none"]
  /\ UNCHANGED <<queue, held, slotVars, limit, generation, entryVars>>

(* Fault: an exception does not reach the caller. *)
AnswerResultOnly(l, t, outcome) ==
  future' = [future EXCEPT ![t] =
    IF t \in tracked[l] /\ @ = "pending" /\ outcome = "result"
    THEN outcome ELSE @]

(* set_result and set_exception.  _active_tasks[id] always holds the       *)
(* generation of the entry itself, so the comparison in the code is a test *)
(* for presence.  CancelledError passes both excepts and answers nobody.   *)
Answer(l, t, outcome) ==
  future' = [future EXCEPT ![t] =
    IF t \in tracked[l] /\ @ = "pending" /\ outcome # "cancelled"
    THEN outcome ELSE @]

(* Fault: the clause is not reached by CancelledError. *)
ReleaseUnlessCancelled(l, t, outcome) ==
  /\ tracked' = [tracked EXCEPT ![l] = IF outcome = "cancelled" THEN @ ELSE @ \ {t}]
  /\ active' = [active EXCEPT ![l] = IF outcome = "cancelled" THEN @ ELSE @ - 1]

(* The finally clause, which runs for every outcome. *)
Release(l, t, outcome) ==
  /\ tracked' = [tracked EXCEPT ![l] = @ \ {t}]
  /\ active' = [active EXCEPT ![l] = @ - 1]

(* _execute_task after its body ended. *)
Complete(l, t, outcome) ==
  /\ t \in executing[l]
  /\ Answer(l, t, outcome)
  /\ Release(l, t, outcome)
  /\ lost' = IF outcome = "cancelled" THEN lost \cup {t} ELSE lost
  /\ executing' = [executing EXCEPT ![l] = @ \ {t}]
  /\ UNCHANGED <<queue, held, workerVars, limit, generation, entryGen>>

(* Lane.clear, and clear_command_lane around it: the queued entries are    *)
(* rejected, the one the worker holds is not.                              *)
Clear(l) ==
  /\ queue[l] # <<>>
  /\ future' = [t \in Tasks |-> IF t \in Queued(l) /\ future[t] = "pending"
                                THEN "cleared" ELSE future[t]]
  /\ queue' = [queue EXCEPT ![l] = <<>>]
  /\ UNCHANGED <<held, slotVars, workerVars, limit, generation, entryGen,
                 lost>>

(* set_lane_concurrency; the max(1, n) is the assumption on Limits. *)
SetConcurrency(l, n) ==
  /\ limit[l] # n
  /\ limit' = [limit EXCEPT ![l] = n]
  /\ UNCHANGED <<queue, held, slotVars, workerVars, generation, entryVars>>

(* Lane.stop up to its await of the worker. *)
Stop(l) ==
  /\ running' = [running EXCEPT ![l] = FALSE]
  /\ UNCHANGED <<queue, held, slotVars, worker, limit, generation, entryVars>>

(* reset_generation: nothing but the counter. *)
ResetGeneration(l) ==
  /\ generation[l] < MaxGeneration
  /\ generation' = [generation EXCEPT ![l] = @ + 1]
  /\ UNCHANGED <<queue, held, slotVars, workerVars, limit, entryVars>>

(* reset_all_lanes: one synchronous pass over every lane.  _running is     *)
(* cleared first, and _start_worker sets it again only where no worker     *)
(* coroutine is alive.                                                     *)
ResetAllLanes ==
  LET restarted == {l \in Lanes : queue[l] # <<>> /\ worker[l] = "none"} IN
  /\ \A l \in Lanes : generation[l] < MaxGeneration
  /\ generation' = [l \in Lanes |-> generation[l] + 1]
  /\ tracked' = [l \in Lanes |-> {}]
  /\ active' = [l \in Lanes |-> 0]
  /\ running' = [l \in Lanes |-> l \in restarted]
  /\ worker' = [l \in Lanes |-> IF l \in restarted THEN "created" ELSE worker[l]]
  /\ lost' = lost \cup UNION {executing[l] : l \in Lanes}
  /\ UNCHANGED <<queue, held, executing, limit, entryGen, future>>

-----------------------------------------------------------------------------
WorkerStep(l) == WorkerBegin(l) \/ Take(l) \/ StartHeld(l) \/ GetTimeout(l)

CallerStep(l) ==
  \/ \E t \in Tasks, policy \in DropPolicies : Enqueue(l, t, policy)
  \/ Clear(l)
  \/ \E n \in Limits : SetConcurrency(l, n)

CompleteStep(l) == \E t \in Tasks, o \in Outcomes : Complete(l, t, o)

(* Normal operation; with the lane reset of the restart path; and with the *)
(* operations that end a lane or start a new generation as well.           *)
Next ==
  \/ \E l \in Lanes : WorkerStep(l) \/ CallerStep(l) \/ CompleteStep(l)
  \/ \E t \in Tasks : Abandon(t)

RestartNext == Next \/ ResetAllLanes

LifecycleNext ==
  \/ RestartNext
  \/ \E l \in Lanes : Stop(l) \/ ResetGeneration(l)

(* The loop runs every ready coroutine, and a task body ends eventually. *)
Fairness ==
  \A l \in Lanes :
    /\ WF_vars(WorkerBegin(l))
    /\ WF_vars(Take(l))
    /\ WF_vars(StartHeld(l))
    /\ \A t \in Tasks : WF_vars(\E o \in Outcomes : Complete(l, t, o))

Spec == Init /\ [][Next]_vars
FairSpec == Spec /\ Fairness
LifecycleSpec == Init /\ [][LifecycleNext]_vars

-----------------------------------------------------------------------------
TypeOK ==
  /\ queue \in [Lanes -> Seq(Tasks)]
  /\ held \in [Lanes -> Tasks \cup {NoTask}]
  /\ executing \in [Lanes -> SUBSET Tasks]
  /\ active \in [Lanes -> Int]
  /\ tracked \in [Lanes -> SUBSET Tasks]
  /\ running \in [Lanes -> BOOLEAN]
  /\ worker \in [Lanes -> WorkerStates]
  /\ limit \in [Lanes -> Limits]
  /\ generation \in [Lanes -> Nat]
  /\ entryGen \in [Tasks -> Nat]
  /\ future \in [Tasks -> FutureStates]
  /\ lost \subseteq Tasks
  /\ \A l \in Lanes : worker[l] = "hold" <=> held[l] # NoTask

(* An entry is in one place: queued once, held or executing, and an entry  *)
(* nobody enqueued is nowhere.  Two workers on one lane, or a reset that   *)
(* put an entry back, would run a caller's task twice.                     *)
EntryOnce ==
  \A l \in Lanes :
    /\ \A i, j \in 1..Len(queue[l]) : i # j => queue[l][i] # queue[l][j]
    /\ held[l] \notin Queued(l)
    /\ executing[l] \cap Waiting(l) = {}
    /\ \A t \in Waiting(l) \cup executing[l] : future[t] \notin {"none", "refused"}

(* Without a reset the counter the worker polls is the number of tasks     *)
(* that really run, and each of them may still answer its caller.          *)
CounterExact ==
  \A l \in Lanes :
    /\ IsFiniteSet(executing[l])
    /\ active[l] = Cardinality(executing[l])
    /\ tracked[l] = executing[l]

(* A lane with an entry to start has a live worker with _running set: no   *)
(* interleaving of an enqueue with the idle exit of the worker loses the   *)
(* wake-up.                                                                *)
NoStrandedEntry ==
  \A l \in Lanes :
    /\ Waiting(l) # {} => worker[l] # "none"
    /\ running[l] <=> worker[l] # "none"

(* Every caller still waiting has an entry that will be run and may answer *)
(* it.  The only callers left without one are those whose entry a drop     *)
(* policy "old" threw away, whose task ended in CancelledError, or whose   *)
(* task ran across a reset.                                                *)
NoLostCaller ==
  \A t \in Tasks : future[t] = "pending" =>
    \/ t \in lost
    \/ \E l \in Lanes : t \in Waiting(l) \cup (executing[l] \cap tracked[l])

(* A step that starts tasks leaves no more of them running than the limit  *)
(* in force allows, whatever completions, clears and limit changes came    *)
(* before.                                                                 *)
StartsWithinLimit ==
  [][\A l \in Lanes :
       ~ (executing'[l] \subseteq executing[l]) =>
         Cardinality(executing'[l]) <= limit[l]]_vars

(* Every caller is answered in the end, or is one of the lost ones: the    *)
(* worker's idle exit, its polls and the clears starve nobody.             *)
EveryCallerAnswered ==
  \A t \in Tasks :
    (future[t] = "pending") ~> (future[t] # "pending" \/ t \in lost)

(* The abstract view: the held entry is the first one waiting. *)
WaitingLine ==
  [l \in Lanes |-> (IF held[l] = NoTask THEN <<>> ELSE <<held[l]>>) \o queue[l]]

Executor == INSTANCE FifoExecutor WITH
  waiting <- WaitingLine, going <- executing, capacity <- limit, reply <- future

(* A lane without stop or reset implements the executor: callers' entries  *)
(* start in submission order, once, within the limit, and are answered     *)
(* once.                                                                   *)
ImplementsFifoExecutor == Executor!Spec
=============================================================================
