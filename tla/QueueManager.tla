---------------------------- MODULE QueueManager ----------------------------
(***************************************************************************)
(* agents/queuing/queue.py: the manager that owns the lanes, and the drain *)
(* that refuses new requests before a restart.                             *)
(*                                                                         *)
(* A request goes through two lanes: its entry in the lane of its session  *)
(* runs a body that enqueues a second entry in a command lane (or in the   *)
(* global lane) and awaits it.  Both lanes are objects of module Lane, and *)
(* every lane operation below is an action of that module.                 *)
(*                                                                         *)
(* A session lane is named by its session: get_session_lane makes it when  *)
(* the key is first used and nothing removes it again (cleanup_session has *)
(* no caller), so a lane that does not exist yet is one nobody has used.   *)
(***************************************************************************)
EXTENDS Integers, Sequences, FiniteSets

CONSTANTS
  Requests,      \* calls of enqueue_session_then_lane and enqueue_both
  Sessions,      \* session keys, and the lanes in _session_lanes
  SessionOf,     \* SessionOf[r]: the session of request r
  CommandLanes,  \* the fixed lanes and the global lane
  GlobalLane,    \* the one of them enqueue_both uses
  TargetOf,      \* TargetOf[r]: the lane of the second entry of r
  LimitOf,       \* LimitOf[l]: max_concurrent of lane l
  Timed,         \* the requests submitted with a timeout
  Outcomes,      \* how the innermost task may end
  NoTask

Lanes == Sessions \cup CommandLanes
Entries == Requests \X {"session", "command"}
Outer(r) == <<r, "session">>
Inner(r) == <<r, "command">>

ASSUME QueueManagerAssumption ==
  /\ SessionOf \in [Requests -> Sessions]
  /\ TargetOf \in [Requests -> CommandLanes]
  /\ Sessions \cap CommandLanes = {}
  /\ LimitOf \in [Lanes -> Nat \ {0}]
  /\ \A s \in Sessions : LimitOf[s] = 1
  /\ NoTask \notin Entries
  /\ Timed \subseteq Requests
  /\ Outcomes \subseteq {"result", "error", "cancelled"}

VARIABLES
  queue, held, executing, active, tracked, running, worker, limit,
  generation, entryGen, future, lost,
  draining,  \* _gateway_draining
  drained    \* wait_for_active_tasks has returned {"drained": True}

(* The lanes run turns and session bodies, keep the limits they were       *)
(* created with, and are never reset.                                      *)
L == INSTANCE Lane WITH Tasks <- Entries, DropPolicies <- {"none"},
                        Outcomes <- Outcomes \cup {"result", "error"},
                        Limits <- {LimitOf[l] : l \in Lanes}, MaxGeneration <- 0

laneVars == <<queue, held, executing, active, tracked, running, worker, limit,
              generation, entryGen, future, lost>>
managerVars == <<draining, drained>>
vars == <<laneVars, managerVars>>

-----------------------------------------------------------------------------
Init ==
  /\ L!Init /\ limit = LimitOf
  /\ draining = FALSE
  /\ drained = FALSE

(* enqueue_session_then_lane and enqueue_both up to their await. *)
Submit(r) ==
  /\ ~ draining
  /\ L!Enqueue(SessionOf[r], Outer(r), "none")
  /\ UNCHANGED managerVars

(* Fault: the second entry goes to the lane of the session itself. *)
OwnLane(r) == SessionOf[r]

(* The lane a session body enqueues its turn in. *)
TargetLane(r) == TargetOf[r]

(* Fault: only the session entry is tested. *)
NeverRefused(r) == FALSE

(* enqueue_in_lane tests the drain flag again.  The global lane of         *)
(* enqueue_both is entered without that test.                              *)
RefusedByDrain(r) == draining /\ TargetOf[r] # GlobalLane

(* The body of the session entry starts; a GatewayDrainingError ends the   *)
(* session entry.                                                          *)
EnterTarget(r) ==
  /\ Outer(r) \in executing[SessionOf[r]]
  /\ future[Inner(r)] = "none"
  /\ IF RefusedByDrain(r)
     THEN L!Complete(SessionOf[r], Outer(r), "error")
     ELSE L!Enqueue(TargetLane(r), Inner(r), "none")
  /\ UNCHANGED managerVars

(* Fault: the body does not await the entry it enqueued. *)
TurnSubmitted(r) == future[Inner(r)] # "none"

(* The future the body awaits is done. *)
TurnAnswered(r) == future[Inner(r)] \notin {"none", "pending"}

(* The await in the body returns or raises: a rejected or timed out inner  *)
(* entry makes the session entry fail.                                     *)
ReturnFromTarget(r) ==
  /\ Outer(r) \in executing[SessionOf[r]]
  /\ TurnAnswered(r)
  /\ L!Complete(SessionOf[r], Outer(r),
                IF future[Inner(r)] = "result" THEN "result" ELSE "error")
  /\ UNCHANGED managerVars

(* The agent turn itself ends. *)
FinishTurn(r) ==
  /\ \E o \in Outcomes : L!Complete(TargetLane(r), Inner(r), o)
  /\ UNCHANGED managerVars

(* The caller of the request is cancelled (chat.abort cancels the task     *)
(* that awaits it), or one of the two waits of a timed request times out.  *)
Abort(r) ==
  /\ L!Abandon(Outer(r))
  /\ UNCHANGED managerVars

InnerTimeout(r) ==
  /\ r \in Timed
  /\ L!Abandon(Inner(r))
  /\ UNCHANGED managerVars

WorkerStep(l) == L!WorkerStep(l) /\ UNCHANGED managerVars

ClearCommandLane(l) == L!Clear(l) /\ UNCHANGED managerVars

(* The test of wait_for_active_tasks: the sum of the counters is zero (and *)
(* none of them is negative, see CounterExact of Lane).                    *)
NoActiveTasks == \A l \in Lanes : active[l] = 0

(* mark_gateway_draining; the process is replaced after the drain. *)
BeginDrain ==
  /\ ~ draining
  /\ draining' = TRUE
  /\ UNCHANGED <<laneVars, drained>>

(* A poll of wait_for_active_tasks that ends the wait. *)
ReportDrained ==
  /\ draining /\ ~ drained /\ NoActiveTasks
  /\ drained' = TRUE
  /\ UNCHANGED <<laneVars, draining>>

-----------------------------------------------------------------------------
(* The coroutines a request has running: its session body and its turn. *)
BodyStep(r) == EnterTarget(r) \/ ReturnFromTarget(r) \/ FinishTurn(r)

Next ==
  \/ \E r \in Requests : Submit(r) \/ Abort(r) \/ InnerTimeout(r)
  \/ \E r \in Requests : BodyStep(r)
  \/ \E l \in Lanes : WorkerStep(l) \/ ClearCommandLane(l)
  \/ BeginDrain
  \/ ReportDrained

(* The loop runs every ready worker and coroutine, and agent turns end. *)
Fairness ==
  /\ \A l \in Lanes : WF_vars(WorkerStep(l))
  /\ \A r \in Requests : WF_vars(BodyStep(r))

Spec == Init /\ [][Next]_vars
FairSpec == Spec /\ Fairness

-----------------------------------------------------------------------------
TypeOK ==
  /\ L!TypeOK
  /\ draining \in BOOLEAN /\ drained \in BOOLEAN

TurnRuns(r) == Inner(r) \in executing[TargetOf[r]]

(* Requests of one session whose turns run at the same time. *)
Overlap(s) ==
  \E r1, r2 \in Requests :
    /\ r1 # r2 /\ SessionOf[r1] = s /\ SessionOf[r2] = s
    /\ TurnRuns(r1) /\ TurnRuns(r2)

(* The turns of a session never overlap, although the lane that serialises *)
(* them only holds the outer entry: aborts of the caller, rejections and   *)
(* drains do not let the next request in early.  This is the promise of    *)
(* the session lane as long as no wait of its bodies timed out.            *)
SessionSerial ==
  \A s \in Sessions :
    (\A r \in Requests : SessionOf[r] = s => future[Inner(r)] # "abandoned")
      => ~ Overlap(s)

(* After the gateway was reported drained, no turn enters a command lane:  *)
(* session entries that the counters did not show may start then, but      *)
(* their bodies are refused.  Two kinds of requests are outside of this:   *)
(* those of the global lane, and those whose timed wait left a turn.  This *)
(* is less than line 276 says ("until all lanes are idle"): a session     *)
(* entry may still wait in its lane when the verdict is given.             *)
NoTurnAfterVerdict ==
  drained => \A r \in Requests \ Timed :
    TargetOf[r] # GlobalLane =>
      Inner(r) \notin L!Waiting(TargetOf[r]) \cup executing[TargetOf[r]]

(* The two levels of lanes cannot wait for each other: a request that was  *)
(* accepted is answered, unless a turn of its session ended in             *)
(* CancelledError (which answers nobody, so the session entry never ends). *)
(* A request is submitted once and its answer is final: that each one that *)
(* waits is answered says that in the end none waits.                      *)
EveryRequestAnswered ==
  <>[](\A r \in Requests : future[Outer(r)] = "pending" =>
         \E q \in Requests : SessionOf[q] = SessionOf[r] /\ Inner(q) \in lost)
=============================================================================
