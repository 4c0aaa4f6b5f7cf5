---------------------------- MODULE HeartbeatWake ----------------------------
(***************************************************************************)
(* infra/heartbeat_wake.py: requests to wake an agent are merged per       *)
(* target, wait for one timer, and are handed in batches to the handler    *)
(* the gateway registered.  A wake the handler skips because requests are  *)
(* in flight, or fails on, is queued again.                                *)
(*                                                                         *)
(* Time is counted in steps of the coalescing window.  A timer that is due *)
(* and the task it spawns are one: _schedule treats both as a timer that   *)
(* fires sooner than anything new.                                         *)
(***************************************************************************)
EXTENDS Integers, FiniteSets

CONSTANTS
  Targets,   \* wake targets: pairs of agent and session key
  NoTarget,  \* no handler call in progress
  Coalesce,  \* DEFAULT_COALESCE_MS in time steps
  Retry      \* DEFAULT_RETRY_MS in time steps

ASSUME HeartbeatWakeAssumption ==
  /\ Coalesce \in Nat \ {0} /\ Retry \in Nat /\ Coalesce < Retry
  /\ NoTarget \notin Targets

VARIABLES
  handler,    \* "none" before the gateway registers it, "set", "disposed"
  pending,    \* pending[t]: priority of the pending wake of t, or Nothing
  timer,      \* the timer handle with its kind, remaining time and delay
  scheduled,  \* the _scheduled flag
  running,    \* the _running flag
  batch,      \* batch[t]: priority of the wake of t in the batch being handled
  batchDelay, \* the delay_s of the _fire that handles it
  calling,    \* the target of the handler call in progress, or NoTarget
  owed,       \* ghost: highest priority asked for t and not yet served
  cooled      \* ghost: time since the handler last skipped t, up to Retry

vars == <<handler, pending, timer, scheduled, running, batch, batchDelay,
          calling, owed, cooled>>

(* REASON_PRIORITY.  The rank RETRY (0) is left out: no caller passes the  *)
(* reason "retry", and a wake that is queued again keeps its own reason    *)
(* (lines 231 and 245), whatever the docstring says of it (lines 12-14).   *)
Nothing == -1
Interval == 1
Default == 2
Action == 3
Priorities == {Interval, Default, Action}

NoTimer == [kind |-> "none", left |-> 0, delay |-> 0]

(* Fault: a timer armed again takes longer each time. *)
LongerTimer(delay, kind) == [kind |-> kind, left |-> delay + 1, delay |-> delay + 1]

NewTimer(delay, kind) == [kind |-> kind, left |-> delay, delay |-> delay]

Init ==
  /\ handler = "none"
  /\ pending = [t \in Targets |-> Nothing]
  /\ timer = NoTimer
  /\ scheduled = FALSE
  /\ running = FALSE
  /\ batch = [t \in Targets |-> Nothing]
  /\ batchDelay = 0
  /\ calling = NoTarget
  /\ owed = [t \in Targets |-> Nothing]
  /\ cooled = [t \in Targets |-> Retry]

(* Fault: the newer wake wins, whatever its priority. *)
NewerWins(p, q) == q

(* _queue_pending_wake_reason: the higher priority wins. *)
Merge(p, q) == IF q >= p THEN q ELSE p

WithWake(t, p) == [pending EXCEPT ![t] = Merge(@, p)]

(* _schedule on the timer tm. *)
Scheduled(tm, delay, kind) ==
  IF tm # NoTimer /\ (tm.kind = "retry" \/ tm.left <= delay)
  THEN tm
  ELSE NewTimer(delay, kind)

SomePending(wakes) == \E t \in Targets : wakes[t] # Nothing

-----------------------------------------------------------------------------
(* request_heartbeat_now. *)
Request(t, p) ==
  /\ pending' = WithWake(t, p)
  /\ timer' = Scheduled(timer, Coalesce, "normal")
  /\ owed' = [owed EXCEPT ![t] = IF p > @ THEN p ELSE @]
  /\ UNCHANGED <<handler, scheduled, running, batch, batchDelay, calling, cooled>>

(* Time passes. *)
Tick ==
  /\ timer.left > 0 \/ \E t \in Targets : cooled[t] < Retry
  /\ timer' = [timer EXCEPT !.left = IF @ > 0 THEN @ - 1 ELSE 0]
  /\ cooled' = [t \in Targets |-> IF cooled[t] < Retry THEN cooled[t] + 1 ELSE Retry]
  /\ UNCHANGED <<handler, pending, scheduled, running, batch, batchDelay,
                 calling, owed>>

Due == timer # NoTimer /\ timer.left = 0

(* _fire with no handler: the pending wakes stay, without a timer. *)
FireUnhandled ==
  /\ Due /\ handler # "set"
  /\ timer' = NoTimer
  /\ scheduled' = FALSE
  /\ UNCHANGED <<handler, pending, running, batch, batchDelay, calling, owed,
                 cooled>>

(* _fire while a batch is handled: the same delay again. *)
FireWhileRunning ==
  /\ Due /\ handler = "set" /\ running
  /\ timer' = NewTimer(timer.delay, timer.kind)
  /\ scheduled' = TRUE
  /\ UNCHANGED <<handler, pending, running, batch, batchDelay, calling, owed,
                 cooled>>

(* _fire takes every pending wake and calls the handler with the first.    *)
(* (The batch is a dict in insertion order; here the order is free.)       *)
FireBatch ==
  /\ Due /\ handler = "set" /\ ~ running
  /\ timer' = NoTimer
  /\ scheduled' = FALSE
  /\ batch' = pending
  /\ batchDelay' = timer.delay
  /\ pending' = [t \in Targets |-> Nothing]
  /\ running' = TRUE
  /\ \E t \in Targets : pending[t] # Nothing /\ calling' = t
  /\ UNCHANGED <<handler, owed, cooled>>

(* The finally clause of _fire. *)
TimerAfterBatch(tm, wakes) ==
  IF SomePending(wakes) \/ scheduled
  THEN Scheduled(tm, batchDelay, "normal")
  ELSE tm

(* The handler returns.  Again stands for the "requests-in-flight" answer  *)
(* and for an exception: the wake is queued again, with its own reason     *)
(* (pending_wake.reason or "retry", never empty), and a retry scheduled.   *)
(* Then comes the next wake of the batch, or its end.                      *)
HandlerReturns(again) ==
  LET t     == calling
      wakes == IF again THEN WithWake(t, batch[t]) ELSE pending
      tm    == IF again THEN Scheduled(timer, Retry, "retry") ELSE timer
      rest  == [batch EXCEPT ![t] = Nothing]
  IN
  /\ calling # NoTarget
  /\ pending' = wakes
  /\ batch' = rest
  /\ \/ /\ SomePending(rest)
        /\ \E next \in Targets : rest[next] # Nothing /\ calling' = next
        /\ timer' = tm
        /\ UNCHANGED running
     \/ /\ ~ SomePending(rest)
        /\ calling' = NoTarget
        /\ timer' = TimerAfterBatch(tm, wakes)
        /\ running' = FALSE
  /\ owed' = [owed EXCEPT ![t] = IF again THEN @ ELSE pending[t]]
  /\ cooled' = [cooled EXCEPT ![t] = IF again THEN 0 ELSE Retry]
  /\ UNCHANGED <<handler, scheduled, batchDelay>>

(* Fault: wakes that came before the handler do not get a timer. *)
FirstTimerOnRequest == NoTimer

TimerAtRegistration ==
  IF SomePending(pending) THEN NewTimer(Coalesce, "normal") ELSE NoTimer

(* set_heartbeat_wake_handler, once per process. *)
SetHandler ==
  /\ handler = "none"
  /\ handler' = "set"
  /\ timer' = TimerAtRegistration
  /\ running' = FALSE
  /\ scheduled' = FALSE
  /\ UNCHANGED <<pending, batch, batchDelay, calling, owed, cooled>>

(* The disposer of that registration. *)
Dispose ==
  /\ handler = "set"
  /\ handler' = "disposed"
  /\ UNCHANGED <<pending, timer, scheduled, running, batch, batchDelay, calling,
                 owed, cooled>>

-----------------------------------------------------------------------------
Next ==
  \/ \E t \in Targets, p \in Priorities : Request(t, p)
  \/ Tick
  \/ FireUnhandled \/ FireWhileRunning \/ FireBatch
  \/ \E again \in BOOLEAN : HandlerReturns(again)
  \/ SetHandler \/ Dispose

(* Time passes, the loop runs due timers, and handler calls return. *)
Fairness ==
  /\ WF_vars(Tick)
  /\ WF_vars(FireWhileRunning \/ FireBatch)
  /\ WF_vars(\E again \in BOOLEAN : HandlerReturns(again))

Spec == Init /\ [][Next]_vars
FairSpec == Spec /\ Fairness

-----------------------------------------------------------------------------
TypeOK ==
  /\ handler \in {"none", "set", "disposed"}
  /\ pending \in [Targets -> Priorities \cup {Nothing}]
  /\ timer \in [kind : {"none", "normal", "retry"}, left : 0..Retry, delay : 0..Retry]
  /\ scheduled \in BOOLEAN
  /\ running \in BOOLEAN
  /\ batch \in [Targets -> Priorities \cup {Nothing}]
  /\ batchDelay \in 0..Retry
  /\ calling \in Targets \cup {NoTarget}
  /\ owed \in [Targets -> Priorities \cup {Nothing}]
  /\ cooled \in [Targets -> 0..Retry]
  /\ running <=> calling # NoTarget
  /\ calling # NoTarget => batch[calling] # Nothing

(* A wake is never weakened: until a call serves it, the entry that stands *)
(* for the requests of a target has at least the priority of each of them, *)
(* over merges and retries alike.                                          *)
NoUrgencyLost ==
  \A t \in Targets : owed[t] <= pending[t] \/ owed[t] <= batch[t]

(* Every requested wake is handed to the registered handler: also one that *)
(* was requested before the registration, that arrived during a batch, or  *)
(* that the handler gave back.                                             *)
EveryWakeHandled ==
  \A t \in Targets :
    (owed[t] # Nothing /\ handler = "set") ~> (calling = t \/ handler = "disposed")

(* heartbeat_wake.py:171: "retry-kind timers are never preempted (they     *)
(* enforce a hard minimum delay)", and line 13: the wake "is re-queued     *)
(* with reason "retry" and retried after 1 s".  After a skip the handler   *)
(* is not called for that target again before the retry delay is over.     *)
RetryDelayKept ==
  [][\A t \in Targets :
       (calling' = t /\ (calling # t \/ batch'[t] # batch[t])) => cooled[t] = Retry]_vars
=============================================================================
