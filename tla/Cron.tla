-------------------------------- MODULE Cron --------------------------------
(***************************************************************************)
(* The cron scheduler of the gateway: CronService (cron/service.py), its   *)
(* timer (cron/timer.py), the per-store lock (cron/locked.py) and the      *)
(* store on disk (cron/store.py).                                          *)
(*                                                                         *)
(* The service keeps the jobs in memory and persists the whole list.  One  *)
(* asyncio task at a time, `_task', sleeps until the next job is due and   *)
(* then IS the tick: it picks the due jobs under the lock, runs them       *)
(* outside the lock one after the other, and applies their results under   *)
(* the lock again.  Every operation of a user (add, update, remove, run)   *)
(* holds the lock and ends by arming the timer, which cancels `_task' even *)
(* when it is a tick in the middle of a job.                               *)
(*                                                                         *)
(* Abstractions.  A timestamp is "past" or "future" of the wall clock, so  *)
(* the clock is the actions TimePasses and MarkerAges.  What the timer     *)
(* sleeps for is left open: it is clamped to a minute and may fire early.  *)
(* The body of a job is its outcome.  maxConcurrentRuns is 1 and there is  *)
(* no lane manager, as gateway/cron_bootstrap.py builds the service.       *)
(* Left out: schedule expressions that fail to parse, a save that fails,   *)
(* the session reaper, failure alerts, run logs and events.                *)
(***************************************************************************)
EXTENDS Naturals, FiniteSets

CONSTANTS
  Jobs,            \* job ids
  OneShot,         \* the jobs with an AtSchedule; the others recur
  NewJobs,         \* the jobs that may not be in the store at first
  Tasks,           \* identities for the timer's asyncio tasks
  NoJob, NoTask,
  MaxAttempts,     \* retry.max_attempts of a one-shot job
  MaxOps,          \* bound: operations of users
  MaxCrashes       \* bound: restarts of the process

\* CronJob with its CronJobState
Job == [enabled : BOOLEAN,
        next    : {"none", "future", "past"},    \* state.next_run_ms
        marker  : {"none", "fresh", "stale"},    \* state.running_at_ms, stale after STUCK_RUN_MS
        status  : {"none", "ok", "other"},       \* state.last_status of a one-shot
        errors  : 0 .. MaxAttempts + 1,          \* state.consecutive_errors of a one-shot, capped
        atPast  : BOOLEAN,                       \* the time of an AtSchedule has come
        delete  : BOOLEAN]                       \* delete_after_run of a one-shot

ASSUME CronAssumption ==
  /\ OneShot \subseteq Jobs /\ NewJobs \subseteq Jobs
  /\ NoJob \notin Jobs \cup Job /\ NoTask \notin Tasks
  /\ MaxAttempts \in Nat /\ MaxOps \in Nat /\ MaxCrashes \in Nat

VARIABLES
  up,            \* the process runs and start() has begun
  mem,           \* self.jobs
  disk,          \* the store file
  unused,        \* ids no job has had yet
  task,          \* the timer's tasks, see Task
  current,       \* CronTimer._task
  timerRunning,  \* self._timer_running
  lock,          \* the store lock: who holds it across an await, for which job
  missed,        \* start(): the overdue jobs it still has to run
  overdue,       \* start(): the jobs whose next run is before its `now'
  ops, crashes

vars == <<up, mem, disk, unused, task, current, timerRunning, lock, missed,
          overdue, ops, crashes>>

\* How a run ends.  A recurring job goes on after every end alike.
Outcomes == {"ok", "skipped", "transient", "permanent"}
Ends(j) == IF j \in OneShot THEN Outcomes ELSE {"ok"}

Task == [pc : {"free", "sleep", "pick", "run", "apply", "close"},
         cancelled : BOOLEAN,
         batch : SUBSET Jobs,                    \* picked and not yet started
         job : Jobs \cup {NoJob},                \* being executed
         results : SUBSET (Jobs \X Outcomes)]

Free     == [pc |-> "free", cancelled |-> FALSE, batch |-> {}, job |-> NoJob,
             results |-> {}]
Sleeping == [Free EXCEPT !.pc = "sleep"]
Unlocked == [by |-> "nobody", job |-> NoJob]

Known(m) == {j \in Jobs : m[j] # NoJob}

-----------------------------------------------------------------------------
(* What the service computes about a job.                                  *)

\* compute_job_next_run_at_ms: a one-shot stays due until it has succeeded,
\* a recurring job has its next slot after now.
ComputeNext(j, r) ==
  CASE ~r.enabled                            -> "none"
    [] r.enabled /\ j \notin OneShot         -> "future"
    [] r.enabled /\ j \in OneShot /\ r.status = "ok" -> "none"
    [] OTHER -> IF r.atPast THEN "past" ELSE "future"

\* Fault: a stuck marker is left where it is.
KeepsStuckMarker(r) ==
  IF ~r.enabled THEN [r EXCEPT !.next = "none", !.marker = "none"] ELSE r

\* _normalize_job_tick_state
Normalised(r) ==
  IF ~r.enabled THEN [r EXCEPT !.next = "none", !.marker = "none"]
  ELSE IF r.marker = "stale" THEN [r EXCEPT !.marker = "none"] ELSE r

\* The recomputation of next_run_ms over all jobs, for those in `late' even
\* when one is set: none of them in maintenance, the overdue ones in start().
Recompute(m, late) ==
  [j \in Jobs |->
     IF m[j] = NoJob THEN NoJob
     ELSE LET r == Normalised(m[j]) IN
          IF r.enabled /\ (r.next = "none" \/ j \in late)
            THEN [r EXCEPT !.next = ComputeNext(j, r)] ELSE r]

Runnable(r) == r.enabled /\ r.marker = "none" /\ r.next = "past"

\* consecutive_errors, which nothing reads beyond the last retry
CountError(r) == IF r.errors > MaxAttempts THEN r.errors ELSE r.errors + 1

\* _apply_job_result: the job's state after a run, NoJob when it is deleted.
ApplyResult(j, r, outcome) ==
  LET failed == outcome \in {"transient", "permanent"}
      errors == IF failed /\ j \in OneShot THEN CountError(r) ELSE 0
      retry  == outcome = "transient" /\ errors <= MaxAttempts
      done   == [r EXCEPT !.marker = "none", !.errors = errors,
                          !.status = IF j \notin OneShot THEN @
                                     ELSE IF outcome = "ok" THEN "ok" ELSE "other"]
  IN IF r.delete /\ outcome = "ok" THEN NoJob
     ELSE IF j \in OneShot
       THEN IF retry THEN [done EXCEPT !.next = "future"]
            ELSE [done EXCEPT !.enabled = FALSE, !.next = "none"]
     ELSE [done EXCEPT !.next = ComputeNext(j, done)]

-----------------------------------------------------------------------------
(* The timer.                                                              *)

HasNextRun(m) == \E j \in Known(m) : m[j].enabled /\ m[j].next # "none"

\* Fault: like clearTimeout, only a timer that has not fired is cancelled.
CancelSleeping(tk) ==
  IF current # NoTask /\ tk[current].pc = "sleep"
    THEN [tk EXCEPT ![current] = Free] ELSE tk

\* Fault: the timer is armed beside the one that sleeps.
LeaveSleeping(tk) == tk

\* task.cancel() on _task: a sleeping task is gone, a tick gets CancelledError
\* at the await it is suspended in.
CancelCurrent(tk) ==
  IF current = NoTask \/ tk[current].pc = "free" THEN tk
  ELSE IF tk[current].pc = "sleep" THEN [tk EXCEPT ![current] = Free]
  ELSE [tk EXCEPT ![current].cancelled = TRUE]

\* create_task; two tasks are enough, one in a tick and one asleep
NewTimer(tk) ==
  LET free == {t \in Tasks : tk[t].pc = "free"}
      t == CHOOSE x \in free : TRUE
  IN free # {} /\ task' = [tk EXCEPT ![t] = Sleeping] /\ current' = t

\* _arm_timer, with the jobs of m
ArmTimer(tk, m) ==
  IF HasNextRun(m) THEN NewTimer(CancelCurrent(tk))
  ELSE task' = CancelCurrent(tk) /\ current' = NoTask

-----------------------------------------------------------------------------
Init ==
  /\ up = FALSE /\ mem = [j \in Jobs |-> NoJob]
  /\ unused \in SUBSET NewJobs
  /\ disk = [j \in Jobs |-> IF j \in unused THEN NoJob
               ELSE [enabled |-> TRUE, next |-> "future", marker |-> "none",
                     status |-> "none", errors |-> 0, atPast |-> FALSE,
                     delete |-> FALSE]]
  /\ task = [t \in Tasks |-> Free] /\ current = NoTask /\ timerRunning = FALSE
  /\ lock = Unlocked /\ missed = {} /\ overdue = {}
  /\ ops = 0 /\ crashes = 0

Idle == lock = Unlocked
Ready == up /\ Idle

(* start(): load, clear the markers, run what was missed, recompute, arm.  *)
StartBegins ==
  /\ ~up /\ up' = TRUE
  /\ mem' = [j \in Jobs |-> IF disk[j] = NoJob THEN NoJob
                            ELSE [disk[j] EXCEPT !.marker = "none"]]
  /\ lock' = [by |-> "start", job |-> NoJob]
  /\ overdue' = {j \in Known(mem') : mem'[j].next = "past"}
  /\ missed' = {j \in Known(mem') : Runnable(mem'[j])
                                    /\ ~(j \in OneShot /\ mem'[j].status # "none")}
  /\ UNCHANGED <<disk, unused, task, current, timerRunning, ops, crashes>>

StartRunsMissed(j) ==
  /\ lock = [by |-> "start", job |-> NoJob] /\ j \in missed
  /\ lock' = [lock EXCEPT !.job = j] /\ missed' = missed \ {j}
  /\ mem' = [mem EXCEPT ![j].marker = "fresh"]
  /\ UNCHANGED <<up, disk, unused, task, current, timerRunning, overdue, ops, crashes>>

StartMissedEnds(outcome) ==
  LET j == lock.job IN
  /\ lock.by = "start" /\ j # NoJob /\ outcome \in Ends(j)
  /\ mem' = [mem EXCEPT ![j] = ApplyResult(j, mem[j], outcome)]
  /\ lock' = [lock EXCEPT !.job = NoJob] /\ overdue' = overdue \ {j}
  /\ UNCHANGED <<up, disk, unused, task, current, timerRunning, missed, ops,
                 crashes>>

\* Fault: the recomputation reads the clock again.
LateAtEnd == {j \in Known(mem) : mem[j].next = "past"}

\* `now' was read before the missed jobs ran: only what was past then is late.
LateAtStart == overdue

StartEnds ==
  /\ lock = [by |-> "start", job |-> NoJob] /\ missed = {}
  /\ mem' = Recompute(mem, LateAtStart) /\ disk' = mem'
  /\ ArmTimer(task, mem')
  /\ lock' = Unlocked /\ overdue' = {}
  /\ UNCHANGED <<up, unused, timerRunning, missed, ops, crashes>>

-----------------------------------------------------------------------------
(* The tick: CronTimer._wait and CronService._on_timer.                    *)

\* Fault: no running guard.
TickAlwaysRuns == TRUE

\* The running guard.
TickMayRun == ~timerRunning

TimerFires(t) ==
  /\ task[t].pc = "sleep" /\ TickMayRun
  /\ timerRunning' = TRUE /\ task' = [task EXCEPT ![t].pc = "pick"]
  /\ UNCHANGED <<up, mem, disk, unused, current, lock, missed, overdue, ops, crashes>>

\* A tick is still running: arm_at_max_delay.
TimerFiresBusy(t) ==
  /\ task[t].pc = "sleep" /\ ~TickMayRun
  /\ NewTimer([task EXCEPT ![t] = Free])
  /\ UNCHANGED <<up, mem, disk, unused, timerRunning, lock, missed, overdue,
                 ops, crashes>>

\* _pick_due_jobs: reload, mark the due jobs and persist; with none due only
\* the maintenance recomputation.
PickDueJobs(t) ==
  LET due == {j \in Known(disk) : Runnable(disk[j])} IN
  /\ task[t].pc = "pick" /\ ~task[t].cancelled /\ Idle
  /\ IF due = {}
       THEN /\ mem' = Recompute(disk, {})
            /\ task' = [task EXCEPT ![t].pc = "close"]
       ELSE /\ mem' = [j \in Jobs |-> IF j \in due THEN [disk[j] EXCEPT !.marker = "fresh"]
                                      ELSE disk[j]]
            /\ task' = [task EXCEPT ![t].pc = "run", ![t].batch = due]
  /\ disk' = mem'
  /\ UNCHANGED <<up, unused, current, timerRunning, lock, missed, overdue, ops, crashes>>

\* _run_single_job sets the marker of the job object it was handed, which is
\* no longer in self.jobs when the job was removed meanwhile.
JobStarts(t, j) ==
  /\ task[t].pc = "run" /\ ~task[t].cancelled /\ task[t].job = NoJob
  /\ j \in task[t].batch
  /\ task' = [task EXCEPT ![t].job = j, ![t].batch = @ \ {j}]
  /\ mem' = IF mem[j] = NoJob THEN mem ELSE [mem EXCEPT ![j].marker = "fresh"]
  /\ UNCHANGED <<up, disk, unused, current, timerRunning, lock, missed, overdue,
                 ops, crashes>>

\* The job returns, fails or times out.
JobEnds(t, outcome) ==
  LET j == task[t].job IN
  /\ task[t].pc = "run" /\ ~task[t].cancelled /\ j # NoJob /\ outcome \in Ends(j)
  /\ task' = [task EXCEPT ![t].job = NoJob, ![t].results = @ \cup {<<j, outcome>>},
                          ![t].pc = IF task[t].batch = {} THEN "apply" ELSE "run"]
  /\ UNCHANGED <<up, mem, disk, unused, current, timerRunning, lock, missed,
                 overdue, ops, crashes>>

\* A cancelled job unwinds; until then it is still running.
JobUnwinds(t) ==
  /\ task[t].cancelled /\ task[t].job # NoJob
  /\ task' = [task EXCEPT ![t].job = NoJob, ![t].pc = "close"]
  /\ UNCHANGED <<up, mem, disk, unused, current, timerRunning, lock, missed,
                 overdue, ops, crashes>>

\* _apply_results: reload, apply what still exists, maintenance, persist.
Applied(results, m) ==
  [j \in Jobs |-> LET rs == {r \in results : r[1] = j} IN
     IF rs = {} \/ m[j] = NoJob THEN m[j]
     ELSE ApplyResult(j, m[j], (CHOOSE r \in rs : TRUE)[2])]

ApplyResults(t) ==
  /\ task[t].pc = "apply" /\ ~task[t].cancelled /\ Idle
  /\ mem' = Recompute(Applied(task[t].results, disk), {}) /\ disk' = mem'
  /\ task' = [task EXCEPT ![t].pc = "close", ![t].results = {}]
  /\ UNCHANGED <<up, unused, current, timerRunning, lock, missed, overdue, ops,
                 crashes>>

\* Fault: only the operations arm the timer.
LeaveTimer(t) == task' = [task EXCEPT ![t] = Free] /\ UNCHANGED current

Rearm(t) == ArmTimer([task EXCEPT ![t] = Free], mem)

\* The `finally' of _on_timer: the tick is over, or CancelledError ended it.
TickEnds(t) ==
  /\ \/ task[t].pc = "close"
     \/ task[t].cancelled /\ task[t].pc \in {"pick", "run", "apply"}
                          /\ task[t].job = NoJob
  /\ timerRunning' = FALSE /\ Rearm(t)
  /\ UNCHANGED <<up, mem, disk, unused, lock, missed, overdue, ops, crashes>>

-----------------------------------------------------------------------------
(* The operations of users, each under the lock and ending in _arm_timer.  *)

\* Fault: the file is left to the next tick.
CommitInMemory(m) == mem' = m /\ UNCHANGED disk /\ ArmTimer(task, m)

Commit(m) == mem' = m /\ disk' = m /\ ArmTimer(task, m)

Operation ==
  /\ Ready /\ ops < MaxOps /\ ops' = ops + 1
  /\ UNCHANGED <<up, timerRunning, missed, overdue, crashes>>

\* add_job, one-shot times in the past included
AddJob(j, enabled, atPast, delete) ==
  LET r == [enabled |-> enabled, next |-> "none", marker |-> "none",
            status |-> "none", errors |-> 0, atPast |-> atPast /\ j \in OneShot,
            delete |-> delete /\ j \in OneShot] IN
  /\ Operation /\ j \in unused /\ unused' = unused \ {j}
  /\ Commit([mem EXCEPT ![j] = [r EXCEPT !.next = ComputeNext(j, r)]])
  /\ UNCHANGED lock

\* update_job: the patch sets `enabled' and the time of a one-shot, or leaves
\* them as they are
UpdateJob(j, enabled, atPast) ==
  /\ Operation /\ mem[j] # NoJob
  /\ LET r == [mem[j] EXCEPT !.enabled = enabled, !.atPast = atPast /\ j \in OneShot]
     IN Commit([mem EXCEPT ![j] =
          [r EXCEPT !.next = ComputeNext(j, r),
                    !.marker = IF enabled THEN @ ELSE "none"]])
  /\ UNCHANGED <<unused, lock>>

RemoveJob(j) ==
  /\ Operation /\ mem[j] # NoJob
  /\ Commit([mem EXCEPT ![j] = NoJob])
  /\ UNCHANGED <<unused, lock>>

\* run(): the job is executed under the lock; mode "due" only adds the guard
\* Runnable, so it is one of these.
RunBegins(j) ==
  /\ Operation /\ mem[j] # NoJob
  /\ lock' = [by |-> "run", job |-> j]
  /\ mem' = [mem EXCEPT ![j].marker = "fresh"]
  /\ UNCHANGED <<disk, unused, task, current>>

RunEnds(outcome) ==
  LET j == lock.job IN
  /\ lock.by = "run" /\ outcome \in Ends(j)
  /\ Commit([mem EXCEPT ![j] = ApplyResult(j, mem[j], outcome)])
  /\ lock' = Unlocked
  /\ UNCHANGED <<up, unused, timerRunning, missed, overdue, ops, crashes>>

\* The agent turn whose cron tool awaits run() is aborted: nothing is applied
\* or persisted, the marker stays in memory.
RunAborted ==
  /\ lock.by = "run" /\ lock' = Unlocked
  /\ UNCHANGED <<up, mem, disk, unused, task, current, timerRunning, missed,
                 overdue, ops, crashes>>

-----------------------------------------------------------------------------
(* The clock, and the process.                                             *)

Later(m, j) ==
  IF m[j] = NoJob THEN m
  ELSE [m EXCEPT ![j].next = IF @ = "future" THEN "past" ELSE @,
                 ![j].atPast = j \in OneShot]

TimePasses(j) ==
  /\ mem' = Later(mem, j) /\ disk' = Later(disk, j)
  /\ <<mem', disk'>> # <<mem, disk>>
  /\ UNCHANGED <<up, unused, task, current, timerRunning, lock, missed, overdue,
                 ops, crashes>>

Aged(m, j) == IF m[j] # NoJob /\ m[j].marker = "fresh"
                THEN [m EXCEPT ![j].marker = "stale"] ELSE m

MarkerAges(j) ==
  /\ mem' = Aged(mem, j) /\ disk' = Aged(disk, j)
  /\ <<mem', disk'>> # <<mem, disk>>
  /\ UNCHANGED <<up, unused, task, current, timerRunning, lock, missed, overdue,
                 ops, crashes>>

\* The process ends, by a crash or by a shutdown, and only the file is left.
Crash ==
  /\ up /\ crashes < MaxCrashes /\ crashes' = crashes + 1
  /\ up' = FALSE /\ mem' = [j \in Jobs |-> NoJob]
  /\ task' = [t \in Tasks |-> Free] /\ current' = NoTask /\ timerRunning' = FALSE
  /\ lock' = Unlocked /\ missed' = {} /\ overdue' = {}
  /\ UNCHANGED <<disk, unused, ops>>

-----------------------------------------------------------------------------
StartStep == \/ StartBegins \/ StartEnds
             \/ \E j \in Jobs : StartRunsMissed(j)
             \/ \E o \in Outcomes : StartMissedEnds(o)

TickStep(t) == \/ TimerFires(t) \/ TimerFiresBusy(t) \/ PickDueJobs(t)
               \/ JobUnwinds(t) \/ ApplyResults(t) \/ TickEnds(t)
               \/ \E j \in Jobs : JobStarts(t, j)
               \/ \E o \in Outcomes : JobEnds(t, o)

UserStep == \/ \E j \in Jobs : RemoveJob(j) \/ RunBegins(j)
            \/ \E j \in Jobs, on, atPast, delete \in BOOLEAN : AddJob(j, on, atPast, delete)
            \/ \E j \in Jobs, on, atPast \in BOOLEAN : UpdateJob(j, on, atPast)

RunStep == RunAborted \/ \E o \in Outcomes : RunEnds(o)

Next == \/ StartStep \/ UserStep \/ RunStep \/ Crash
        \/ \E t \in Tasks : TickStep(t)
        \/ \E j \in Jobs : TimePasses(j) \/ MarkerAges(j)

\* Every task of the event loop goes on, every job body ends (a scheduled one
\* by its timeout), a crashed process is started again and two hours pass.
Fairness == /\ WF_vars(StartStep) /\ WF_vars(RunStep)
            /\ \A t \in Tasks : WF_vars(TickStep(t))
            /\ \A j \in Jobs : WF_vars(MarkerAges(j))

Spec == Init /\ [][Next]_vars /\ Fairness
-----------------------------------------------------------------------------
(* Properties.                                                             *)

\* Every variable keeps its type, and a timer that sleeps is the one _task
\* refers to, so that the next arming cancels it.
TypeOK ==
  /\ up \in BOOLEAN /\ timerRunning \in BOOLEAN
  /\ mem \in [Jobs -> Job \cup {NoJob}] /\ disk \in [Jobs -> Job \cup {NoJob}]
  /\ unused \subseteq Jobs /\ missed \subseteq Jobs /\ overdue \subseteq Jobs
  /\ task \in [Tasks -> Task] /\ current \in Tasks \cup {NoTask}
  /\ \A t \in Tasks : task[t].pc = "sleep" => current = t
  /\ lock \in [by : {"nobody", "start", "run"}, job : Jobs \cup {NoJob}]
  /\ ops \in 0 .. MaxOps /\ crashes \in 0 .. MaxCrashes

\* The scheduler never executes one job twice at a time.  The marker alone
\* does not give this: disabling a job clears it while a cancelled run of the
\* job still unwinds, and only the running guard keeps the next timer away.
ScheduledRunsDisjoint ==
  \A t, u \in Tasks : t # u /\ task[t].job # NoJob => task[t].job # task[u].job

\* While an enabled job has a next run, something is left that will look at
\* it: a timer that sleeps, or a tick, which arms the timer when it ends,
\* however it ends.  Every operation cancels the one and only timer task.
SchedulerAlive ==
  up /\ lock.by # "start" /\ HasNextRun(mem)
    => \E t \in Tasks : task[t].pc # "free"

\* What an operation has answered survives a restart: with nobody holding the
\* lock across an await, the file has the jobs that memory has, markers aside.
AnswersAreDurable ==
  LET Kept(r) == IF r = NoJob THEN r ELSE [r EXCEPT !.marker = "none"]
  IN Ready => \A j \in Jobs : Kept(mem[j]) = Kept(disk[j])

StartsScheduled(j) == \/ \E t \in Tasks : task[t].job # j /\ task'[t].job = j
                      \/ lock'.by = "start" /\ lock'.job = j /\ lock.job # j

\* A job that a user disabled or removed, or a one-shot job that has succeeded,
\* is not started by the scheduler any more, not even by a tick that picked it
\* before: jobs of a tick wait while the ones before them run.
NeverStartsRetired ==
  [][\A j \in Jobs : StartsScheduled(j) =>
       /\ mem[j] # NoJob /\ mem[j].enabled
       /\ ~(j \in OneShot /\ mem[j].status = "ok")]_vars

\* A slot of a recurring job that has come is passed over only when the job
\* was executed or a user changed it: no recomputation, during a tick or at
\* start, moves it silently into the future.
NoSlotSkipped ==
  [][\A j \in Jobs \ OneShot :
       /\ mem[j] # NoJob /\ mem[j].next = "past"
       /\ mem'[j] # NoJob /\ mem'[j].next = "future"
       => mem[j].marker # "none" \/ ops' # ops]_vars

Due(j) == up /\ mem[j] # NoJob /\ mem[j].enabled /\ mem[j].next = "past"
Executing(j) == lock.job = j \/ \E t \in Tasks : task[t].job = j

\* A job that is due is eventually executed, unless it is changed or the
\* process ends first, even when an operation cancelled the tick that had
\* picked it and its marker stayed behind.
DueJobRuns == \A j \in Jobs : Due(j) ~> (Executing(j) \/ ~Due(j))
=============================================================================
