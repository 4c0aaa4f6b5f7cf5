------------------------------ MODULE CronProofs ------------------------------
(***************************************************************************)
(* Proofs about Cron for any number of jobs, operations and restarts.      *)
(***************************************************************************)
EXTENDS Cron, TLAPS

Stores == [Jobs -> Job \cup {NoJob}]

-----------------------------------------------------------------------------
(* What the operators do to a job.                                         *)

LEMMA ComputeNextType ==
  ASSUME NEW j \in Jobs, NEW r \in Job
  PROVE  /\ ComputeNext(j, r) \in {"none", "future", "past"}
         /\ ~ r.enabled => ComputeNext(j, r) = "none"
         /\ j \in OneShot /\ r.status = "ok" => ComputeNext(j, r) = "none"
BY DEF ComputeNext, Job

LEMMA NormalisedFacts ==
  ASSUME NEW r \in Job
  PROVE  /\ Normalised(r) \in Job
         /\ Normalised(r).enabled = r.enabled
         /\ Normalised(r).status = r.status
         /\ Normalised(r).atPast = r.atPast
         /\ Normalised(r).next = IF r.enabled THEN r.next ELSE "none"
BY DEF Normalised, Job

(* The recomputation adds and removes no job and enables none; it moves    *)
(* the next run of an enabled job that has one only when the job is late.  *)
LEMMA RecomputeFacts ==
  ASSUME NEW m \in Stores, NEW late, NEW j \in Jobs
  PROVE  LET new == Recompute(m, late)[j] IN
         /\ m[j] = NoJob => new = NoJob
         /\ m[j] # NoJob =>
              /\ new \in Job
              /\ new.enabled = m[j].enabled /\ new.status = m[j].status
              /\ ~ m[j].enabled => new.next = "none"
              /\ m[j].enabled /\ m[j].next # "none" /\ j \notin late => new.next = m[j].next
              /\ j \in OneShot /\ m[j].status = "ok" /\ m[j].next = "none" => new.next = "none"
<1>1. CASE m[j] = NoJob
  BY <1>1 DEF Recompute
<1>2. CASE m[j] # NoJob
  <2> DEFINE r == Normalised(m[j])
  <2>1. m[j] \in Job
    BY <1>2 DEF Stores
  <2>2. r \in Job /\ r.enabled = m[j].enabled /\ r.status = m[j].status
        /\ r.next = IF m[j].enabled THEN m[j].next ELSE "none"
    BY <2>1, NormalisedFacts
  <2>3. Recompute(m, late)[j] = IF r.enabled /\ (r.next = "none" \/ j \in late)
                                THEN [r EXCEPT !.next = ComputeNext(j, r)] ELSE r
    BY <1>2 DEF Recompute
  <2> HIDE DEF r
  <2>4. /\ ComputeNext(j, r) \in {"none", "future", "past"}
        /\ j \in OneShot /\ r.status = "ok" => ComputeNext(j, r) = "none"
    BY <2>2, ComputeNextType
  <2>5. NoJob \notin Job
    BY CronAssumption
  <2> QED BY <1>2, <2>1, <2>2, <2>3, <2>4, <2>5 DEF Job
<1> QED BY <1>1, <1>2

LEMMA RecomputeType ==
  ASSUME NEW m \in Stores, NEW late
  PROVE  Recompute(m, late) \in Stores
<1>1. \A j \in Jobs : Recompute(m, late)[j] \in Job \cup {NoJob}
  BY RecomputeFacts DEF Stores
<1> QED BY <1>1 DEF Recompute, Stores

LEMMA ApplyResultFacts ==
  ASSUME NEW j \in Jobs, NEW r \in Job, NEW outcome \in Outcomes
  PROVE  LET new == ApplyResult(j, r, outcome) IN
         /\ new \in Job \cup {NoJob}
         /\ new # NoJob /\ j \in OneShot /\ new.status = "ok" => new.next = "none"
<1> DEFINE errors == IF outcome \in {"transient", "permanent"} /\ j \in OneShot
                     THEN CountError(r) ELSE 0
           retry  == outcome = "transient" /\ errors <= MaxAttempts
           status == IF j \notin OneShot THEN r.status
                     ELSE IF outcome = "ok" THEN "ok" ELSE "other"
           done   == [r EXCEPT !.marker = "none", !.errors = errors, !.status = status]
<1>1. errors \in 0 .. MaxAttempts + 1
  BY CronAssumption DEF CountError, Job
<1>2. status \in {"none", "ok", "other"}
  BY DEF Job
<1> HIDE DEF errors, status
<1>3. done \in Job /\ done.status = status
  BY <1>1, <1>2 DEF Job
<1>4. ApplyResult(j, r, outcome) =
        IF r.delete /\ outcome = "ok" THEN NoJob
        ELSE IF j \in OneShot
          THEN IF retry THEN [done EXCEPT !.next = "future"]
               ELSE [done EXCEPT !.enabled = FALSE, !.next = "none"]
        ELSE [done EXCEPT !.next = ComputeNext(j, done)]
  BY DEF ApplyResult, errors, status
<1>5. j \in OneShot /\ retry => status # "ok"
  BY DEF status
<1> HIDE DEF done, retry
<1>6. ComputeNext(j, done) \in {"none", "future", "past"}
  BY <1>3, ComputeNextType
<1>7. NoJob \notin Job
  BY CronAssumption
<1> QED BY <1>3, <1>4, <1>5, <1>6, <1>7 DEF Job

-----------------------------------------------------------------------------
(* The timer.  A sleeping task is the one _task refers to; at most one     *)
(* task is in a tick, with the running guard set, and it has been          *)
(* cancelled if _task is another one by now.                               *)
InTick(r) == r.pc \in {"pick", "run", "apply", "close"}

TaskOK(r, current_) ==
  /\ r.pc = "free" => r = Free
  /\ r.pc = "sleep" => r = Sleeping /\ current_
  /\ InTick(r) => r.cancelled \/ current_
  /\ r.job # NoJob => r.pc = "run"
  /\ r.pc = "pick" => r.batch = {} /\ r.results = {}

TimerOK(tk, cur, busy) ==
  /\ tk \in [Tasks -> Task] /\ cur \in Tasks \cup {NoTask}
  /\ \A t \in Tasks : TaskOK(tk[t], cur = t)
  /\ \A t \in Tasks : InTick(tk[t]) => busy
  /\ \A t, u \in Tasks : InTick(tk[t]) /\ InTick(tk[u]) => t = u

(* What is left of the timer when an operation has cancelled it. *)
Disarmed(tk, busy) ==
  /\ tk \in [Tasks -> Task]
  /\ \A t \in Tasks : tk[t].pc # "sleep" /\ TaskOK(tk[t], FALSE)
  /\ \A t \in Tasks : InTick(tk[t]) => busy
  /\ \A t, u \in Tasks : InTick(tk[t]) /\ InTick(tk[u]) => t = u

LEMMA FreeSleeping ==
  /\ Free \in Task /\ Free.pc = "free" /\ Free.job = NoJob
  /\ Sleeping \in Task /\ Sleeping.pc = "sleep" /\ Sleeping.job = NoJob
  /\ Sleeping.batch = {} /\ Sleeping.results = {} /\ Sleeping.cancelled = FALSE
BY DEF Free, Sleeping, Task

LEMMA TaskOKFree == \A c \in BOOLEAN : TaskOK(Free, c) /\ TaskOK(Sleeping, TRUE)
BY FreeSleeping DEF TaskOK, InTick

LEMMA NewTimerFacts ==
  ASSUME NEW tk \in [Tasks -> Task], NEW busy \in BOOLEAN, Disarmed(tk, busy), NewTimer(tk)
  PROVE  /\ TimerOK(task', current', busy)
         /\ \A t \in Tasks : InTick(task'[t]) => task'[t].cancelled
         /\ \E t \in Tasks : task'[t].pc # "free"
<1> DEFINE free == {t \in Tasks : tk[t].pc = "free"}
<1>1. PICK t \in free : task' = [tk EXCEPT ![t] = Sleeping] /\ current' = t
  BY DEF NewTimer
<1>2. t \in Tasks /\ tk[t].pc = "free"
  BY <1>1
<1> HIDE DEF free
<1>3. task' \in [Tasks -> Task] /\ task'[t] = Sleeping
      /\ \A u \in Tasks : u # t => task'[u] = tk[u]
  BY <1>1, <1>2, FreeSleeping
<1>4. \A u \in Tasks : TaskOK(task'[u], current' = u)
  BY <1>1, <1>3, TaskOKFree DEF Disarmed, TaskOK
<1>5. \A u \in Tasks : InTick(task'[u]) => u # t
  BY <1>3, FreeSleeping DEF InTick
<1>6. \A u \in Tasks : InTick(task'[u]) => task'[u].cancelled /\ busy
  BY <1>3, <1>5 DEF Disarmed, TaskOK
<1>7. \A u, v \in Tasks : InTick(task'[u]) /\ InTick(task'[v]) => u = v
  BY <1>3, <1>5 DEF Disarmed
<1>8. task'[t].pc # "free"
  BY <1>3, FreeSleeping
<1> QED BY <1>1, <1>2, <1>3, <1>4, <1>6, <1>7, <1>8 DEF TimerOK

LEMMA CancelDisarms ==
  ASSUME NEW tk, NEW busy \in BOOLEAN, TimerOK(tk, current, busy)
  PROVE  CancelCurrent(tk) \in [Tasks -> Task] /\ Disarmed(CancelCurrent(tk), busy)
<1>1. CASE current = NoTask \/ tk[current].pc = "free"
  <2>1. CancelCurrent(tk) = tk
    BY <1>1 DEF CancelCurrent
  <2>2. \A t \in Tasks : tk[t].pc # "sleep" /\ TaskOK(tk[t], FALSE)
    BY <1>1, CronAssumption DEF TimerOK, TaskOK, InTick
  <2> QED BY <2>1, <2>2 DEF TimerOK, Disarmed
<1>2. CASE current # NoTask /\ tk[current].pc # "free"
  <2>1. current \in Tasks /\ tk \in [Tasks -> Task] /\ tk[current] \in Task
    BY <1>2 DEF TimerOK
  <2>2. CASE tk[current].pc = "sleep"
    <3>1. CancelCurrent(tk) = [tk EXCEPT ![current] = Free]
      BY <1>2, <2>2 DEF CancelCurrent
    <3>2. /\ CancelCurrent(tk) \in [Tasks -> Task] /\ CancelCurrent(tk)[current] = Free
          /\ \A t \in Tasks : t # current => CancelCurrent(tk)[t] = tk[t]
      BY <2>1, <3>1, FreeSleeping
    <3>3. \A t \in Tasks : t # current => tk[t].pc # "sleep" /\ TaskOK(tk[t], FALSE)
      BY DEF TimerOK, TaskOK
    <3>4. Free.pc # "sleep" /\ TaskOK(Free, FALSE) /\ ~ InTick(Free)
      BY FreeSleeping, TaskOKFree DEF InTick
    <3> QED BY <3>2, <3>3, <3>4 DEF TimerOK, Disarmed
  <2>3. CASE tk[current].pc # "sleep"
    <3> DEFINE r == [tk[current] EXCEPT !.cancelled = TRUE]
    <3>1. CancelCurrent(tk) = [tk EXCEPT ![current] = r]
      BY <1>2, <2>1, <2>3 DEF CancelCurrent
    <3>2. r \in Task /\ r.pc = tk[current].pc /\ r.cancelled /\ r.job = tk[current].job
          /\ r.batch = tk[current].batch /\ r.results = tk[current].results
      BY <2>1 DEF Task
    <3> HIDE DEF r
    <3>3. /\ CancelCurrent(tk) \in [Tasks -> Task] /\ CancelCurrent(tk)[current] = r
          /\ \A t \in Tasks : t # current => CancelCurrent(tk)[t] = tk[t]
      BY <2>1, <3>1, <3>2
    <3>4. \A t \in Tasks : t # current => tk[t].pc # "sleep" /\ TaskOK(tk[t], FALSE)
      BY DEF TimerOK, TaskOK
    <3>5. InTick(r) /\ InTick(tk[current])
      BY <1>2, <2>1, <2>3, <3>2 DEF Task, InTick
    <3>6. TaskOK(tk[current], TRUE)
      BY <2>1 DEF TimerOK
    <3>7. TaskOK(r, FALSE)
      BY <1>2, <2>3, <3>2, <3>6 DEF TaskOK
    <3> QED BY <2>1, <2>3, <3>2, <3>3, <3>4, <3>5, <3>7 DEF TimerOK, Disarmed
  <2> QED BY <2>2, <2>3
<1> QED BY <1>1, <1>2

(* _arm_timer leaves a timer for the next run, and no tick that goes on.   *)
LEMMA ArmTimerFacts ==
  ASSUME NEW tk, NEW m, NEW busy \in BOOLEAN, TimerOK(tk, current, busy), ArmTimer(tk, m)
  PROVE  /\ TimerOK(task', current', busy)
         /\ \A t \in Tasks : InTick(task'[t]) => task'[t].cancelled
         /\ HasNextRun(m) => \E t \in Tasks : task'[t].pc # "free"
<1>1. CASE HasNextRun(m)
  BY <1>1, CancelDisarms, NewTimerFacts DEF ArmTimer
<1>2. CASE ~ HasNextRun(m)
  <2>1. task' = CancelCurrent(tk) /\ current' = NoTask
    BY <1>2 DEF ArmTimer
  <2>2. task' \in [Tasks -> Task] /\ Disarmed(task', busy)
    BY <2>1, CancelDisarms
  <2>3. \A t \in Tasks : (current' = t) = FALSE
    BY <2>1, CronAssumption
  <2>4. \A t \in Tasks : InTick(task'[t]) => task'[t].cancelled
    BY <2>2 DEF Disarmed, TaskOK
  <2>5. \A t \in Tasks : TaskOK(task'[t], current' = t)
    BY <2>2, <2>3 DEF Disarmed
  <2> QED BY <1>2, <2>1, <2>2, <2>4, <2>5 DEF TimerOK, Disarmed
<1> QED BY <1>1, <1>2

-----------------------------------------------------------------------------
(* The jobs.  r and s are one job but for the marker; a step from r to s   *)
(* neither decides about the job nor takes its marker.                     *)
Same(r, s) ==
  /\ r = NoJob <=> s = NoJob
  /\ r # NoJob => /\ r.enabled = s.enabled /\ r.next = s.next /\ r.status = s.status
                  /\ r.errors = s.errors /\ r.atPast = s.atPast /\ r.delete = s.delete

Keeps(r, s) ==
  /\ r = NoJob <=> s = NoJob
  /\ r # NoJob => /\ s.enabled = r.enabled /\ s.status = r.status
                  /\ s.next = "none" <=> r.next = "none"
                  /\ r.marker # "none" => s.marker # "none"

(* A one-shot job that has succeeded has no next run. *)
OkOver(m) ==
  \A j \in OneShot : m[j] # NoJob /\ m[j].status = "ok" => m[j].next = "none"

(* The marker of j is set or cleared. *)
WithMarker(m, j, k) == [m EXCEPT ![j].marker = k]

LEMMA MarkFacts ==
  ASSUME NEW m \in Stores, NEW j \in Jobs, m[j] # NoJob, NEW k \in {"none", "fresh", "stale"}
  PROVE  LET n == WithMarker(m, j, k) IN
         /\ n \in Stores /\ n[j] # NoJob /\ n[j].marker = k
         /\ \A i \in Jobs : Same(m[i], n[i]) /\ (i # j => n[i] = m[i])
<1> DEFINE r == [m[j] EXCEPT !.marker = k]
<1>1. m[j] \in Job
  BY DEF Stores
<1>2. r \in Job /\ r.marker = k /\ r # NoJob /\ Same(m[j], r)
  BY <1>1, CronAssumption DEF Job, Same
<1> HIDE DEF r
<1>3. \A i \in Jobs : Same(m[i], m[i])
  BY DEF Same
<1>4. WithMarker(m, j, k) = [m EXCEPT ![j] = r]
  BY DEF WithMarker, r
<1> QED BY <1>2, <1>3, <1>4 DEF Stores

LEMMA LaterFacts ==
  ASSUME NEW m \in Stores, NEW j \in Jobs
  PROVE  /\ Later(m, j) \in Stores
         /\ \A i \in Jobs : Keeps(m[i], Later(m, j)[i])
         /\ \A i \in Jobs : m[i] # NoJob /\ m[i].next # "future" => Later(m, j)[i].next = m[i].next
         /\ \A d \in Stores, i \in Jobs :
              (\A h \in Jobs : Same(m[h], d[h])) => Same(Later(m, j)[i], Later(d, j)[i])
<1> DEFINE once == j \in OneShot
           L(r) == [r EXCEPT !.next = IF @ = "future" THEN "past" ELSE @, !.atPast = once]
<1>0. once \in BOOLEAN
  OBVIOUS
<1>1. ASSUME NEW d \in Stores
      PROVE  \A i \in Jobs : Later(d, j)[i] = IF i = j /\ d[j] # NoJob THEN L(d[j]) ELSE d[i]
  BY <1>1 DEF Later, Stores
<1> HIDE DEF once
<1>2. ASSUME NEW r \in Job
      PROVE  /\ L(r) \in Job /\ L(r) # NoJob /\ Keeps(r, L(r))
             /\ r.next # "future" => L(r).next = r.next
             /\ L(r).enabled = r.enabled /\ L(r).status = r.status /\ L(r).errors = r.errors
             /\ L(r).delete = r.delete /\ L(r).atPast = once
             /\ L(r).next = IF r.next = "future" THEN "past" ELSE r.next
  <2>1. L(r) \in Job
    BY <1>0 DEF Job
  <2>2. /\ L(r).enabled = r.enabled /\ L(r).status = r.status /\ L(r).errors = r.errors
        /\ L(r).delete = r.delete /\ L(r).marker = r.marker
    BY DEF Job
  <2>3. L(r).next = IF r.next = "future" THEN "past" ELSE r.next
    BY DEF Job
  <2>4. L(r).atPast = once
    BY DEF Job
  <2> HIDE DEF L
  <2> QED BY <2>1, <2>2, <2>3, <2>4, CronAssumption DEF Keeps, Job
<1> HIDE DEF L
<1>3. \A i \in Jobs : m[i] \in Job \cup {NoJob} /\ Keeps(m[i], m[i])
  BY DEF Stores, Keeps
<1>4. \A i \in Jobs : Later(m, j)[i] \in Job \cup {NoJob}
  BY <1>1, <1>2, <1>3
<1>5. Later(m, j) \in Stores
  <2>1. CASE m[j] = NoJob
    BY <2>1 DEF Later
  <2>2. CASE m[j] # NoJob
    <3>1. DOMAIN Later(m, j) = Jobs /\ Later(m, j) = [i \in Jobs |-> Later(m, j)[i]]
      BY <2>2 DEF Later, Stores
    <3> QED BY <1>4, <3>1 DEF Stores
  <2> QED BY <2>1, <2>2
<1>6. ASSUME NEW d \in Stores, \A h \in Jobs : Same(m[h], d[h]), NEW i \in Jobs
      PROVE  Same(Later(m, j)[i], Later(d, j)[i])
  <2>1. d[i] \in Job \cup {NoJob} /\ Same(m[i], d[i])
    BY <1>6 DEF Stores
  <2>2. CASE i # j \/ m[j] = NoJob
    <3>1. Same(m[j], d[j])
      BY <1>6
    <3> QED BY <1>1, <1>6, <2>1, <2>2, <3>1 DEF Same
  <2>3. CASE i = j /\ m[j] # NoJob
    <3>1. m[j] \in Job /\ d[j] \in Job /\ d[j] # NoJob
      BY <1>3, <2>1, <2>3 DEF Same
    <3>2. Later(m, j)[i] = L(m[j]) /\ Later(d, j)[i] = L(d[j])
      BY <1>1, <1>6, <2>3, <3>1
    <3> QED BY <1>2, <2>1, <2>3, <3>1, <3>2 DEF Same
  <2> QED BY <2>2, <2>3
<1> QED BY <1>1, <1>2, <1>3, <1>5, <1>6

LEMMA AgedFacts ==
  ASSUME NEW m \in Stores, NEW j \in Jobs
  PROVE  /\ Aged(m, j) \in Stores
         /\ \A i \in Jobs : Keeps(m[i], Aged(m, j)[i]) /\ Same(m[i], Aged(m, j)[i])
<1>1. CASE m[j] # NoJob /\ m[j].marker = "fresh"
  <2>1. Aged(m, j) = WithMarker(m, j, "stale")
    BY <1>1 DEF Aged, WithMarker
  <2>2. /\ Aged(m, j) \in Stores /\ Aged(m, j)[j].marker = "stale"
        /\ \A i \in Jobs : Same(m[i], Aged(m, j)[i]) /\ (i # j => Aged(m, j)[i] = m[i])
    BY <1>1, <2>1, MarkFacts
  <2> QED BY <2>2 DEF Keeps, Same
<1>2. CASE ~ (m[j] # NoJob /\ m[j].marker = "fresh")
  BY <1>2 DEF Aged, Keeps, Same
<1> QED BY <1>1, <1>2

LEMMA SameTransitive ==
  \A q, r, s : (Same(q, r) /\ Same(r, s) => Same(q, s)) /\ (Same(q, r) => Same(r, q)) /\ Same(q, q)
BY DEF Same

-----------------------------------------------------------------------------
(* The inductive invariant.  File and memory have the same jobs; what a    *)
(* tick that goes on has picked is marked, and what it has yet to start is *)
(* live; a job executed under the lock is marked; a process that is down   *)
(* has nothing but the file; during start() there is no timer, the missed  *)
(* jobs are live and no other job that may run is overdue.                 *)
Live(j) == mem[j] # NoJob /\ mem[j].enabled /\ ~ (j \in OneShot /\ mem[j].status = "ok")
Marked(j) == mem[j] # NoJob /\ mem[j].marker # "none"

Durable == up /\ lock.by # "start" => \A j \in Jobs : Same(mem[j], disk[j])

PickedBy(t) ==
  task[t].pc \in {"run", "apply"} /\ ~ task[t].cancelled =>
    /\ \A j \in task[t].batch : Live(j) /\ Marked(j)
    /\ task[t].job # NoJob => Marked(task[t].job)
    /\ \A r \in task[t].results : Marked(r[1])

Picked == \A t \in Tasks : PickedBy(t)

LockHeld ==
  /\ lock.by = "run" => lock.job # NoJob
  /\ lock.job # NoJob => Marked(lock.job)

Offline ==
  ~ up => /\ lock = Unlocked /\ \A t \in Tasks : task[t] = Free
          /\ \A j \in Jobs : mem[j] = NoJob

Starting ==
  lock.by = "start" =>
    /\ \A t \in Tasks : task[t] = Free
    /\ \A j \in missed : j # lock.job /\ Live(j) /\ (j \in OneShot => mem[j].status = "none")
    /\ \A j \in overdue \ OneShot :
         mem[j] # NoJob => ~ mem[j].enabled \/ j \in missed \/ j = lock.job

Sound ==
  /\ TimerOK(task, current, timerRunning) /\ SchedulerAlive
  /\ Durable /\ OkOver(mem) /\ OkOver(disk)
  /\ Picked /\ LockHeld /\ Offline /\ Starting

Scheduler == TypeOK /\ Sound

(* What types a step has to keep besides those of TimerOK. *)
OtherTypes ==
  /\ up \in BOOLEAN /\ timerRunning \in BOOLEAN
  /\ mem \in Stores /\ disk \in Stores
  /\ unused \subseteq Jobs /\ missed \subseteq Jobs /\ overdue \subseteq Jobs
  /\ lock \in [by : {"nobody", "start", "run"}, job : Jobs \cup {NoJob}]
  /\ ops \in 0 .. MaxOps /\ crashes \in 0 .. MaxCrashes

LEMMA TypesSplit ==
  /\ TypeOK => OtherTypes
  /\ OtherTypes /\ TimerOK(task, current, timerRunning) => TypeOK
<1>1. TimerOK(task, current, timerRunning) =>
        /\ task \in [Tasks -> Task] /\ current \in Tasks \cup {NoTask}
        /\ \A t \in Tasks : task[t].pc = "sleep" => current = t
  BY DEF TimerOK, TaskOK
<1>2. TypeOK => OtherTypes
  BY DEF TypeOK, OtherTypes, Stores
<1>3. OtherTypes /\ TimerOK(task, current, timerRunning) => TypeOK
  BY <1>1 DEF TypeOK, OtherTypes, Stores
<1> QED BY <1>2, <1>3

LEMMA SchedulerNext == OtherTypes' /\ Sound' => Scheduler'
<1>1. OtherTypes /\ Sound => Scheduler
  BY TypesSplit DEF Scheduler, Sound
<1>2. (OtherTypes /\ Sound => Scheduler)'
  BY <1>1, PTL
<1> QED BY <1>2

LEMMA UnlockedFacts == Unlocked.by = "nobody" /\ Unlocked.job = NoJob
BY DEF Unlocked

LEMMA NextRunKept ==
  ASSUME \A j \in Jobs : Keeps(mem[j], mem'[j]), HasNextRun(mem)'
  PROVE  HasNextRun(mem)
<1>1. PICK j \in Jobs : mem'[j] # NoJob /\ mem'[j].enabled /\ mem'[j].next # "none"
  BY DEF HasNextRun, Known
<1>2. mem[j] # NoJob /\ mem[j].enabled /\ mem[j].next # "none"
  BY <1>1 DEF Keeps
<1> QED BY <1>2 DEF HasNextRun, Known

(* A step of another part of the system: jobs keep what is decided.        *)
LEMMA SteadyStep ==
  ASSUME Scheduler, \A j \in Jobs : Keeps(mem[j], mem'[j]),
         UNCHANGED <<task, current, timerRunning, up, missed, overdue>>,
         lock'.by = "start" <=> lock.by = "start", lock.by = "start" \/ ~ up => lock' = lock,
         LockHeld', Durable', OkOver(mem'), OkOver(disk')
  PROVE  Sound'
<1> USE DEF Scheduler, Sound
<1>1. TypeOK /\ \A j \in Jobs : /\ Live(j) => Live(j)'
                                /\ Marked(j) => Marked(j)'
  BY DEF Keeps, Live, Marked
<1>2. TimerOK(task, current, timerRunning)'
  BY DEF TimerOK, TaskOK, InTick
<1>3. SchedulerAlive'
  BY NextRunKept DEF SchedulerAlive
<1>4. Picked'
  <2> SUFFICES ASSUME NEW t \in Tasks, task[t].pc \in {"run", "apply"}, ~ task[t].cancelled
               PROVE  /\ \A j \in task[t].batch : Live(j)' /\ Marked(j)'
                      /\ task[t].job # NoJob => Marked(task[t].job)'
                      /\ \A r \in task[t].results : Marked(r[1])'
    BY DEF Picked, PickedBy
  <2>1. task[t].batch \subseteq Jobs /\ task[t].job \in Jobs \cup {NoJob}
        /\ task[t].results \subseteq Jobs \X Outcomes
    BY <1>1 DEF TypeOK, Task
  <2>2. \A r \in task[t].results : r[1] \in Jobs
    BY <2>1
  <2> QED BY <1>1, <2>1, <2>2 DEF Picked, PickedBy
<1>5. Offline'
  BY DEF Offline, Keeps
<1>6. Starting'
  <2>1. missed \subseteq Jobs /\ overdue \subseteq Jobs
    BY <1>1 DEF TypeOK
  <2> QED BY <1>1, <2>1 DEF Starting, Keeps
<1> QED BY <1>2, <1>3, <1>4, <1>5, <1>6

(* A step that arms the timer: no tick goes on after it.                   *)
LEMMA ArmedStep ==
  ASSUME Scheduler, TimerOK(task', current', timerRunning'),
         \A t \in Tasks : InTick(task'[t]) => task'[t].cancelled,
         HasNextRun(mem') => \E t \in Tasks : task'[t].pc # "free",
         up', lock'.by # "start", LockHeld', Durable', OkOver(mem'), OkOver(disk')
  PROVE  Sound'
<1>1. SchedulerAlive'
  BY DEF SchedulerAlive
<1>2. Picked'
  BY DEF Picked, PickedBy, InTick
<1> QED BY <1>1, <1>2 DEF Sound, Offline, Starting

(* A step of the tick of the task t, or one that makes it a tick.          *)
LEMMA TickStepSound ==
  ASSUME Scheduler, NEW t \in Tasks, task[t].pc # "free", NEW r \in Task,
         task' = [task EXCEPT ![t] = r], TaskOK(r, current = t), InTick(r),
         InTick(task[t]) \/ ~ timerRunning, timerRunning' = TRUE,
         UNCHANGED <<current, up, lock>>,
         PickedBy(t)', LockHeld', Durable', OkOver(mem'), OkOver(disk')
  PROVE  Sound'
<1> USE DEF Scheduler, Sound
<1>1. task \in [Tasks -> Task] /\ task[t] # Free
  BY FreeSleeping DEF TimerOK
<1>2. task' \in [Tasks -> Task] /\ task'[t] = r /\ \A u \in Tasks : u # t => task'[u] = task[u]
  BY <1>1
<1>3. \A u \in Tasks : u # t => ~ InTick(task[u])
  BY DEF TimerOK
<1>4. TimerOK(task, current, timerRunning)'
  <2>1. \A u \in Tasks : TaskOK(task'[u], current' = u)
    BY <1>2 DEF TimerOK
  <2> QED BY <1>2, <1>3, <2>1 DEF TimerOK
<1>5. SchedulerAlive'
  BY <1>2 DEF SchedulerAlive, InTick
<1>6. Picked'
  BY <1>2, <1>3 DEF Picked, PickedBy, InTick
<1>7. up /\ lock.by # "start"
  BY <1>1 DEF Offline, Starting
<1> QED BY <1>4, <1>5, <1>6, <1>7 DEF Offline, Starting

-----------------------------------------------------------------------------
(* The stores that the steps compute.                                      *)

LEMMA MarkRecord ==
  ASSUME NEW r \in Job, NEW k \in {"none", "fresh", "stale"}
  PROVE  LET s == [r EXCEPT !.marker = k] IN
         s \in Job /\ s # NoJob /\ s.marker = k /\ Same(r, s)
<1> DEFINE s == [r EXCEPT !.marker = k]
<1>1. s \in Job /\ s.marker = k
  BY DEF Job
<1>2. Same(r, s)
  BY <1>1, CronAssumption DEF Job, Same
<1> QED BY <1>1, <1>2, CronAssumption

LEMMA RecomputeOk ==
  ASSUME NEW m \in Stores, OkOver(m), NEW late
  PROVE  Recompute(m, late) \in Stores /\ OkOver(Recompute(m, late))
<1>1. ASSUME NEW j \in OneShot, Recompute(m, late)[j] # NoJob, Recompute(m, late)[j].status = "ok"
      PROVE  Recompute(m, late)[j].next = "none"
  <2>1. j \in Jobs
    BY CronAssumption
  <2> QED BY <1>1, <2>1, RecomputeFacts DEF OkOver
<1> QED BY <1>1, RecomputeType DEF OkOver

LEMMA AppliedFacts ==
  ASSUME NEW m \in Stores, OkOver(m), NEW results \in SUBSET (Jobs \X Outcomes)
  PROVE  /\ Applied(results, m) \in Stores /\ OkOver(Applied(results, m))
         /\ \A j \in Jobs : (\A r \in results : r[1] # j) => Applied(results, m)[j] = m[j]
<1> DEFINE rs(j) == {r \in results : r[1] = j}
<1>1. \A j \in Jobs : Applied(results, m)[j] =
        IF rs(j) = {} \/ m[j] = NoJob THEN m[j]
        ELSE ApplyResult(j, m[j], (CHOOSE r \in rs(j) : TRUE)[2])
  BY DEF Applied
<1>2. ASSUME NEW j \in Jobs
      PROVE  /\ Applied(results, m)[j] \in Job \cup {NoJob}
             /\ j \in OneShot /\ Applied(results, m)[j] # NoJob
                /\ Applied(results, m)[j].status = "ok" => Applied(results, m)[j].next = "none"
  <2>1. CASE rs(j) = {} \/ m[j] = NoJob
    <3>1. Applied(results, m)[j] = m[j]
      BY <1>1, <2>1
    <3> QED BY <3>1 DEF Stores, OkOver
  <2>2. CASE rs(j) # {} /\ m[j] # NoJob
    <3> DEFINE o == (CHOOSE r \in rs(j) : TRUE)[2]
    <3>1. o \in Outcomes
      BY <2>2
    <3>2. m[j] \in Job
      BY <2>2 DEF Stores
    <3>3. Applied(results, m)[j] = ApplyResult(j, m[j], o)
      BY <1>1, <2>2
    <3> HIDE DEF o
    <3> QED BY <3>1, <3>2, <3>3, ApplyResultFacts
  <2> QED BY <2>1, <2>2
<1>3. Applied(results, m) \in Stores
  BY <1>2 DEF Applied, Stores
<1>4. OkOver(Applied(results, m))
  BY <1>2, CronAssumption DEF OkOver
<1> QED BY <1>1, <1>3, <1>4

LEMMA EditFacts ==
  ASSUME NEW m \in Stores, OkOver(m), NEW j \in Jobs, NEW r \in Job \cup {NoJob},
         r # NoJob /\ j \in OneShot /\ r.status = "ok" => r.next = "none"
  PROVE  [m EXCEPT ![j] = r] \in Stores /\ OkOver([m EXCEPT ![j] = r])
<1>1. [m EXCEPT ![j] = r] \in Stores
  BY DEF Stores
<1>2. \A i \in OneShot : i \in Jobs
  BY CronAssumption
<1> QED BY <1>1, <1>2 DEF OkOver, Stores

-----------------------------------------------------------------------------
(* The operations of users.                                                *)

LEMMA CommitSound ==
  ASSUME Scheduler, NEW m \in Stores, OkOver(m), mem' = m, disk' = m, ArmTimer(task, m),
         up, UNCHANGED <<up, timerRunning>>, lock' = Unlocked
  PROVE  Sound' /\ mem' \in Stores /\ disk' \in Stores
<1>1. TimerOK(task, current, timerRunning) /\ timerRunning \in BOOLEAN
  BY DEF Scheduler, Sound, TypeOK
<1>2. /\ TimerOK(task', current', timerRunning')
      /\ \A t \in Tasks : InTick(task'[t]) => task'[t].cancelled
      /\ HasNextRun(mem') => \E t \in Tasks : task'[t].pc # "free"
  BY <1>1, ArmTimerFacts
<1>3. Durable'
  BY SameTransitive DEF Durable
<1>4. lock'.by # "start" /\ LockHeld'
  BY UnlockedFacts DEF LockHeld
<1> QED BY <1>2, <1>3, <1>4, ArmedStep

LEMMA AddJobStep ==
  ASSUME Scheduler, NEW j \in Jobs, NEW enabled \in BOOLEAN, NEW atPast \in BOOLEAN,
         NEW delete \in BOOLEAN, AddJob(j, enabled, atPast, delete)
  PROVE  Scheduler'
<1> DEFINE past == atPast /\ j \in OneShot
           del  == delete /\ j \in OneShot
           r == [enabled |-> enabled, next |-> "none", marker |-> "none", status |-> "none",
                 errors |-> 0, atPast |-> past, delete |-> del]
           s == [r EXCEPT !.next = ComputeNext(j, r)]
           m == [mem EXCEPT ![j] = s]
<1>1. past \in BOOLEAN /\ del \in BOOLEAN
  OBVIOUS
<1>2. Operation /\ Commit(m) /\ unused' = unused \ {j} /\ UNCHANGED lock
  BY DEF AddJob
<1> HIDE DEF past, del
<1>3. r \in Job /\ r.status = "none"
  BY <1>1, CronAssumption DEF Job
<1> HIDE DEF r
<1>4. ComputeNext(j, r) \in {"none", "future", "past"}
  BY <1>3, ComputeNextType
<1>5. s \in Job /\ s.status = "none"
  BY <1>3, <1>4 DEF Job
<1> HIDE DEF s
<1>6. OtherTypes /\ OkOver(mem)
  BY TypesSplit DEF Scheduler, Sound
<1>7. m \in Stores /\ OkOver(m)
  BY <1>5, <1>6, EditFacts DEF OtherTypes
<1> HIDE DEF m
<1>8. Sound' /\ mem' \in Stores /\ disk' \in Stores
  BY <1>2, <1>7, CommitSound DEF Operation, Ready, Idle, Commit
<1>9. OtherTypes'
  BY <1>2, <1>6, <1>8, CronAssumption DEF OtherTypes, Operation
<1> QED BY <1>8, <1>9, SchedulerNext

LEMMA UpdateJobStep ==
  ASSUME Scheduler, NEW j \in Jobs, NEW enabled \in BOOLEAN, NEW atPast \in BOOLEAN,
         UpdateJob(j, enabled, atPast)
  PROVE  Scheduler'
<1> DEFINE past == atPast /\ j \in OneShot
           r == [mem[j] EXCEPT !.enabled = enabled, !.atPast = past]
           k == IF enabled THEN r.marker ELSE "none"
           s == [r EXCEPT !.next = ComputeNext(j, r), !.marker = k]
           m == [mem EXCEPT ![j] = s]
<1>1. past \in BOOLEAN
  OBVIOUS
<1>2. Operation /\ mem[j] # NoJob /\ Commit(m) /\ UNCHANGED <<unused, lock>>
  BY DEF UpdateJob
<1>3. OtherTypes /\ OkOver(mem)
  BY TypesSplit DEF Scheduler, Sound
<1>4. mem[j] \in Job
  BY <1>2, <1>3 DEF OtherTypes, Stores
<1> HIDE DEF past
<1>5. r \in Job
  BY <1>1, <1>4 DEF Job
<1> HIDE DEF r
<1>6. k \in {"none", "fresh", "stale"}
  BY <1>5 DEF Job
<1> HIDE DEF k
<1>7. ComputeNext(j, r) \in {"none", "future", "past"}
      /\ (j \in OneShot /\ r.status = "ok" => ComputeNext(j, r) = "none")
  BY <1>5, ComputeNextType
<1>8. s \in Job /\ s.status = r.status /\ s.next = ComputeNext(j, r)
  BY <1>5, <1>6, <1>7 DEF Job
<1> HIDE DEF s
<1>9. m \in Stores /\ OkOver(m)
  BY <1>3, <1>7, <1>8, EditFacts DEF OtherTypes
<1> HIDE DEF m
<1>10. Sound' /\ mem' \in Stores /\ disk' \in Stores
  BY <1>2, <1>9, CommitSound DEF Operation, Ready, Idle, Commit
<1>11. OtherTypes'
  BY <1>2, <1>3, <1>10, CronAssumption DEF OtherTypes, Operation
<1> QED BY <1>10, <1>11, SchedulerNext

LEMMA RemoveJobStep ==
  ASSUME Scheduler, NEW j \in Jobs, RemoveJob(j)
  PROVE  Scheduler'
<1> DEFINE m == [mem EXCEPT ![j] = NoJob]
<1>1. Operation /\ Commit(m) /\ UNCHANGED <<unused, lock>>
  BY DEF RemoveJob
<1>2. OtherTypes /\ OkOver(mem)
  BY TypesSplit DEF Scheduler, Sound
<1>3. m \in Stores /\ OkOver(m)
  BY <1>2, EditFacts DEF OtherTypes
<1> HIDE DEF m
<1>4. Sound' /\ mem' \in Stores /\ disk' \in Stores
  BY <1>1, <1>3, CommitSound DEF Operation, Ready, Idle, Commit
<1>5. OtherTypes'
  BY <1>1, <1>2, <1>4, CronAssumption DEF OtherTypes, Operation
<1> QED BY <1>4, <1>5, SchedulerNext

(* A run under the lock marks its job. *)
LEMMA RunBeginsStep ==
  ASSUME Scheduler, NEW j \in Jobs, RunBegins(j)
  PROVE  Scheduler'
<1>1. /\ Operation /\ mem[j] # NoJob /\ lock' = [by |-> "run", job |-> j]
      /\ mem' = WithMarker(mem, j, "fresh") /\ UNCHANGED <<disk, unused, task, current>>
  BY DEF RunBegins, WithMarker
<1>2. OtherTypes /\ OkOver(mem) /\ OkOver(disk) /\ Durable
  BY TypesSplit DEF Scheduler, Sound
<1>3. /\ mem' \in Stores /\ mem'[j] # NoJob /\ mem'[j].marker = "fresh"
      /\ \A i \in Jobs : Same(mem[i], mem'[i]) /\ (i # j => mem'[i] = mem[i])
  BY <1>1, <1>2, MarkFacts DEF OtherTypes
<1>4. \A i \in Jobs : Keeps(mem[i], mem'[i])
  BY <1>3 DEF Keeps, Same
<1>5. up /\ lock.by = "nobody" /\ lock'.by = "run" /\ lock'.job = j
      /\ UNCHANGED <<up, timerRunning, missed, overdue>>
  BY <1>1, UnlockedFacts DEF Operation, Ready, Idle
<1>6. LockHeld'
  <2>1. Marked(j)'
    BY <1>3 DEF Marked
  <2>2. j # NoJob
    BY CronAssumption
  <2> QED BY <1>5, <2>1, <2>2 DEF LockHeld, Marked
<1>7. Durable'
  BY <1>1, <1>2, <1>3, <1>5, SameTransitive DEF Durable
<1>8. OkOver(mem') /\ OkOver(disk')
  BY <1>1, <1>2, <1>3, CronAssumption DEF OkOver, Same
<1>9. Sound'
  BY <1>1, <1>4, <1>5, <1>6, <1>7, <1>8, SteadyStep
<1>10. OtherTypes'
  BY <1>1, <1>2, <1>3, CronAssumption DEF OtherTypes, Operation
<1> QED BY <1>9, <1>10, SchedulerNext

LEMMA RunEndsStep ==
  ASSUME Scheduler, NEW outcome \in Outcomes, RunEnds(outcome)
  PROVE  Scheduler'
<1> DEFINE j == lock.job
           r == ApplyResult(j, mem[j], outcome)
           m == [mem EXCEPT ![j] = r]
<1>1. /\ lock.by = "run" /\ Commit(m) /\ lock' = Unlocked
      /\ UNCHANGED <<up, unused, timerRunning, missed, overdue, ops, crashes>>
  BY DEF RunEnds
<1>2. OtherTypes /\ OkOver(mem) /\ LockHeld /\ Offline
  BY TypesSplit DEF Scheduler, Sound
<1>3. j \in Jobs /\ mem[j] \in Job /\ up
  BY <1>1, <1>2, UnlockedFacts DEF LockHeld, Marked, Offline, OtherTypes, Stores
<1>4. r \in Job \cup {NoJob} /\ (r # NoJob /\ j \in OneShot /\ r.status = "ok" => r.next = "none")
  BY <1>3, ApplyResultFacts
<1> HIDE DEF r, j
<1>5. m \in Stores /\ OkOver(m)
  BY <1>2, <1>3, <1>4, EditFacts DEF OtherTypes
<1> HIDE DEF m
<1>6. Sound' /\ mem' \in Stores /\ disk' \in Stores
  BY <1>1, <1>3, <1>5, CommitSound DEF Commit
<1>7. lock' \in [by : {"nobody", "start", "run"}, job : Jobs \cup {NoJob}]
  BY <1>1, <1>2 DEF OtherTypes, Unlocked
<1>8. OtherTypes'
  BY <1>1, <1>2, <1>6, <1>7 DEF OtherTypes
<1> QED BY <1>6, <1>8, SchedulerNext

-----------------------------------------------------------------------------
(* The clock and an aborted run.                                           *)

LEMMA KeepsOk ==
  ASSUME NEW m, NEW n, OkOver(m), \A j \in Jobs : Keeps(m[j], n[j])
  PROVE  OkOver(n)
BY CronAssumption DEF OkOver, Keeps

LEMMA KeepsLock ==
  ASSUME Scheduler, \A j \in Jobs : Keeps(mem[j], mem'[j]), UNCHANGED lock
  PROVE  LockHeld'
<1>1. LockHeld /\ lock.job \in Jobs \cup {NoJob}
  BY DEF Scheduler, Sound, TypeOK
<1> QED BY <1>1 DEF LockHeld, Marked, Keeps

LEMMA TimePassesStep ==
  ASSUME Scheduler, NEW j \in Jobs, TimePasses(j)
  PROVE  Scheduler'
<1>1. OtherTypes /\ OkOver(mem) /\ OkOver(disk) /\ Durable
  BY TypesSplit DEF Scheduler, Sound
<1>2. /\ mem' = Later(mem, j) /\ disk' = Later(disk, j)
      /\ UNCHANGED <<up, unused, task, current, timerRunning, lock, missed, overdue, ops, crashes>>
  BY DEF TimePasses
<1>3. /\ mem' \in Stores /\ disk' \in Stores
      /\ \A i \in Jobs : Keeps(mem[i], mem'[i]) /\ Keeps(disk[i], disk'[i])
  BY <1>1, <1>2, LaterFacts DEF OtherTypes
<1>4. (\A h \in Jobs : Same(mem[h], disk[h])) => \A i \in Jobs : Same(mem'[i], disk'[i])
  BY <1>1, <1>2, LaterFacts DEF OtherTypes
<1>5. Durable'
  BY <1>1, <1>2, <1>4 DEF Durable
<1>6. OkOver(mem') /\ OkOver(disk') /\ LockHeld'
  BY <1>1, <1>2, <1>3, KeepsOk, KeepsLock
<1>7. Sound'
  BY <1>2, <1>3, <1>5, <1>6, SteadyStep
<1>8. OtherTypes'
  BY <1>1, <1>2, <1>3 DEF OtherTypes
<1> QED BY <1>7, <1>8, SchedulerNext

LEMMA MarkerAgesStep ==
  ASSUME Scheduler, NEW j \in Jobs, MarkerAges(j)
  PROVE  Scheduler'
<1>1. OtherTypes /\ OkOver(mem) /\ OkOver(disk) /\ Durable
  BY TypesSplit DEF Scheduler, Sound
<1>2. /\ mem' = Aged(mem, j) /\ disk' = Aged(disk, j)
      /\ UNCHANGED <<up, unused, task, current, timerRunning, lock, missed, overdue, ops, crashes>>
  BY DEF MarkerAges
<1>3. /\ mem' \in Stores /\ disk' \in Stores
      /\ \A i \in Jobs : Keeps(mem[i], mem'[i]) /\ Keeps(disk[i], disk'[i])
      /\ \A i \in Jobs : Same(mem[i], mem'[i]) /\ Same(disk[i], disk'[i])
  BY <1>1, <1>2, AgedFacts DEF OtherTypes
<1>4. Durable'
  <2> SUFFICES ASSUME up, lock.by # "start", NEW i \in Jobs PROVE Same(mem'[i], disk'[i])
    BY <1>2 DEF Durable
  <2>1. Same(mem[i], disk[i]) /\ Same(mem[i], mem'[i]) /\ Same(disk[i], disk'[i])
    BY <1>1, <1>3 DEF Durable
  <2> QED BY <2>1, SameTransitive
<1>5. OkOver(mem') /\ OkOver(disk') /\ LockHeld'
  BY <1>1, <1>2, <1>3, KeepsOk, KeepsLock
<1>6. Sound'
  BY <1>2, <1>3, <1>4, <1>5, SteadyStep
<1>7. OtherTypes'
  BY <1>1, <1>2, <1>3 DEF OtherTypes
<1> QED BY <1>6, <1>7, SchedulerNext

LEMMA RunAbortedStep ==
  ASSUME Scheduler, RunAborted
  PROVE  Scheduler'
<1>1. OtherTypes /\ OkOver(mem) /\ OkOver(disk) /\ Durable /\ Offline
  BY TypesSplit DEF Scheduler, Sound
<1>2. /\ lock.by = "run" /\ lock' = Unlocked
      /\ UNCHANGED <<up, mem, disk, unused, task, current, timerRunning, missed, overdue, ops, crashes>>
  BY DEF RunAborted
<1>3. up /\ lock'.by = "nobody" /\ lock'.job = NoJob
  BY <1>1, <1>2, UnlockedFacts DEF Offline
<1>4. \A i \in Jobs : Keeps(mem[i], mem'[i])
  BY <1>2 DEF Keeps
<1>5. Durable' /\ LockHeld'
  BY <1>1, <1>2, <1>3 DEF Durable, LockHeld
<1>6. Sound'
  BY <1>1, <1>2, <1>3, <1>4, <1>5, SteadyStep
<1>7. OtherTypes'
  BY <1>1, <1>2 DEF OtherTypes, Unlocked
<1> QED BY <1>6, <1>7, SchedulerNext

LEMMA StutterStep ==
  ASSUME Scheduler, UNCHANGED vars
  PROVE  Scheduler'
<1>1. OtherTypes /\ OkOver(mem) /\ OkOver(disk) /\ Durable
  BY TypesSplit DEF Scheduler, Sound
<1>2. \A i \in Jobs : Keeps(mem[i], mem'[i])
  BY DEF Keeps, vars
<1>3. Durable' /\ LockHeld'
  BY <1>1, <1>2, KeepsLock DEF Durable, vars
<1>4. Sound'
  BY <1>1, <1>2, <1>3, SteadyStep DEF vars
<1>5. OtherTypes'
  BY <1>1 DEF OtherTypes, vars
<1> QED BY <1>4, <1>5, SchedulerNext

-----------------------------------------------------------------------------
(* start() and the end of the process.                                     *)

LEMMA CrashStep ==
  ASSUME Scheduler, Crash
  PROVE  Scheduler'
<1>1. OtherTypes /\ OkOver(disk)
  BY TypesSplit DEF Scheduler, Sound
<1>2. /\ crashes < MaxCrashes /\ crashes' = crashes + 1 /\ up' = FALSE
      /\ mem' = [j \in Jobs |-> NoJob] /\ task' = [t \in Tasks |-> Free] /\ current' = NoTask
      /\ timerRunning' = FALSE /\ lock' = Unlocked /\ missed' = {} /\ overdue' = {}
      /\ UNCHANGED <<disk, unused, ops>>
  BY DEF Crash
<1>3. TimerOK(task', current', timerRunning')
  <2>1. task' \in [Tasks -> Task] /\ \A t \in Tasks : task'[t] = Free /\ ~ InTick(task'[t])
    BY <1>2, FreeSleeping DEF InTick
  <2>2. \A t \in Tasks : TaskOK(task'[t], current' = t)
    BY <2>1, TaskOKFree
  <2> QED BY <1>2, <2>1, <2>2 DEF TimerOK
<1>4. SchedulerAlive' /\ Durable' /\ Offline'
  BY <1>2 DEF SchedulerAlive, Durable, Offline
<1>5. OkOver(mem') /\ OkOver(disk')
  BY <1>1, <1>2, CronAssumption DEF OkOver
<1>6. LockHeld' /\ Starting'
  BY <1>2, UnlockedFacts DEF LockHeld, Starting
<1>7. Picked'
  BY <1>2, FreeSleeping DEF Picked, PickedBy
<1>8. mem' \in Stores /\ lock' \in [by : {"nobody", "start", "run"}, job : Jobs \cup {NoJob}]
  BY <1>2 DEF Stores, Unlocked
<1>9. OtherTypes'
  <2>1. crashes' \in 0 .. MaxCrashes
    BY <1>1, <1>2, CronAssumption DEF OtherTypes
  <2> QED BY <1>1, <1>2, <1>8, <2>1 DEF OtherTypes
<1>10. Sound'
  BY <1>3, <1>4, <1>5, <1>6, <1>7 DEF Sound
<1> QED BY <1>9, <1>10, SchedulerNext

(* During start(), with the timer not armed yet. *)
LEMMA StartPhase ==
  ASSUME Scheduler, \A t \in Tasks : task[t] = Free, lock'.by = "start", up',
         UNCHANGED <<task, current, timerRunning, disk>>, OkOver(mem'), LockHeld', Starting'
  PROVE  Sound'
<1>1. TimerOK(task, current, timerRunning)' /\ OkOver(disk')
  BY DEF Scheduler, Sound, TimerOK, TaskOK, InTick
<1>2. Picked'
  BY FreeSleeping DEF Picked, PickedBy
<1>3. SchedulerAlive' /\ Durable' /\ Offline'
  BY DEF SchedulerAlive, Durable, Offline
<1> QED BY <1>1, <1>2, <1>3 DEF Sound

LEMMA StartBeginsStep ==
  ASSUME Scheduler, StartBegins
  PROVE  Scheduler'
<1>1. OtherTypes /\ OkOver(disk) /\ Offline
  BY TypesSplit DEF Scheduler, Sound
<1>2. /\ ~ up /\ up' = TRUE /\ lock'.by = "start" /\ lock'.job = NoJob
      /\ overdue' = {j \in Known(mem') : mem'[j].next = "past"}
      /\ missed' = {j \in Known(mem') : Runnable(mem'[j])
                                        /\ ~(j \in OneShot /\ mem'[j].status # "none")}
      /\ UNCHANGED <<disk, unused, task, current, timerRunning, ops, crashes>>
  BY DEF StartBegins
<1>3. ASSUME NEW j \in Jobs
      PROVE  /\ mem'[j] \in Job \cup {NoJob} /\ Same(disk[j], mem'[j])
             /\ mem'[j] # NoJob => mem'[j].marker = "none"
  <2>1. mem'[j] = IF disk[j] = NoJob THEN NoJob ELSE [disk[j] EXCEPT !.marker = "none"]
    BY DEF StartBegins
  <2>2. CASE disk[j] = NoJob
    BY <2>1, <2>2 DEF Same
  <2>3. CASE disk[j] # NoJob
    <3>1. disk[j] \in Job
      BY <1>1, <2>3 DEF OtherTypes, Stores
    <3> QED BY <2>1, <2>3, <3>1, MarkRecord
  <2> QED BY <2>2, <2>3
<1>4. mem' \in Stores
  BY <1>3 DEF StartBegins, Stores
<1>5. OkOver(mem')
  BY <1>1, <1>3, CronAssumption DEF OkOver, Same
<1>6. \A t \in Tasks : task[t] = Free
  BY <1>1, <1>2 DEF Offline
<1>7. missed' \subseteq Jobs /\ overdue' \subseteq Jobs
  BY <1>2 DEF Known
<1>8. Starting'
  <2>1. \A j \in missed' : /\ j # lock'.job /\ mem'[j] # NoJob /\ mem'[j].enabled
                           /\ j \in OneShot => mem'[j].status = "none"
    BY <1>2, CronAssumption DEF Known, Runnable
  <2>2. \A j \in overdue' \ OneShot : mem'[j] # NoJob => ~ mem'[j].enabled \/ j \in missed'
    BY <1>2, <1>3 DEF Known, Runnable
  <2> QED BY <1>2, <1>6, <2>1, <2>2 DEF Starting, Live
<1>9. LockHeld'
  BY <1>2 DEF LockHeld
<1>10. Sound'
  BY <1>2, <1>5, <1>6, <1>8, <1>9, StartPhase
<1>11. lock' \in [by : {"nobody", "start", "run"}, job : Jobs \cup {NoJob}]
  BY DEF StartBegins
<1>12. OtherTypes'
  BY <1>1, <1>2, <1>4, <1>7, <1>11 DEF OtherTypes
<1> QED BY <1>10, <1>12, SchedulerNext

LEMMA StartRunsMissedStep ==
  ASSUME Scheduler, NEW j \in Jobs, StartRunsMissed(j)
  PROVE  Scheduler'
<1>1. OtherTypes /\ OkOver(mem) /\ Offline /\ Starting
  BY TypesSplit DEF Scheduler, Sound
<1>2. /\ lock = [by |-> "start", job |-> NoJob] /\ j \in missed
      /\ lock' = [lock EXCEPT !.job = j] /\ missed' = missed \ {j}
      /\ mem' = WithMarker(mem, j, "fresh")
      /\ UNCHANGED <<up, disk, unused, task, current, timerRunning, overdue, ops, crashes>>
  BY DEF StartRunsMissed, WithMarker
<1>3. lock.by = "start" /\ lock.job = NoJob /\ lock' = [by |-> "start", job |-> j]
      /\ lock'.by = "start" /\ lock'.job = j
  BY <1>2
<1>4. Live(j) /\ mem[j] # NoJob /\ up
  BY <1>1, <1>2, <1>3, UnlockedFacts DEF Starting, Live, Offline
<1>5. /\ mem' \in Stores /\ mem'[j] # NoJob /\ mem'[j].marker = "fresh"
      /\ \A i \in Jobs : Same(mem[i], mem'[i]) /\ (i # j => mem'[i] = mem[i])
  BY <1>1, <1>2, <1>4, MarkFacts DEF OtherTypes
<1>6. OkOver(mem')
  BY <1>1, <1>5, CronAssumption DEF OkOver, Same
<1>7. LockHeld'
  BY <1>3, <1>5, CronAssumption DEF LockHeld, Marked
<1>8. Starting'
  <2>1. \A i \in missed' : /\ i # j /\ mem'[i] # NoJob /\ mem'[i].enabled
                           /\ ~ (i \in OneShot /\ mem'[i].status = "ok")
                           /\ i \in OneShot => mem'[i].status = "none"
    BY <1>1, <1>2, <1>3, <1>5 DEF Starting, Live, OtherTypes
  <2>2. \A i \in overdue' \ OneShot :
          mem'[i] # NoJob => ~ mem'[i].enabled \/ i \in missed' \/ i = j
    <3> SUFFICES ASSUME NEW i \in overdue \ OneShot, mem'[i] # NoJob, mem'[i].enabled, i # j
                 PROVE  i \in missed'
      BY <1>2
    <3>1. i \in Jobs /\ mem[i] = mem'[i]
      BY <1>1, <1>5 DEF OtherTypes
    <3>2. i \in missed
      BY <1>1, <1>3, <3>1, CronAssumption DEF Starting
    <3> QED BY <1>2, <3>2
  <2>3. \A t \in Tasks : task'[t] = Free
    BY <1>1, <1>2, <1>3 DEF Starting
  <2> QED BY <1>3, <2>1, <2>2, <2>3 DEF Starting, Live
<1>9. \A t \in Tasks : task[t] = Free
  BY <1>1, <1>3 DEF Starting
<1>10. Sound'
  BY <1>2, <1>3, <1>4, <1>6, <1>7, <1>8, <1>9, StartPhase
<1>11. OtherTypes'
  BY <1>1, <1>2, <1>3, <1>5 DEF OtherTypes
<1> QED BY <1>10, <1>11, SchedulerNext

LEMMA StartMissedEndsStep ==
  ASSUME Scheduler, NEW outcome \in Outcomes, StartMissedEnds(outcome)
  PROVE  Scheduler'
<1> DEFINE j == lock.job
           r == ApplyResult(j, mem[j], outcome)
<1>1. OtherTypes /\ OkOver(mem) /\ Offline /\ Starting /\ LockHeld
  BY TypesSplit DEF Scheduler, Sound
<1>2. /\ lock.by = "start" /\ j # NoJob /\ mem' = [mem EXCEPT ![j] = r]
      /\ lock' = [lock EXCEPT !.job = NoJob] /\ overdue' = overdue \ {j}
      /\ UNCHANGED <<up, disk, unused, task, current, timerRunning, missed, ops, crashes>>
  BY DEF StartMissedEnds
<1>3. j \in Jobs /\ mem[j] \in Job /\ up
  BY <1>1, <1>2, UnlockedFacts DEF LockHeld, Marked, Offline, OtherTypes, Stores
<1>4. lock'.by = "start" /\ lock'.job = NoJob
      /\ lock' \in [by : {"nobody", "start", "run"}, job : Jobs \cup {NoJob}]
  BY <1>1, <1>2 DEF OtherTypes
<1>5. r \in Job \cup {NoJob} /\ (r # NoJob /\ j \in OneShot /\ r.status = "ok" => r.next = "none")
  BY <1>3, ApplyResultFacts
<1> HIDE DEF r
<1>6. mem' \in Stores /\ OkOver(mem')
  BY <1>1, <1>2, <1>3, <1>5, EditFacts DEF OtherTypes
<1>7. \A i \in Jobs : i # j => mem'[i] = mem[i]
  BY <1>1, <1>2, <1>3 DEF OtherTypes, Stores
<1>8. Starting'
  <2>1. \A i \in missed' : /\ i # NoJob /\ mem'[i] # NoJob /\ mem'[i].enabled
                           /\ ~ (i \in OneShot /\ mem'[i].status = "ok")
                           /\ i \in OneShot => mem'[i].status = "none"
    BY <1>1, <1>2, <1>7, CronAssumption DEF Starting, Live, OtherTypes
  <2>2. \A i \in overdue' \ OneShot :
          mem'[i] # NoJob => ~ mem'[i].enabled \/ i \in missed'
    <3> SUFFICES ASSUME NEW i \in overdue \ OneShot, i # j, mem'[i] # NoJob, mem'[i].enabled
                 PROVE  i \in missed
      BY <1>2
    <3>1. i \in Jobs /\ mem[i] = mem'[i]
      BY <1>1, <1>7 DEF OtherTypes
    <3> QED BY <1>1, <1>2, <3>1 DEF Starting
  <2>3. \A t \in Tasks : task'[t] = Free
    BY <1>1, <1>2 DEF Starting
  <2> QED BY <1>4, <2>1, <2>2, <2>3 DEF Starting, Live
<1>9. \A t \in Tasks : task[t] = Free
  BY <1>1, <1>2 DEF Starting
<1>10. LockHeld'
  BY <1>4 DEF LockHeld
<1>11. Sound'
  BY <1>2, <1>3, <1>4, <1>6, <1>8, <1>9, <1>10, StartPhase
<1>12. overdue' \subseteq Jobs
  BY <1>1, <1>2 DEF OtherTypes
<1>13. OtherTypes'
  BY <1>1, <1>2, <1>4, <1>6, <1>12 DEF OtherTypes
<1> QED BY <1>11, <1>13, SchedulerNext

LEMMA StartEndsStep ==
  ASSUME Scheduler, StartEnds
  PROVE  Scheduler'
<1> DEFINE m == Recompute(mem, overdue)
<1>1. OtherTypes /\ OkOver(mem) /\ Offline
  BY TypesSplit DEF Scheduler, Sound
<1>2. /\ lock = [by |-> "start", job |-> NoJob] /\ mem' = m /\ disk' = m /\ ArmTimer(task, m)
      /\ lock' = Unlocked /\ overdue' = {}
      /\ UNCHANGED <<up, unused, timerRunning, missed, ops, crashes>>
  BY DEF StartEnds, LateAtStart
<1>3. m \in Stores /\ OkOver(m)
  BY <1>1, RecomputeOk DEF OtherTypes
<1> HIDE DEF m
<1>4. up
  BY <1>1, <1>2, UnlockedFacts DEF Offline
<1>5. Sound' /\ mem' \in Stores /\ disk' \in Stores
  BY <1>2, <1>3, <1>4, CommitSound
<1>6. lock' \in [by : {"nobody", "start", "run"}, job : Jobs \cup {NoJob}]
  BY <1>2 DEF Unlocked
<1>7. OtherTypes'
  BY <1>1, <1>2, <1>5, <1>6 DEF OtherTypes
<1> QED BY <1>5, <1>7, SchedulerNext

-----------------------------------------------------------------------------
(* The tick.                                                               *)

(* A task that is in a tick, or becomes one, is one of a process that has  *)
(* started, and runs alone.                                                *)
LEMMA TickFacts ==
  ASSUME Scheduler, NEW t \in Tasks, task[t].pc # "free"
  PROVE  /\ up /\ lock.by # "start" /\ \A j \in Jobs : Same(mem[j], disk[j])
         /\ task[t] \in Task /\ task \in [Tasks -> Task] /\ TaskOK(task[t], current = t)
         /\ InTick(task[t]) => timerRunning = TRUE
         /\ OtherTypes /\ OkOver(mem) /\ OkOver(disk) /\ LockHeld /\ PickedBy(t)
<1> USE DEF Scheduler, Sound
<1>1. task \in [Tasks -> Task] /\ task[t] # Free
  BY FreeSleeping DEF TimerOK
<1>2. up /\ lock.by # "start"
  BY <1>1 DEF Offline, Starting
<1>3. OtherTypes /\ timerRunning \in BOOLEAN
  BY TypesSplit DEF OtherTypes
<1> QED BY <1>1, <1>2, <1>3 DEF TimerOK, Durable, Picked

LEMMA TimerFiresStep ==
  ASSUME Scheduler, NEW t \in Tasks, TimerFires(t)
  PROVE  Scheduler'
<1> DEFINE r == [task[t] EXCEPT !.pc = "pick"]
<1>1. /\ task[t].pc = "sleep" /\ ~ timerRunning /\ timerRunning' = TRUE
      /\ task' = [task EXCEPT ![t] = r]
      /\ UNCHANGED <<up, mem, disk, unused, current, lock, missed, overdue, ops, crashes>>
  BY DEF TimerFires, TickMayRun
<1>2. task[t] \in Task /\ TaskOK(task[t], current = t) /\ up /\ lock.by # "start"
      /\ OtherTypes /\ OkOver(mem) /\ OkOver(disk) /\ LockHeld
      /\ \A j \in Jobs : Same(mem[j], disk[j])
  BY <1>1, TickFacts
<1>3. task[t].batch = {} /\ task[t].results = {} /\ task[t].job = NoJob /\ current = t
  <2>1. task[t] = Sleeping /\ current = t
    BY <1>1, <1>2 DEF TaskOK
  <2> QED BY <2>1, FreeSleeping
<1>4. r \in Task /\ r.pc = "pick" /\ r.batch = {} /\ r.results = {} /\ r.job = NoJob
  BY <1>2, <1>3 DEF Task
<1> HIDE DEF r
<1>5. TaskOK(r, current = t) /\ InTick(r)
  BY <1>3, <1>4 DEF TaskOK, InTick
<1>6. task'[t] = r /\ PickedBy(t)'
  BY <1>1, <1>4, TickFacts DEF PickedBy
<1>7. LockHeld' /\ Durable'
  BY <1>1, <1>2 DEF LockHeld, Marked, Durable
<1>8. Sound'
  BY <1>1, <1>2, <1>4, <1>5, <1>6, <1>7, TickStepSound
<1>9. OtherTypes'
  BY <1>1, <1>2 DEF OtherTypes
<1> QED BY <1>8, <1>9, SchedulerNext

(* A step of the tick t that leaves the stores as they are. *)
LEMMA TickOnly ==
  ASSUME Scheduler, NEW t \in Tasks, NEW r \in Task, InTick(task[t]), InTick(r),
         task' = [task EXCEPT ![t] = r], TaskOK(r, current = t), PickedBy(t)',
         UNCHANGED <<up, mem, disk, unused, current, timerRunning, lock, missed, overdue,
                     ops, crashes>>
  PROVE  Scheduler'
<1>1. task[t].pc # "free"
  BY DEF InTick
<1>2. OtherTypes /\ OkOver(mem) /\ OkOver(disk) /\ LockHeld /\ timerRunning = TRUE
      /\ \A j \in Jobs : Same(mem[j], disk[j])
  BY <1>1, TickFacts
<1>3. LockHeld' /\ Durable' /\ OtherTypes'
  BY <1>2 DEF LockHeld, Marked, Durable, OtherTypes
<1>4. Sound'
  BY <1>1, <1>2, <1>3, TickStepSound
<1> QED BY <1>3, <1>4, SchedulerNext

LEMMA JobEndsStep ==
  ASSUME Scheduler, NEW t \in Tasks, NEW outcome \in Outcomes, JobEnds(t, outcome)
  PROVE  Scheduler'
<1> DEFINE j == task[t].job
           results == task[t].results \cup {<<j, outcome>>}
           pc == IF task[t].batch = {} THEN "apply" ELSE "run"
           r == [task[t] EXCEPT !.job = NoJob, !.results = results, !.pc = pc]
<1>1. /\ task[t].pc = "run" /\ ~ task[t].cancelled /\ j # NoJob /\ task' = [task EXCEPT ![t] = r]
      /\ UNCHANGED <<up, mem, disk, unused, current, timerRunning, lock, missed, overdue,
                     ops, crashes>>
  BY DEF JobEnds
<1>2. task[t] \in Task /\ TaskOK(task[t], current = t) /\ PickedBy(t) /\ InTick(task[t])
      /\ task \in [Tasks -> Task]
  BY <1>1, TickFacts DEF InTick
<1>3. j \in Jobs
  BY <1>1, <1>2 DEF Task
<1>4. /\ results \in SUBSET (Jobs \X Outcomes) /\ pc \in {"run", "apply"}
      /\ \A q \in results : q \in task[t].results \/ q[1] = j
  BY <1>2, <1>3 DEF Task
<1> HIDE DEF results, pc
<1>5. /\ r \in Task /\ r.job = NoJob /\ r.results = results /\ r.pc = pc
      /\ r.batch = task[t].batch /\ r.cancelled = task[t].cancelled
  BY <1>2, <1>4 DEF Task
<1>6. Marked(j) /\ (\A i \in task[t].batch : Live(i) /\ Marked(i))
      /\ (\A q \in task[t].results : Marked(q[1]))
  BY <1>1, <1>2 DEF PickedBy
<1> HIDE DEF r, j
<1>7. TaskOK(r, current = t) /\ InTick(r)
  BY <1>1, <1>2, <1>4, <1>5 DEF TaskOK, InTick
<1>8. task'[t] = r
  BY <1>1, <1>2
<1>9. PickedBy(t)'
  <2>1. \A q \in r.results : Marked(q[1])
    BY <1>4, <1>5, <1>6
  <2>2. \A i : (Live(i)' <=> Live(i)) /\ (Marked(i)' <=> Marked(i))
    BY <1>1 DEF Live, Marked
  <2> QED BY <1>5, <1>6, <1>8, <2>1, <2>2 DEF PickedBy
<1> QED BY <1>1, <1>2, <1>5, <1>7, <1>9, TickOnly

LEMMA JobUnwindsStep ==
  ASSUME Scheduler, NEW t \in Tasks, JobUnwinds(t)
  PROVE  Scheduler'
<1> DEFINE r == [task[t] EXCEPT !.job = NoJob, !.pc = "close"]
<1>1. /\ task[t].cancelled /\ task[t].job # NoJob /\ task' = [task EXCEPT ![t] = r]
      /\ UNCHANGED <<up, mem, disk, unused, current, timerRunning, lock, missed, overdue,
                     ops, crashes>>
  BY DEF JobUnwinds
<1>2. task[t].pc = "run"
  BY <1>1 DEF Scheduler, Sound, TimerOK, TaskOK
<1>3. task[t] \in Task /\ InTick(task[t]) /\ task \in [Tasks -> Task]
  BY <1>2, TickFacts DEF InTick
<1>4. r \in Task /\ r.job = NoJob /\ r.pc = "close" /\ r.cancelled
  BY <1>1, <1>3 DEF Task
<1> HIDE DEF r
<1>5. TaskOK(r, current = t) /\ InTick(r) /\ task'[t] = r
  BY <1>1, <1>3, <1>4 DEF TaskOK, InTick
<1>6. PickedBy(t)'
  BY <1>4, <1>5 DEF PickedBy
<1> QED BY <1>1, <1>3, <1>4, <1>5, <1>6, TickOnly

LEMMA JobStartsStep ==
  ASSUME Scheduler, NEW t \in Tasks, NEW j \in Jobs, JobStarts(t, j)
  PROVE  Scheduler'
<1> DEFINE r == [task[t] EXCEPT !.job = j, !.batch = @ \ {j}]
<1>1. /\ task[t].pc = "run" /\ ~ task[t].cancelled /\ j \in task[t].batch
      /\ task' = [task EXCEPT ![t] = r]
      /\ UNCHANGED <<up, disk, unused, current, timerRunning, lock, missed, overdue, ops, crashes>>
  BY DEF JobStarts
<1>2. /\ task[t] \in Task /\ TaskOK(task[t], current = t) /\ PickedBy(t) /\ InTick(task[t])
      /\ task \in [Tasks -> Task] /\ task[t].pc # "free" /\ timerRunning = TRUE
      /\ OtherTypes /\ OkOver(mem) /\ OkOver(disk)
      /\ \A i \in Jobs : Same(mem[i], disk[i])
  BY <1>1, TickFacts DEF InTick
<1>3. /\ \A i \in task[t].batch : Live(i) /\ Marked(i)
      /\ \A q \in task[t].results : Marked(q[1])
  BY <1>1, <1>2 DEF PickedBy
<1>4. mem[j] # NoJob /\ mem' = WithMarker(mem, j, "fresh")
  BY <1>1, <1>3 DEF JobStarts, WithMarker, Live
<1>5. /\ mem' \in Stores /\ mem'[j] # NoJob /\ mem'[j].marker = "fresh"
      /\ \A i \in Jobs : Same(mem[i], mem'[i]) /\ (i # j => mem'[i] = mem[i])
  BY <1>2, <1>4, MarkFacts DEF OtherTypes
<1>6. \A i \in Jobs : Keeps(mem[i], mem'[i])
  BY <1>5 DEF Keeps, Same
<1>7. \A i \in Jobs : (Live(i) => Live(i)') /\ (Marked(i) => Marked(i)')
  BY <1>6 DEF Keeps, Live, Marked
<1>8. r \in Task /\ r.pc = "run" /\ r.job = j /\ r.batch = task[t].batch \ {j}
      /\ r.results = task[t].results /\ r.cancelled = task[t].cancelled
  BY <1>1, <1>2 DEF Task
<1> HIDE DEF r
<1>9. TaskOK(r, current = t) /\ InTick(r) /\ task'[t] = r
  BY <1>1, <1>2, <1>8 DEF TaskOK, InTick
<1>10. PickedBy(t)'
  <2>1. task[t].batch \subseteq Jobs /\ \A q \in task[t].results : q[1] \in Jobs
    BY <1>2 DEF Task
  <2>2. Marked(j)'
    BY <1>5 DEF Marked
  <2>3. /\ \A i \in r.batch : Live(i)' /\ Marked(i)'
        /\ \A q \in r.results : Marked(q[1])'
    BY <1>3, <1>7, <1>8, <2>1
  <2> QED BY <1>8, <1>9, <2>2, <2>3 DEF PickedBy
<1>11. LockHeld'
  BY <1>1, <1>6, KeepsLock
<1>12. Durable'
  <2> SUFFICES ASSUME NEW i \in Jobs PROVE Same(mem'[i], disk[i])
    BY <1>1 DEF Durable
  <2> QED BY <1>2, <1>5, SameTransitive
<1>13. OkOver(mem')
  BY <1>2, <1>6, KeepsOk
<1>14. Sound'
  BY <1>1, <1>2, <1>8, <1>9, <1>10, <1>11, <1>12, <1>13, TickStepSound
<1>15. OtherTypes'
  BY <1>1, <1>2, <1>5 DEF OtherTypes
<1> QED BY <1>14, <1>15, SchedulerNext

LEMMA PickDueJobsStep ==
  ASSUME Scheduler, NEW t \in Tasks, PickDueJobs(t)
  PROVE  Scheduler'
<1> DEFINE due == {j \in Known(disk) : Runnable(disk[j])}
<1>1. /\ task[t].pc = "pick" /\ ~ task[t].cancelled /\ lock = Unlocked /\ disk' = mem'
      /\ UNCHANGED <<up, unused, current, timerRunning, lock, missed, overdue, ops, crashes>>
  BY DEF PickDueJobs, Idle
<1>2. /\ task[t] \in Task /\ TaskOK(task[t], current = t) /\ InTick(task[t])
      /\ task \in [Tasks -> Task] /\ task[t].pc # "free" /\ timerRunning = TRUE
      /\ OtherTypes /\ OkOver(disk) /\ disk \in Stores
  BY <1>1, TickFacts DEF InTick, OtherTypes
<1>3. task[t].job = NoJob /\ task[t].results = {} /\ task[t].batch = {}
  BY <1>1, <1>2 DEF TaskOK
<1>4. LockHeld' /\ Durable'
  BY <1>1, UnlockedFacts, SameTransitive DEF LockHeld, Durable
<1>5. CASE due = {}
  <2> DEFINE r == [task[t] EXCEPT !.pc = "close"]
  <2>1. mem' = Recompute(disk, {}) /\ task' = [task EXCEPT ![t] = r]
    BY <1>5 DEF PickDueJobs
  <2>2. r \in Task /\ r.pc = "close" /\ r.job = NoJob /\ r.cancelled = task[t].cancelled
    BY <1>2, <1>3 DEF Task
  <2> HIDE DEF r
  <2>3. TaskOK(r, current = t) /\ InTick(r) /\ task'[t] = r
    BY <1>2, <2>1, <2>2 DEF TaskOK, InTick
  <2>4. PickedBy(t)'
    BY <2>2, <2>3 DEF PickedBy
  <2>5. mem' \in Stores /\ OkOver(mem')
    BY <1>2, <2>1, RecomputeOk
  <2>6. Sound'
    BY <1>1, <1>2, <1>4, <2>1, <2>2, <2>3, <2>4, <2>5, TickStepSound
  <2>7. OtherTypes'
    BY <1>1, <1>2, <2>5 DEF OtherTypes
  <2> QED BY <2>6, <2>7, SchedulerNext
<1>6. CASE due # {}
  <2> DEFINE r == [task[t] EXCEPT !.pc = "run", !.batch = due]
  <2>1. /\ mem' = [j \in Jobs |-> IF j \in due THEN [disk[j] EXCEPT !.marker = "fresh"] ELSE disk[j]]
        /\ task' = [task EXCEPT ![t] = r]
    BY <1>6 DEF PickDueJobs
  <2>2. due \subseteq Jobs
        /\ \A j \in due : /\ disk[j] \in Job /\ disk[j].enabled
                          /\ ~ (j \in OneShot /\ disk[j].status = "ok")
    BY <1>2 DEF Known, Runnable, Stores, OkOver
  <2> HIDE DEF due
  <2>3. ASSUME NEW j \in Jobs
        PROVE  /\ mem'[j] \in Job \cup {NoJob} /\ Same(disk[j], mem'[j])
               /\ j \in due => mem'[j] # NoJob /\ mem'[j].marker = "fresh"
    <3>1. CASE j \in due
      BY <2>1, <2>2, <3>1, MarkRecord
    <3>2. CASE j \notin due
      BY <1>2, <2>1, <3>2, SameTransitive DEF Stores
    <3> QED BY <3>1, <3>2
  <2>4. mem' \in Stores
    BY <2>1, <2>3 DEF Stores
  <2>5. OkOver(mem')
    BY <1>2, <2>3, CronAssumption DEF OkOver, Same
  <2>6. \A j \in due : Live(j)' /\ Marked(j)'
    <3> SUFFICES ASSUME NEW j \in due PROVE Live(j)' /\ Marked(j)'
      OBVIOUS
    <3>1. mem'[j] # NoJob /\ mem'[j].marker = "fresh" /\ Same(disk[j], mem'[j])
      BY <2>2, <2>3
    <3>2. mem'[j].enabled = disk[j].enabled /\ mem'[j].status = disk[j].status
      BY <3>1 DEF Same
    <3> QED BY <2>2, <3>1, <3>2 DEF Live, Marked
  <2>7. /\ r \in Task /\ r.pc = "run" /\ r.job = NoJob /\ r.cancelled = task[t].cancelled
        /\ r.batch = due /\ r.results = {}
    BY <1>2, <1>3, <2>2 DEF Task
  <2> HIDE DEF r
  <2>8. TaskOK(r, current = t) /\ InTick(r) /\ task'[t] = r
    BY <1>2, <2>1, <2>7 DEF TaskOK, InTick
  <2>9. PickedBy(t)'
    BY <2>6, <2>7, <2>8 DEF PickedBy
  <2>10. Sound'
    BY <1>1, <1>2, <1>4, <2>1, <2>5, <2>7, <2>8, <2>9, TickStepSound
  <2>11. OtherTypes'
    BY <1>1, <1>2, <2>4 DEF OtherTypes
  <2> QED BY <2>10, <2>11, SchedulerNext
<1> QED BY <1>5, <1>6

LEMMA ApplyResultsStep ==
  ASSUME Scheduler, NEW t \in Tasks, ApplyResults(t)
  PROVE  Scheduler'
<1> DEFINE r == [task[t] EXCEPT !.pc = "close", !.results = {}]
           m == Recompute(Applied(task[t].results, disk), {})
<1>1. /\ task[t].pc = "apply" /\ lock = Unlocked /\ mem' = m /\ disk' = m
      /\ task' = [task EXCEPT ![t] = r]
      /\ UNCHANGED <<up, unused, current, timerRunning, lock, missed, overdue, ops, crashes>>
  BY DEF ApplyResults, Idle
<1>2. /\ task[t] \in Task /\ TaskOK(task[t], current = t) /\ InTick(task[t])
      /\ task \in [Tasks -> Task] /\ task[t].pc # "free" /\ timerRunning = TRUE
      /\ OtherTypes /\ OkOver(disk) /\ disk \in Stores
  BY <1>1, TickFacts DEF InTick, OtherTypes
<1>3. task[t].results \in SUBSET (Jobs \X Outcomes) /\ task[t].job = NoJob
  BY <1>1, <1>2 DEF Task, TaskOK
<1>4. m \in Stores /\ OkOver(m)
  BY <1>2, <1>3, AppliedFacts, RecomputeOk
<1> HIDE DEF m
<1>5. r \in Task /\ r.pc = "close" /\ r.job = NoJob /\ r.cancelled = task[t].cancelled
  BY <1>2, <1>3 DEF Task
<1> HIDE DEF r
<1>6. TaskOK(r, current = t) /\ InTick(r) /\ task'[t] = r
  BY <1>1, <1>2, <1>5 DEF TaskOK, InTick
<1>7. PickedBy(t)'
  BY <1>5, <1>6 DEF PickedBy
<1>8. LockHeld' /\ Durable'
  BY <1>1, UnlockedFacts, SameTransitive DEF LockHeld, Durable
<1>9. Sound'
  BY <1>1, <1>2, <1>4, <1>5, <1>6, <1>7, <1>8, TickStepSound
<1>10. OtherTypes'
  BY <1>1, <1>2, <1>4 DEF OtherTypes
<1> QED BY <1>9, <1>10, SchedulerNext

(* A tick that ends, and a timer that fires while one goes on, arm again.  *)
LEMMA TickEndsStep ==
  ASSUME Scheduler, NEW t \in Tasks, TickEnds(t)
  PROVE  Scheduler'
<1> DEFINE tk == [task EXCEPT ![t] = Free]
<1>1. /\ InTick(task[t]) /\ timerRunning' = FALSE /\ ArmTimer(tk, mem)
      /\ UNCHANGED <<up, mem, disk, unused, lock, missed, overdue, ops, crashes>>
  BY DEF TickEnds, Rearm, InTick
<1>2. /\ task \in [Tasks -> Task] /\ up /\ lock.by # "start"
      /\ OtherTypes /\ OkOver(mem) /\ OkOver(disk) /\ LockHeld
      /\ \A i \in Jobs : Same(mem[i], disk[i])
  BY <1>1, TickFacts DEF InTick
<1>3. TimerOK(tk, current, FALSE)
  <2>1. TimerOK(task, current, timerRunning)
    BY DEF Scheduler, Sound
  <2>2. tk \in [Tasks -> Task] /\ tk[t] = Free /\ \A u \in Tasks : u # t => tk[u] = task[u]
    BY <1>2, FreeSleeping
  <2>3. \A u \in Tasks : ~ InTick(tk[u])
    BY <1>1, <2>1, <2>2, FreeSleeping DEF TimerOK, InTick
  <2>4. \A u \in Tasks : TaskOK(tk[u], current = u)
    BY <2>1, <2>2, TaskOKFree DEF TimerOK
  <2> QED BY <2>1, <2>2, <2>3, <2>4 DEF TimerOK
<1> HIDE DEF tk
<1>4. /\ TimerOK(task', current', timerRunning')
      /\ \A u \in Tasks : InTick(task'[u]) => task'[u].cancelled
      /\ HasNextRun(mem) => \E u \in Tasks : task'[u].pc # "free"
  BY <1>1, <1>3, ArmTimerFacts
<1>5. HasNextRun(mem') <=> HasNextRun(mem)
  BY <1>1
<1>6. LockHeld' /\ Durable' /\ OkOver(mem') /\ OkOver(disk')
  BY <1>1, <1>2 DEF LockHeld, Marked, Durable
<1>7. Sound'
  BY <1>1, <1>2, <1>4, <1>5, <1>6, ArmedStep
<1>8. OtherTypes'
  BY <1>1, <1>2 DEF OtherTypes
<1> QED BY <1>7, <1>8, SchedulerNext

LEMMA TimerFiresBusyStep ==
  ASSUME Scheduler, NEW t \in Tasks, TimerFiresBusy(t)
  PROVE  Scheduler'
<1> DEFINE tk == [task EXCEPT ![t] = Free]
<1>1. /\ task[t].pc = "sleep" /\ NewTimer(tk)
      /\ UNCHANGED <<up, mem, disk, unused, timerRunning, lock, missed, overdue, ops, crashes>>
  BY DEF TimerFiresBusy
<1>2. /\ task \in [Tasks -> Task] /\ up /\ lock.by # "start"
      /\ OtherTypes /\ OkOver(mem) /\ OkOver(disk) /\ LockHeld
      /\ \A i \in Jobs : Same(mem[i], disk[i])
  BY <1>1, TickFacts
<1>3. tk \in [Tasks -> Task] /\ Disarmed(tk, timerRunning)
  <2>1. TimerOK(task, current, timerRunning)
    BY DEF Scheduler, Sound
  <2>2. tk \in [Tasks -> Task] /\ tk[t] = Free /\ \A u \in Tasks : u # t => tk[u] = task[u]
    BY <1>2, FreeSleeping
  <2>3. current = t
    BY <1>1, <2>1 DEF TimerOK, TaskOK
  <2>4. \A u \in Tasks : u # t => task[u].pc # "sleep" /\ TaskOK(task[u], FALSE)
    BY <2>1, <2>3 DEF TimerOK, TaskOK
  <2>5. \A u \in Tasks : tk[u].pc # "sleep" /\ TaskOK(tk[u], FALSE)
    BY <2>2, <2>4, FreeSleeping, TaskOKFree
  <2>6. \A u \in Tasks : InTick(tk[u]) => u # t
    BY <2>2, FreeSleeping DEF InTick
  <2> QED BY <2>1, <2>2, <2>5, <2>6 DEF TimerOK, Disarmed
<1> HIDE DEF tk
<1>4. /\ TimerOK(task', current', timerRunning')
      /\ \A u \in Tasks : InTick(task'[u]) => task'[u].cancelled
      /\ \E u \in Tasks : task'[u].pc # "free"
  BY <1>1, <1>2, <1>3, NewTimerFacts DEF OtherTypes
<1>5. LockHeld' /\ Durable' /\ OkOver(mem') /\ OkOver(disk')
  BY <1>1, <1>2 DEF LockHeld, Marked, Durable
<1>6. Sound'
  BY <1>1, <1>2, <1>4, <1>5, ArmedStep
<1>7. OtherTypes'
  BY <1>1, <1>2 DEF OtherTypes
<1> QED BY <1>6, <1>7, SchedulerNext

-----------------------------------------------------------------------------
(* The theorems.                                                           *)

LEMMA SchedulerInit == Init => Scheduler
<1> SUFFICES ASSUME Init PROVE Scheduler
  OBVIOUS
<1> USE CronAssumption DEF Init
<1>1. TimerOK(task, current, timerRunning)
  <2>1. task \in [Tasks -> Task] /\ \A t \in Tasks : task[t] = Free /\ ~ InTick(task[t])
    BY FreeSleeping DEF InTick
  <2>2. \A t \in Tasks : TaskOK(task[t], current = t)
    BY <2>1, TaskOKFree
  <2> QED BY <2>1, <2>2 DEF TimerOK
<1>2. disk \in Stores /\ mem \in Stores
  <2> DEFINE r == [enabled |-> TRUE, next |-> "future", marker |-> "none", status |-> "none",
                   errors |-> 0, atPast |-> FALSE, delete |-> FALSE]
  <2>1. r \in Job
    BY DEF Job
  <2>2. disk = [j \in Jobs |-> IF j \in unused THEN NoJob ELSE r]
    OBVIOUS
  <2> HIDE DEF r
  <2> QED BY <2>1, <2>2 DEF Stores
<1>3. OtherTypes
  <2>1. unused \subseteq Jobs /\ ops \in 0 .. MaxOps /\ crashes \in 0 .. MaxCrashes
    OBVIOUS
  <2>2. lock \in [by : {"nobody", "start", "run"}, job : Jobs \cup {NoJob}]
    BY DEF Unlocked
  <2> QED BY <1>2, <2>1, <2>2 DEF OtherTypes
<1>4. SchedulerAlive /\ Durable /\ Offline /\ LockHeld /\ Starting
  BY UnlockedFacts DEF SchedulerAlive, Durable, Offline, LockHeld, Starting
<1>5. OkOver(mem) /\ OkOver(disk)
  BY DEF OkOver
<1>6. Picked
  BY FreeSleeping DEF Picked, PickedBy
<1> QED BY <1>1, <1>3, <1>4, <1>5, <1>6, TypesSplit DEF Scheduler, Sound

LEMMA SchedulerStep == Scheduler /\ [Next]_vars => Scheduler'
<1> SUFFICES ASSUME Scheduler, [Next]_vars PROVE Scheduler'
  OBVIOUS
<1>1. CASE StartStep
  <2>1. ASSUME NEW o \in Outcomes, StartMissedEnds(o) PROVE Scheduler'
    BY <2>1, StartMissedEndsStep
  <2>2. ASSUME NEW j \in Jobs, StartRunsMissed(j) PROVE Scheduler'
    BY <2>2, StartRunsMissedStep
  <2> QED BY <1>1, <2>1, <2>2, StartBeginsStep, StartEndsStep DEF StartStep
<1>2. CASE UserStep
  <2>1. ASSUME NEW j \in Jobs, RemoveJob(j) \/ RunBegins(j) PROVE Scheduler'
    BY <2>1, RemoveJobStep, RunBeginsStep
  <2>2. ASSUME NEW j \in Jobs, NEW on \in BOOLEAN, NEW atPast \in BOOLEAN, NEW delete \in BOOLEAN,
               AddJob(j, on, atPast, delete)
        PROVE  Scheduler'
    BY <2>2, AddJobStep
  <2>3. ASSUME NEW j \in Jobs, NEW on \in BOOLEAN, NEW atPast \in BOOLEAN, UpdateJob(j, on, atPast)
        PROVE  Scheduler'
    BY <2>3, UpdateJobStep
  <2> QED BY <1>2, <2>1, <2>2, <2>3 DEF UserStep
<1>3. CASE RunStep
  BY <1>3, RunAbortedStep, RunEndsStep DEF RunStep
<1>4. ASSUME NEW t \in Tasks, TickStep(t) PROVE Scheduler'
  <2>1. ASSUME NEW j \in Jobs, JobStarts(t, j) PROVE Scheduler'
    BY <2>1, JobStartsStep
  <2>2. ASSUME NEW o \in Outcomes, JobEnds(t, o) PROVE Scheduler'
    BY <2>2, JobEndsStep
  <2> QED BY <1>4, <2>1, <2>2, TimerFiresStep, TimerFiresBusyStep, PickDueJobsStep, JobUnwindsStep,
             ApplyResultsStep, TickEndsStep DEF TickStep
<1>5. ASSUME NEW j \in Jobs, TimePasses(j) \/ MarkerAges(j) PROVE Scheduler'
  BY <1>5, TimePassesStep, MarkerAgesStep
<1> QED BY <1>1, <1>2, <1>3, <1>4, <1>5, CrashStep, StutterStep DEF Next

LEMMA SchedulerInvariant == Spec => []Scheduler
BY SchedulerInit, SchedulerStep, PTL DEF Spec

(* Every variable keeps its type, for any jobs, tasks and bounds. *)
THEOREM TypeCorrect == Spec => []TypeOK
<1>1. Scheduler => TypeOK
  BY DEF Scheduler
<1> QED BY <1>1, SchedulerInvariant, PTL

(* The scheduler never executes one job twice at a time: a job runs in a   *)
(* tick only, and the running guard admits one tick, cancelled or not.     *)
THEOREM ScheduledRunsDisjointCorrect == Spec => []ScheduledRunsDisjoint
<1>1. Scheduler => ScheduledRunsDisjoint
  BY DEF Scheduler, Sound, TimerOK, TaskOK, InTick, ScheduledRunsDisjoint
<1> QED BY <1>1, SchedulerInvariant, PTL

(* While a job has a next run there is a task to look at it. *)
THEOREM SchedulerAliveCorrect == Spec => []SchedulerAlive
<1>1. Scheduler => SchedulerAlive
  BY DEF Scheduler, Sound
<1> QED BY <1>1, SchedulerInvariant, PTL

(* What was answered is in the file, whatever was cancelled or restarted.  *)
THEOREM AnswersAreDurableCorrect == Spec => []AnswersAreDurable
<1>1. Scheduler => AnswersAreDurable
  <2> DEFINE Kept(r) == IF r = NoJob THEN r ELSE [r EXCEPT !.marker = "none"]
  <2> SUFFICES ASSUME Scheduler, Ready, NEW j \in Jobs PROVE Kept(mem[j]) = Kept(disk[j])
    BY DEF AnswersAreDurable
  <2>1. /\ mem[j] \in Job \cup {NoJob} /\ disk[j] \in Job \cup {NoJob}
        /\ Same(mem[j], disk[j])
    BY UnlockedFacts DEF Scheduler, Sound, TypeOK, Durable, Ready, Idle
  <2>2. CASE mem[j] = NoJob
    BY <2>1, <2>2 DEF Same
  <2>3. CASE mem[j] # NoJob
    <3>1. mem[j] \in Job /\ disk[j] \in Job /\ disk[j] # NoJob
      BY <2>1, <2>3 DEF Same
    <3>2. [mem[j] EXCEPT !.marker = "none"] = [disk[j] EXCEPT !.marker = "none"]
      BY <2>1, <2>3, <3>1 DEF Same, Job
    <3> QED BY <2>3, <3>1, <3>2
  <2> QED BY <2>2, <2>3
<1> QED BY <1>1, SchedulerInvariant, PTL

-----------------------------------------------------------------------------
(* What a step may not do.                                                 *)

(* Arming the timer starts no job. *)
LEMMA ArmTimerStartsNone ==
  ASSUME NEW tk, NEW busy \in BOOLEAN, TimerOK(tk, current, busy), NEW m,
         ArmTimer(tk, m) \/ NewTimer(tk), NEW t \in Tasks
  PROVE  task'[t].job \in {tk[t].job, NoJob}
<1>1. tk \in [Tasks -> Task] /\ current \in Tasks \cup {NoTask}
  BY DEF TimerOK
<1>2. ASSUME NEW c \in [Tasks -> Task], \A u \in Tasks : c[u].job \in {tk[u].job, NoJob}, NewTimer(c)
      PROVE  task'[t].job \in {tk[t].job, NoJob}
  <2>1. PICK u \in Tasks : task' = [c EXCEPT ![u] = Sleeping]
    BY <1>2 DEF NewTimer
  <2> QED BY <1>2, <2>1, FreeSleeping
<1>3. CASE NewTimer(tk)
  BY <1>1, <1>2, <1>3
<1>4. CASE ArmTimer(tk, m)
  <2> DEFINE c == CancelCurrent(tk)
  <2>1. c \in [Tasks -> Task]
    BY CancelDisarms
  <2>2. \A u \in Tasks : c[u].job \in {tk[u].job, NoJob}
    <3>1. CASE current = NoTask \/ tk[current].pc = "free"
      BY <3>1 DEF CancelCurrent
    <3>2. CASE current \in Tasks /\ tk[current].pc = "sleep"
      <4>1. c = [tk EXCEPT ![current] = Free]
        BY <3>2, CronAssumption DEF CancelCurrent
      <4> QED BY <1>1, <3>2, <4>1, FreeSleeping
    <3>3. CASE current \in Tasks /\ tk[current].pc \notin {"free", "sleep"}
      <4>1. c = [tk EXCEPT ![current].cancelled = TRUE]
        BY <3>3, CronAssumption DEF CancelCurrent
      <4> QED BY <1>1, <3>3, <4>1 DEF Task
    <3> QED BY <1>1, <3>1, <3>2, <3>3
  <2>3. NewTimer(c) \/ task' = c
    BY <1>4 DEF ArmTimer
  <2> HIDE DEF c
  <2> QED BY <1>2, <2>1, <2>2, <2>3
<1> QED BY <1>3, <1>4

(* Only two steps start a job: a tick, from its batch, and start().        *)
LEMMA ArmedStartsNone ==
  ASSUME Scheduler, NEW t \in Tasks, NEW m, ArmTimer(task, m)
  PROVE  task'[t].job \in {task[t].job, NoJob}
<1>1. TimerOK(task, current, timerRunning) /\ timerRunning \in BOOLEAN
  BY DEF Scheduler, Sound, TypeOK
<1> QED BY <1>1, ArmTimerStartsNone

LEMMA TaskStartsJob ==
  ASSUME Scheduler, [Next]_vars, NEW t \in Tasks, task'[t].job # task[t].job, task'[t].job # NoJob
  PROVE  JobStarts(t, task'[t].job)
<1>1. TimerOK(task, current, timerRunning) /\ timerRunning \in BOOLEAN
      /\ task \in [Tasks -> Task]
  BY DEF Scheduler, Sound, TypeOK
<1>2. ~ UNCHANGED task
  OBVIOUS
<1>3. \A m : ~ Commit(m)
  BY ArmedStartsNone DEF Commit
<1>4. ~ StartEnds
  BY ArmedStartsNone DEF StartEnds
<1>5. ~ Crash
  BY FreeSleeping DEF Crash
<1>6. ASSUME NEW u \in Tasks, TickStep(u) PROVE JobStarts(t, task'[t].job)
  <2>1. CASE task' = [task EXCEPT ![u].pc = "pick"] \/ task' = [task EXCEPT ![u].pc = "close"]
    BY <1>1, <2>1 DEF Task
  <2>2. ASSUME NEW due, task' = [task EXCEPT ![u].pc = "run", ![u].batch = due] PROVE FALSE
    BY <1>1, <2>2 DEF Task
  <2>3. ASSUME NEW j \in Jobs, JobStarts(u, j) PROVE JobStarts(t, task'[t].job)
    <3>1. task' = [task EXCEPT ![u].job = j, ![u].batch = @ \ {j}]
      BY <2>3 DEF JobStarts
    <3>2. u = t /\ task'[t].job = j
      BY <1>1, <3>1 DEF Task
    <3> QED BY <2>3, <3>2
  <2>4. ASSUME NEW o \in Outcomes, JobEnds(u, o) PROVE FALSE
    <3>1. PICK res, pc : task' = [task EXCEPT ![u].job = NoJob, ![u].results = res, ![u].pc = pc]
      BY <2>4 DEF JobEnds
    <3> QED BY <1>1, <3>1 DEF Task
  <2>5. ~ JobUnwinds(u)
    <3>1. SUFFICES ASSUME task' = [task EXCEPT ![u].job = NoJob, ![u].pc = "close"] PROVE FALSE
      BY DEF JobUnwinds
    <3> QED BY <1>1, <3>1 DEF Task
  <2>6. ~ ApplyResults(u)
    <3>1. SUFFICES ASSUME task' = [task EXCEPT ![u].pc = "close", ![u].results = {}] PROVE FALSE
      BY DEF ApplyResults
    <3> QED BY <1>1, <3>1 DEF Task
  <2>7. ~ TimerFiresBusy(u) /\ ~ TickEnds(u)
    <3> DEFINE tk == [task EXCEPT ![u] = Free]
    <3>1. /\ tk \in [Tasks -> Task] /\ tk[u] = Free /\ \A v \in Tasks : v # u => tk[v] = task[v]
          /\ ~ InTick(Free)
      BY <1>1, FreeSleeping DEF InTick
    <3>2. TimerOK(tk, current, timerRunning)
      BY <1>1, <3>1, TaskOKFree DEF TimerOK
    <3>3. tk[t].job \in {task[t].job, NoJob}
      BY <3>1, FreeSleeping
    <3> HIDE DEF tk
    <3>4. ASSUME NEW m, NewTimer(tk) \/ ArmTimer(tk, m) PROVE FALSE
      BY <1>1, <3>2, <3>3, <3>4, ArmTimerStartsNone
    <3> QED BY <3>4 DEF TimerFiresBusy, TickEnds, Rearm, tk
  <2>8. CASE PickDueJobs(u)
    BY <2>1, <2>2, <2>8 DEF PickDueJobs
  <2>9. CASE TimerFires(u)
    BY <2>1, <2>9 DEF TimerFires
  <2> QED BY <1>6, <2>3, <2>4, <2>5, <2>6, <2>7, <2>8, <2>9 DEF TickStep
<1> QED BY <1>2, <1>3, <1>4, <1>5, <1>6
        DEF Next, vars, StartStep, StartBegins, StartRunsMissed, StartMissedEnds, UserStep, AddJob,
            UpdateJob, RemoveJob, RunBegins, RunStep, RunAborted, RunEnds, TimePasses,
            MarkerAges

(* What start() or a tick starts was live when it was picked, and nothing  *)
(* took a job away without cancelling the tick.                            *)
LEMMA StartsLive ==
  ASSUME Scheduler, [Next]_vars, NEW j \in Jobs, StartsScheduled(j)
  PROVE  Live(j)
<1>1. CASE \E t \in Tasks : task[t].job # j /\ task'[t].job = j
  <2>1. PICK t \in Tasks : task[t].job # j /\ task'[t].job = j
    BY <1>1
  <2>2. JobStarts(t, j)
    BY <2>1, TaskStartsJob, CronAssumption
  <2> QED BY <2>2, TickFacts DEF JobStarts, PickedBy
<1>2. CASE lock'.by = "start" /\ lock'.job = j /\ lock.job # j
  <2>1. lock' # lock /\ lock' # Unlocked /\ lock' # [by |-> "start", job |-> NoJob]
        /\ lock \in [by : {"nobody", "start", "run"}, job : Jobs \cup {NoJob}]
    BY <1>2, UnlockedFacts, CronAssumption DEF Scheduler, TypeOK
  <2>2. ASSUME NEW i \in Jobs, StartRunsMissed(i) PROVE Live(j)
    <3>1. i = j /\ i \in missed /\ lock.by = "start"
      BY <1>2, <2>1, <2>2 DEF StartRunsMissed
    <3> QED BY <3>1 DEF Scheduler, Sound, Starting
  <2>3. ~ \E o \in Outcomes : StartMissedEnds(o)
    BY <1>2, <2>1, CronAssumption DEF StartMissedEnds
  <2>4. ~ \E i \in Jobs : RunBegins(i)
    BY <1>2 DEF RunBegins
  <2> QED BY <2>1, <2>2, <2>3, <2>4
          DEF Next, vars, StartStep, StartBegins, StartEnds, UserStep, AddJob, UpdateJob, RemoveJob,
              RunStep, RunAborted, RunEnds, TimePasses, MarkerAges, Crash, TickStep,
              TimerFires, TimerFiresBusy, PickDueJobs, JobStarts, JobEnds, JobUnwinds, ApplyResults,
              TickEnds
<1> QED BY <1>1, <1>2 DEF StartsScheduled

(* A job that was disabled, removed or done is not started any more.       *)
THEOREM NeverStartsRetiredCorrect == Spec => NeverStartsRetired
<1>1. Scheduler /\ [Next]_vars =>
        [\A j \in Jobs : StartsScheduled(j) =>
           /\ mem[j] # NoJob /\ mem[j].enabled
           /\ ~(j \in OneShot /\ mem[j].status = "ok")]_vars
  BY StartsLive DEF Live
<1> QED BY <1>1, SchedulerInvariant, PTL DEF Spec, NeverStartsRetired

(* A slot that has come is moved to the future only by a result or a user. *)
LEMMA SlotKept ==
  ASSUME Scheduler, [Next]_vars, NEW j \in Jobs \ OneShot, mem[j] # NoJob, mem[j].next = "past",
         mem'[j] # NoJob, mem'[j].next = "future", mem[j].marker = "none"
  PROVE  ops' # ops
<1>1. OtherTypes /\ LockHeld /\ Offline /\ Starting /\ OkOver(mem)
  BY TypesSplit DEF Scheduler, Sound
<1>2. mem[j] \in Job /\ mem \in Stores /\ disk \in Stores /\ j \in Jobs
  BY <1>1 DEF OtherTypes, Stores
<1>3. up
  BY <1>1 DEF Offline
<1>4. ~ Same(mem[j], mem'[j])
  BY DEF Same
<1>5. ASSUME NEW i \in Jobs, mem[i] # NoJob PROVE mem' # WithMarker(mem, i, "fresh")
  BY <1>2, <1>4, <1>5, MarkFacts
<1>6. lock.job # j
  BY <1>1, CronAssumption DEF LockHeld, Marked
<1>7. ASSUME NEW i \in Jobs, NEW x, i # j PROVE mem' # [mem EXCEPT ![i] = x]
  BY <1>2, <1>7 DEF Stores
<1>8. CASE StartStep
  <2>1. ~ StartBegins
    BY <1>3 DEF StartBegins
  <2>2. ~ \E i \in Jobs : StartRunsMissed(i)
    BY <1>1, <1>5 DEF StartRunsMissed, WithMarker, Starting, Live
  <2>3. ~ \E o \in Outcomes : StartMissedEnds(o)
    <3> SUFFICES ASSUME NEW o \in Outcomes, StartMissedEnds(o) PROVE FALSE
      OBVIOUS
    <3>1. lock.job \in Jobs
      BY <1>1 DEF StartMissedEnds, OtherTypes
    <3> QED BY <1>6, <1>7, <3>1 DEF StartMissedEnds
  <2>4. ~ StartEnds
    <3> SUFFICES ASSUME StartEnds PROVE FALSE
      OBVIOUS
    <3>1. mem' = Recompute(mem, overdue) /\ lock.by = "start" /\ lock.job = NoJob /\ missed = {}
      BY DEF StartEnds, LateAtStart
    <3>2. ~ mem[j].enabled \/ j \notin overdue
      BY <1>1, <3>1, CronAssumption DEF Starting
    <3>3. mem'[j].next = "none" \/ mem'[j].next = mem[j].next
      BY <1>2, <3>1, <3>2, RecomputeFacts DEF Job
    <3> QED BY <3>3
  <2> QED BY <1>8, <2>1, <2>2, <2>3, <2>4 DEF StartStep
<1>9. CASE UserStep
  <2>1. ops' = ops + 1
    BY <1>9 DEF UserStep, RemoveJob, RunBegins, AddJob, UpdateJob, Operation
  <2>2. ops \in Nat
    BY <1>1, CronAssumption DEF OtherTypes
  <2> QED BY <2>1, <2>2
<1>10. CASE RunStep
  <2>1. ASSUME NEW o \in Outcomes, RunEnds(o) PROVE FALSE
    <3>1. lock.job \in Jobs /\ mem' = [mem EXCEPT ![lock.job] = ApplyResult(lock.job, mem[lock.job], o)]
      BY <1>1, <2>1 DEF RunEnds, Commit, LockHeld, OtherTypes
    <3> QED BY <1>6, <1>7, <3>1
  <2> QED BY <1>4, <1>10, <2>1, SameTransitive DEF RunStep, RunAborted
<1>11. ASSUME NEW t \in Tasks, TickStep(t) PROVE FALSE
  <2>1. ASSUME NEW i \in Jobs, JobStarts(t, i) PROVE FALSE
    <3>1. (mem' = WithMarker(mem, i, "fresh") /\ mem[i] # NoJob) \/ mem' = mem
      BY <2>1 DEF JobStarts, WithMarker
    <3> QED BY <1>4, <1>5, <3>1, SameTransitive
  <2>2. ASSUME PickDueJobs(t) \/ ApplyResults(t) PROVE FALSE
    <3>1. Same(mem[j], disk[j]) /\ OkOver(disk) /\ task[t] \in Task /\ PickedBy(t)
      BY <1>2, <2>2, TickFacts DEF PickDueJobs, ApplyResults
    <3>2. disk[j] \in Job /\ disk[j] # NoJob /\ disk[j].next = "past"
      BY <1>2, <3>1 DEF Same, Stores
    <3>3. ASSUME NEW m \in Stores, m[j] = disk[j] PROVE Recompute(m, {})[j].next # "future"
      BY <1>2, <3>2, <3>3, RecomputeFacts DEF Job
    <3>4. CASE PickDueJobs(t)
      <4>1. \/ mem' = Recompute(disk, {})
            \/ \E due : mem' = [i \in Jobs |-> IF i \in due THEN [disk[i] EXCEPT !.marker = "fresh"]
                                              ELSE disk[i]]
        BY <3>4 DEF PickDueJobs
      <4>2. [disk[j] EXCEPT !.marker = "fresh"].next = "past"
        BY <3>2 DEF Job
      <4>3. mem' # Recompute(disk, {})
        BY <1>2, <3>3
      <4> QED BY <1>2, <3>2, <4>1, <4>2, <4>3
    <3>5. CASE ApplyResults(t)
      <4>1. /\ mem' = Recompute(Applied(task[t].results, disk), {})
            /\ task[t].pc = "apply" /\ ~ task[t].cancelled
        BY <3>5 DEF ApplyResults
      <4>2. \A r \in task[t].results : r[1] # j
        BY <3>1, <4>1 DEF PickedBy, Marked
      <4>3. task[t].results \in SUBSET (Jobs \X Outcomes)
        BY <3>1 DEF Task
      <4>4. Applied(task[t].results, disk) \in Stores
            /\ Applied(task[t].results, disk)[j] = disk[j]
        BY <1>2, <3>1, <4>2, <4>3, AppliedFacts
      <4> QED BY <3>3, <4>1, <4>4
    <3> QED BY <2>2, <3>4, <3>5
  <2>3. mem' # mem
    BY <1>4, SameTransitive
  <2> QED BY <1>11, <2>1, <2>2, <2>3
          DEF TickStep, TimerFires, TimerFiresBusy, JobEnds, JobUnwinds, TickEnds
<1>12. ASSUME NEW i \in Jobs, TimePasses(i) \/ MarkerAges(i) PROVE FALSE
  <2>1. CASE TimePasses(i)
    <3>1. mem' = Later(mem, i) /\ Later(mem, i)[j].next = mem[j].next
      BY <1>2, <2>1, LaterFacts DEF TimePasses
    <3> QED BY <3>1
  <2>2. CASE MarkerAges(i)
    <3>1. mem' = Aged(mem, i) /\ Same(mem[j], Aged(mem, i)[j])
      BY <1>2, <2>2, AgedFacts DEF MarkerAges
    <3> QED BY <1>4, <3>1
  <2> QED BY <1>12, <2>1, <2>2
<1>13. ~ UNCHANGED vars
  BY <1>4, SameTransitive DEF vars
<1>14. ~ Crash
  BY <1>2 DEF Crash
<1> QED BY <1>8, <1>9, <1>10, <1>11, <1>12, <1>13, <1>14 DEF Next

(* No recomputation passes over a slot of a recurring job. *)
THEOREM NoSlotSkippedCorrect == Spec => NoSlotSkipped
<1>1. Scheduler /\ [Next]_vars =>
        [\A j \in Jobs \ OneShot :
           /\ mem[j] # NoJob /\ mem[j].next = "past"
           /\ mem'[j] # NoJob /\ mem'[j].next = "future"
           => mem[j].marker # "none" \/ ops' # ops]_vars
  BY SlotKept
<1> QED BY <1>1, SchedulerInvariant, PTL DEF Spec, NoSlotSkipped
===============================================================================
