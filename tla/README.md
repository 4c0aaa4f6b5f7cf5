# A TLA+ model of the OpenClaw gateway core

This directory models the parts of `src/openclaw` that decide *when* things
run: the lanes that serialise agent turns, the attempts of a turn and the lock
file that keeps them apart, the control of runs by chats and aborts, the queue of
messages that wait for a turn, the wake-ups of the heartbeat, the registry of
remote nodes, and the cron scheduler. TLC checks the models on small instances; TLAPS
proves the type invariant and the safety properties of every one of them for all
instances. `PROJECT.json` maps each definition to the lines it stands for.

The program is one Python process with one asyncio event loop. A step of every
model is therefore what one coroutine or callback does between two suspension
points; the interleavings TLC explores are those of suspended coroutines,
timers, messages from outside and (where it matters) a restart.

## Inventory

| Component | State | Operations | What is hard | What makes it correct |
|---|---|---|---|---|
| Lane (`agents/queuing/lane.py`) | FIFO queue, the entry in the worker's hand, `active`, `_active_tasks`, `_running`, the worker task, `max_concurrent`, `generation` | enqueue (with timeout), worker loop, completion, clear, stop, reset | idle exit of the worker against an enqueue; entries that are in no table while the worker polls for a slot; counters across resets; tasks ending in `CancelledError` | no stranded entry, entries once and in order, the limit, every caller answered |
| Queue manager (`agents/queuing/queue.py`) | lanes per session, fixed lanes, the drain flag | nested enqueue, drain, clear, abort | an entry holds one lane while it waits for another; drain verdicts between steps | turns of a session one at a time, no deadlock, no turn after the verdict of a drain |
| Followup queue (`auto_reply/reply/queue.py`, `queue_policy.py`, `agent_runner.py`, `followup_runner.py`; `agents/pi_embedded.py`) | queue objects and the dictionary that names them, drain task per object, registry of active runs | routing of a message, enqueue with drop policy, drain, interrupt | a drain task keeps an object the dictionary has forgotten; arrivals between the last test of the drain and its exit | every message reaches the agent once, in order |
| Heartbeat wake (`infra/heartbeat_wake.py`) | pending wakes per target, one timer, two flags | request, fire, retry, register, dispose | timer against batch in progress; wakes before the handler; retries | no wake forgotten or weakened, the retry delay |
| Node registry (`gateway/node_registry.py`, `node_subscriptions.py`; life of a connection in `gateway/server.py`) | node entries, two reverse tables, subscriptions, pending invocations | connect, register, close, subscribe, invoke, answer, timeout | a handshake that fails halfway; two ids per client; answer, timer and disconnect race; a node registers again before its old connection ends | tables agree, one true reply per caller |
| Cron service (`cron/service.py`, `timer.py`, `locked.py`, `store.py`) | jobs in memory and on disk, run markers, one timer task, a store lock | tick, add, update, remove, forced run, start after a crash | every re-arm cancels the timer task, which may be the running tick; jobs run outside the lock; markers survive a crash | scheduled runs of a job do not overlap, the scheduler stays armed, what finished is not run again |
| Session lock and turns (`gateway/pi_runtime.py`, `agents/session_lock.py`, `agents/pi_embedded.py`) | the lock file, the lock context of an attempt, candidate models and auth profiles, the registry of the active run | acquire with takeover of a stale file, fallback, rotation, token refresh, exit, cancellation | turns that no lane serialises; exits that leave the file behind; a takeover from a turn that is still alive; the deadline | attempts do not overlap while their lock is theirs, the registry names the attempt that runs, every turn ends |
| Run control (`gateway/api/chat.py`, `gateway/handlers.py`, `gateway/api/sessions_methods.py`) | `active_runs`, `agent_dedupe`, `agent_run_status`, tasks with done callbacks | chat.send, /stop, chat.abort, agent, agent.wait, reset | callbacks that run later than the end of a task; aborts that wait; repeated keys; a reset between the lookup of a key and its entry | tables exact, true answers of agent.wait, nothing after an abort, every client told |
| Gateway lock (`infra/gateway_lock.py`) | a lock file with the process id of its owner | acquire, stale takeover, release | several processes, a crash with the lock held | at most one owner |

Components left out, with the reason for each, are in `PROJECT.json`
(`not_modelled`).

How they interact: a channel hands a message to the followup queue's routing
(`run_prepared_reply`); RPC requests and subagents go through the queue
manager (`enqueue_session_then_lane`), which puts an entry in the session's
lane whose body enqueues a second entry in a command lane. Cron requests
heartbeat wakes; the wake handler answers "requests-in-flight" when lanes are
busy. Node calls are answered by RPC messages over the node's connection.
Whatever the way a turn came, it is a call of `run_turn` (`SessionTurns`): chats and
auto-reply call it directly, agent requests out of a lane, cron out of a job. The
components share the registry of active runs (written by `run_turn`, read by the
routing of messages) and `active_runs` (written by chat.send and agent, read by the
aborts and by agent.wait).

## Modules

| Module | Models | Reading |
|---|---|---|
| `FifoExecutor` | what a lane promises: callers' entries start in order, at most `capacity` at a time, each is answered once | abstract specification |
| `Lane` | one or more `Lane` objects, all operations | `Next` is normal operation, `RestartNext` adds `reset_all_lanes`, `LifecycleNext` adds `stop` and `reset_generation` |
| `QueueManager` | the manager over instances of `Lane` (`L == INSTANCE Lane`) | every lane operation in it is an action of `Lane`; requests, aborts, timeouts, the drain |
| `FollowupQueue` | routing, queue objects, drain task, active-run registry, one session | `ContendedNext` adds interrupt mode and turns of other entry points |
| `HeartbeatWake` | wake requests, the timer, batches | time in steps of the 250 ms window |
| `NodeRegistry` | connections, tables, subscriptions, invocations | `GatewayNext` is the gateway, where no node gets registered; `Next` adds the call of `register_node` |
| `Cron` | the cron service: jobs in memory and on disk, the timer task that becomes the tick, the store lock, user operations, restarts | `UserStep`, `TickStep`, `StartStep`, `RunStep` group the actions by who takes them |
| `SessionTurns` | the calls of `run_turn` for one session: lock file, attempts, registry | time in steps of half the stale age |
| `RunControl` | requests of one session from chat.send and agent, `active_runs`, aborts, done callbacks | a turn is `running`, `unwinding` or `over`; its inside is `SessionTurns` |
| `LaneProofs` | theorems about `Lane`, and that it implements `FifoExecutor` | its refinement part builds on the invariants before it |
| `QueueManagerProofs` | theorems about `QueueManager` | takes what holds of one lane from `LaneProofs` |
| `FollowupQueueProofs`, `HeartbeatWakeProofs`, `NodeRegistryProofs`, `CronProofs`, `SessionTurnsProofs`, `RunControlProofs` | theorems about the module they are named for | each states its inductive invariant first |
| `MC*` | constants for TLC | |

Definitions named in comments as *Fault* are deliberately wrong variants of the
definition that follows them. `PROJECT.json` ("mutants") pairs every checked
property with one: put in the place of the real definition it makes TLC find the
property violated, so each property is known to be able to fail.

### Lane and QueueManager

An entry is `(task, future, id, generation)`; the model gives each a name in
`Tasks`. `worker[l]` says where the worker coroutine is suspended: `created`,
in its `get`, or holding an entry while it polls for a slot (`hold`). `Take`
and `StartHeld` are separate even when a slot is free, because `wait_for` may run
the get as a task of its own. `future[t]` holds the outcome the caller sees;
`lost` is a ghost variable that collects the entries whose caller can no longer
be answered, for the three reasons the code has. In `QueueManager` an entry is a
pair of a request and a level; the body of the outer entry is the pair of actions
`EnterTarget` and `ReturnFromTarget`. The lane of a session is named by its session:
`get_session_lane` makes it when the key is first used and nothing removes it.

`wait_for_active_tasks` adds up the counters of running tasks, and a session entry that
is queued or held by its worker is in none of them. `drained` remembers the verdict.
That every lane is idle then, as the docstring says (queue.py:276), does not follow. What
the code does give is `NoTurnAfterVerdict`: a session entry that starts later runs a
body whose `enqueue_in_lane` tests the drain flag again, so its turn is refused. The
global lane of `enqueue_both` has no such test, and a timed wait may have left its turn
behind; the property excludes these two.

### FollowupQueue

`registered` is the dictionary entry of the session, an object name or none;
`items`, `summary`, `mode`, `draining` belong to objects, so an object that was
removed from the dictionary lives on in its drain task. `msg[m]` is both the fate
of a message and the stage of the turn it started. The debounce wait and the
followup run are suspension points; the loop test and the `finally` clause of
`_drain` run in one step with what precedes them, as in the code.

### HeartbeatWake

The timer is a record of its kind, the time left and its delay. Reasons are their
priorities. A timer that is due and the task it spawns are one thing, because
`_schedule` treats both alike: it never replaces them. The ghosts `owed` and
`cooled` remember the most urgent unserved request and the time since a skip.

The docstring of the module says that a skipped wake comes back "with reason "retry""
(lines 12-14), the rank below all others. The code keeps the wake's own reason (231,
245). The model does what the code does: `NoUrgencyLost` is a property of the code as it
is, and would not hold of the code the docstring describes. The finding of
`heartbeat_retry`, about the same sentence of the docstring, records the disagreement.

### NodeRegistry

`entry` is `_nodes` (a node's connection), `connToNode` and `deviceNodes` the
reverse tables, `registered` the connections whose `node_id` is set. An invocation is
`sending` until its frame is written; only then is it in `pending` with its timer
`armed`, which is the order of the code.

*The handshake.* For role "node", `handle_connect` authenticates the client and then
reads `connect_req.caps`, which `ConnectRequest` does not have. The exception is
answered HANDSHAKE_FAILED and the connection stays open and authenticated: that is
`Connect`, and `GatewayNext` has no other way in. Nothing in the gateway calls
`register_node` except the lines after that exception, so in the gateway no call leaves
`invoke` and no disconnect clears anything. `node_subscriptions` shows what follows for
subscriptions, and its finding quotes the lines of the handshake. `Next` adds `Register`, the call of `register_node` on an
open connection, and with it the registry as a class: what its methods do once somebody
registers a node. `TablesAgree`, `TrueReplies` and `EveryInvokeReturns` are about that.

*The two ids.* `NodeOf` is the id `handle_connect` would register a connection under
(instance id, client id, device id); `CallerOf` is the one its requests are attributed to
(`_resolve_node_caller_id`: device id, then client id). Subscriptions are kept under the
caller id, and `unregister_node` clears those of the node id. An answer carries the
caller id, and `resolve_invoke_result` refuses it when the call was addressed to another
one; the call then ends by its timer. `TrueReplies` is therefore about the id that was
called. When a node registers beside its old connection, the end of the old one removes
the entry of the new one, and keys of the old connection stay in the reverse tables:
`TablesAgree` only says that what an entry names is found.

### Cron

`task[t]` is an asyncio task of the timer, `current` the one `CronTimer._task`
names. A task that was cancelled in the middle of a job is no longer `current` but
runs on until the job has unwound. `lock` is held only where the code awaits under
it: a forced run, and `start` while missed jobs run; the other sections under the
lock are single steps guarded by `Idle`. A time is `past` or `future`, and a marker
`stale` after the two hours of `STUCK_RUN_MS`. `PickDueJobs` is separate from
`TimerFires` although a free lock is taken at once, which only adds interleavings.
The jobs of a tick start in any order; the code uses the order of the file.
`NeverStartsRetired` holds because operations cancel the tick, which is also why
markers are left behind: the mutant that cancels only a sleeping timer breaks it.

### SessionTurns

`pc[t]` is where a call of `run_turn` is suspended: waiting for the lock, in its
prompt, handing out events after the prompt (`yielding`, or `exhausted` when the
last model had a quota error), or unwinding after a cancellation. `holds` is the
set of calls whose `_attempt_lock_ctx` is set, which is not the same as owning the
file: `_release` unlinks whatever file is there. `Fallback` releases and tries again
in one step, because nothing is awaited in between; `Rotate` does not release. Two
ghosts say when exclusion is lost for a reason the code accepts: `robbed` are the
attempts whose stale file another turn removed, `displaced` the run ids that shared
the session or waited for the lock between two attempts (the handle of a turn is
registered once, at its first attempt).

### RunControl

A chat's task *is* its turn; the task of an agent request only waits for a lane
entry, so `turn` and `task` are two variables and cancelling the latter leaves the
former. `callbackDue` separates the end of a task from its done callback, which
asyncio runs in a later step. `told[k]` are the end events of a run sent so far.
`todo` and `at` are the loop of chat.abort, which waits up to 3 s for each task. For a
task that is done it does not wait; the model allows a step of somebody else there,
which only adds interleavings. A key with two runs is `Shared`: two chats may use one
key because chat.send does not look it up, and the callback of the first then removes
the entry of the second; the properties are about the other keys.

## Runs

| Run | Instance | Shows |
|---|---|---|
| `lane` | 1 lane, 4 entries, limits 1 and 2, every policy and outcome | the invariants below, refinement of `FifoExecutor`, every caller answered or lost for a named reason |
| `queue_manager` | 3 requests of 2 sessions, the turns of two for one slot of a command lane, one timed request, one drain | session turns are serial, no turn enters a lane after the verdict of the drain, the two levels of lanes do not deadlock: every accepted request is answered |
| `followup_queue` | 4 messages, cap 2, 3 objects, 3 modes | each message reaches the agent once, in order, one drain at a time |
| `followup_interrupt` | the same with interrupt mode | **violated**: a message is lost |
| `heartbeat_wake` | 2 targets, 3 priorities, retry = 4 windows | no wake forgotten or weakened |
| `heartbeat_retry` | 1 target | **violated**: a retry comes before its delay |
| `node_registry` | 2 nodes, 3 connections, one of them with a device id, 2 calls, `register_node` called | tables agree, one true reply per caller, every call returns |
| `node_subscriptions` | the same in the gateway (`GatewaySpec`) | **violated**: a subscription outlives its connection |
| `cron` | 1 recurring and 1 one-shot job, 2 user operations, 1 restart, 1 retry | the scheduler's runs of a job never overlap, the timer never dies, answered changes survive, no slot is skipped, a due job runs |
| `session_turns` | 3 turns, 2 of them with one run id; 2 models, 2 profiles; stale after 300 s, deadline 600 s; 2 cancellable, 1 crash | attempts exclusive unless robbed or past the deadline, registry true, every turn ends |
| `session_lock_left` | the same without cancellation, crash and Copilot | **violated**: the rotation leaves the lock file of its own attempt |
| `run_control` | 2 chats, 2 agent requests with one key (one of them a reset), 1 caller of chat.abort | tables exact, agent.wait true, nothing after an abort, every chat concluded |

The violated runs each check one sentence of a docstring or comment of the
program; the findings in `PROJECT.json` quote it and say what the code does.

**Bounds.** Four entries fill every place of a lane at once: two running, one
in the worker's hand, one queued. Three requests of two sessions give two session
bodies that wait for the one slot of a command lane, and a third request, of the session
of one of them, whose turn goes to the global lane and could run beside the first. Four
messages and a cap of two give a full queue, a drop and an arrival during the
drain. The generations of `Lane` are bounded by `MaxGeneration`; no run
starts one. The time bound of the heartbeat is the retry delay of four
windows. Three connections let one node leave and return, under a device id of its own
or beside its old connection, while another stays.
Two operations of a cron user are enough to disable and enable a job
under a run that still unwinds; one restart leaves markers and overdue jobs in the
file; two timer tasks are all there can be, a tick and a sleeping timer.
Three turns of a session are one in an attempt, one waiting for its lock and one that
comes when the first is robbed; two models and two profiles for one of them give each
way from an attempt to the next. The unit of time there is 150 s, so a file is stale in
its second unit, as in the code where the deadline is twice the stale age; ages and
waits stop at their limit. One crash leaves one file. In `run_control` the
two chats and the agent requests have keys of their own except the repeated one, and
the caller of chat.abort comes back as often as it likes.
Followup objects are never reused, so their number bounds how often the
dictionary entry is recreated; when they run out no message is queued any more
(`Enqueue` requires a fresh object), which restricts nothing before.
Deadlock checking is off everywhere: every one of these systems may come to rest.

**Fairness.** Each fair action is a coroutine or timer the event loop will run
once it is ready. Beyond that we assume that a task body or agent turn ends (turns
run under a timeout), that a handler call returns, that a send returns or
fails, that a cron job ends (a scheduled one by its timeout; a forced one has none
in the code), that the prompt of a turn ends, that a crashed process is started
again, and that time passes. A turn that waits for a lock polls it every 50 ms, and a
done callback is run by the loop. Arrivals, aborts, clears, timeouts of callers and
connects, cron users and crashes are never fair.

## Proofs

TLAPS proves every invariant and action property of the passing runs, for any value
of the constants that satisfies the assumption its module names, and
the refinement of `FifoExecutor`. Each proof has one inductive invariant, one lemma per
action (or group of like actions) that keeps it, and theorems that follow from it.
The invariants were checked by TLC on the run's instance before they were proved.

| Module | Inductive invariant | Theorems |
|---|---|---|
| `LaneProofs` | the properties themselves, one on the other | `TypeCorrect`, `EntryOnceCorrect`, `NoLostCallerCorrect` (of `LifecycleSpec`, through every reset and stop); `CounterCorrect`, `NoStrandedEntryCorrect`, `StartsWithinLimitCorrect`, `LaneImplementsFifoExecutor` (of `Spec`) |
| `QueueManagerProofs` | `Manager` | `LanesInNormalOperation`, `TypeCorrect`, `SessionSerialCorrect`, `NoTurnAfterVerdictCorrect` |
| `FollowupQueueProofs` | `Queue` | `TypeCorrect`, `PromptedAtMostOnceCorrect`, `NoMessageLostCorrect`, `ArrivalOrderCorrect`, `DrainFindsWork` |
| `HeartbeatWakeProofs` | `Wake` | `TypeCorrect`, `NoUrgencyLostCorrect`, `TimerExactCorrect` |
| `NodeRegistryProofs` | `Registry` | `TypeCorrect`, `TablesAgreeCorrect`, `TrueRepliesCorrect` |
| `CronProofs` | `Scheduler` | `TypeCorrect`, `ScheduledRunsDisjointCorrect`, `SchedulerAliveCorrect`, `AnswersAreDurableCorrect`, `NeverStartsRetiredCorrect`, `NoSlotSkippedCorrect` |
| `SessionTurnsProofs` | `Owned`, `Registered` | `TypeCorrect`, `AttemptsExclusiveCorrect`, `RegistryTruthfulCorrect` |
| `RunControlProofs` | `Control` | `TypeCorrect`, `RunTableExactCorrect`, `AbortedIsLastCorrect`, `TruthfulWaitCorrect` |

**Lane** (`LaneAssumption`). `EntryOnce` is inductive relative to `TypeOK`. Its last
conjunct, that an entry in a lane has been accepted, is what makes it so: `enqueue`
puts only an entry nobody has seen. The lemmas are about one lane (`Once`), and
`OthersKeep` says that an action of one lane leaves the others alone.
`CounterExact` is inductive relative to `EntryOnce`: adding the held entry to
`executing` raises its size by one because the held entry is not in it.
`NoStrandedEntry` is inductive lane by lane (`Attended`), and `StartsWithinLimit`
follows for each step: the only action that adds to `executing` is guarded by a counter
that is exact. These do not hold after a reset: `_execute_task` decrements the counter
whatever the generation (lane.py:152), and a worker that is alive when
`reset_all_lanes` clears `_running` returns without a successor. `NoLostCaller` is
inductive relative to `TypeOK`: each step keeps every entry of a lane within reach of
its caller, answers it, or adds it to `lost` (`Keeps`). The refinement maps the entry
the worker holds to the front of the waiting line. `Take` then shows nothing,
`StartHeld` is `Begin` (its guards need `CounterExact` for the limit and `EntryOnce` for
the entry not being under way), `Clear` is `RejectAfter(l, 1)` or `RejectAfter(l, 0)`,
with and without a held entry, and policy "old" is `SubmitDropping` of the second or
the first in line.

**QueueManager** (`QueueManagerAssumption`). Every step of the manager is a step of
`Lane` in normal operation or leaves the lanes alone (`NextIsLaneNext`), so that
`EntryOnce` and `CounterExact` come from `LaneProofs`. `Nested` ties the two levels
together: an inner entry that is accepted and was not given up belongs to an outer entry
that executes in the lane of its session. As that lane executes one entry,
two turns side by side must include one that was given up. For
`NoTurnAfterVerdict`, counters of zero at the verdict mean that no session body executes
(`CountersZero`), so that by `Nested` no turn of theirs is under way; from then on
`EnterTarget` refuses every other one, and `Verdict` keeps that through each step.

**FollowupQueue** (`FollowupAssumption`; `Spec`, without interrupts and turns of other
entry points, with which `NoMessageLost` fails). `Attached` says that the drain task
works on the object of the dictionary and that all others are empty; then at most one
drain lives. `Carried` says that a message waits for its prompt exactly as long as a
queue holds it. `InOrder` says that queues are sorted by arrival and that the messages
dropped into the summary are older than those left; what a drain picks is then older
than what stays. The lemmas about sequences before it reduce `Append`, `Tail` and `ToSet`
to their elements. `DrainFindsWork` shows that `DrainFindsNothing` is no step of `Spec`.

**HeartbeatWake** (`HeartbeatWakeAssumption`). `Flags` ties the timer's kind, the flag
and the batch together; that nothing is left in the batch between two batches is what
lets `FireBatch` overwrite it without weakening a wake. `TimerExact` is stated there only: a
registered handler has a timer exactly when a wake is pending, so that the guard of
`FireBatch` leaves out no batch the code could handle.

**NodeRegistry** (`NodeRegistryAssumption`, for any node, caller and device ids; `Spec`,
with `register_node`, of which `GatewaySpec` is a part). `Registry` splits `TablesAgree`
into `EntriesFound` and `CallTables` and adds `Unanswered`: a call that is not yet
pending has no reply, which is why `SendReturns` puts no answered call into the
dictionary. `EntriesFound` survives the close of an old connection because that close
removes the entry of the node whosever it is.

**Cron** (`CronAssumption`: one-shot jobs are jobs, `NoJob` is neither the name of a job
nor a job, `NoTask` no task). `Scheduler` has one part per
argument. `TimerOK`: there is one tick at a time, it holds the running guard, and a tick
that `_task` no longer refers to has been cancelled; this gives
`ScheduledRunsDisjoint`. `Durable`: memory and file differ in markers only, except during
a start; a run that holds the lock keeps this too, which `AnswersAreDurable` does not
say. `Picked`: the jobs a tick has left to start are enabled, because every operation that
retires a job cancels the tick first; with `LockHeld`, `Offline` and
`Starting`, which say the same of the start and of forced runs, it gives
`NeverStartsRetired`. `OkOver` says that a one-shot job that succeeded has no next run.

**SessionTurns** (`SessionTurnsAssumption`). `AttemptsExclusive` is not inductive: it
does not say whose the file is. `Owned` does: a call that has a lock is in an attempt,
and owns the file unless it was robbed. Every step that frees or takes a file robs
whoever owned it (`RobCovers`). `RegistryTruthful` follows from `Registered`, which adds
that handles belong to live calls, that of two attempts side by side both are displaced,
and that a call which waits with the handle of an earlier attempt is displaced.

**RunControl** (`RunControlAssumption`). `RunTableExact` is inductive once turns and
tasks are tied together (`TaskAndTurn`: a request has a task from its launch on, a
callback is due only of a task that is done): a step that unlists a run either is the
callback of the only run of the key, or has told of an abort. `Aborting` follows a run
through an abort: what chat.abort visits was launched, a chat whose abort was asked for
runs no more, and the task of an agent request ends before its turn only after an abort.
`OnlyChatsUnwind`, an invariant of its own, says that nothing but a chat is ever
unwinding. A chat that was told of its abort can then report nothing else, and agent.wait finds the run in `active_runs` while its task goes on.

Only model-checked, because liveness under fairness and ENABLED are beyond the proof
system: `EveryCallerAnswered`, `EveryRequestAnswered`, `EveryMessagePrompted`,
`EveryWakeHandled`, `EveryInvokeReturns`, `DueJobRuns`, and the liveness of
`SessionTurns` and `RunControl`. `TimerExact` and `SchedulerAlive` are the safety part of
two of them: something is armed that will bring what is due.

## Not modelled

Code that nothing calls: `reset_all_lanes` and the restart of `ServicesManager`,
which no production code constructs (the reset is an action of `Lane` for the proofs
only); `cleanup_session`; the ACP control plane; completion, announcement and restore
in the subagent registry; `ChatRunState`, `gateway/dedupe.py`, the reload of the
configuration, `wait_for_embedded_pi_run_end`, the outbound delivery queue. The abort
that auto-reply asks of `chat_abort.py` is a coroutine nobody awaits (get_reply.py:112).
The gateway lock, a protocol between processes.
In `run_turn`: the retry after a context overflow, whose flag nothing sets; that a
handle keeps the model session of its first attempt after a fallback evicted it; and
`sessions.compact`, which locks the file of the session key where turns lock that of
the session id, so that the two never exclude each other.
In the node registry: the event subscriptions of a `NodeEntry`, ping times, and the
fallback of node.invoke.result to the `NodeManager`.
In the run control: the delivery of a broadcast. `told` counts broadcasts that were
started; the task that delivers one (server.py:697-708) iterates the set of connections
across awaits, and a client that connects or leaves meanwhile can cost the others the
event. Also transcripts, the partial text of an abort (its buffer is never
filled), the event streams of agent requests.
In the cron service: a save that fails after the change in memory, which also skips
`_arm_timer` (service.py:777-779); failure alerts, which with the callback that
`cron_bootstrap` wires in are a logged TypeError (it does not take the keyword arguments
of `_fire_failure_alert`) and save nothing; schedule expressions and their error counter,
the session reaper and run logs; a job that uses the cron tool while it is executed under the
store lock (a deadlock in the code, listed under the hazards).
Model calls, tools, transcripts, channels and formatting: a turn is one
nondeterministic outcome. Wall-clock values other than the heartbeat's windows:
timeouts may strike at any moment. The choice of queue settings. Steer-backlog
mode, which gives a message to the agent twice on purpose. Re-registration of a
heartbeat handler, and `reset_heartbeat_wake_state`, which no code calls.

## Plan

1. Refinement: an abstract specification of the followup queue (each message accepted
   is prompted once, in order) and of the cron scheduler, with `FollowupQueue` and `Cron`
   proved to implement them from the invariants above.
2. Invariants of `ContendedSpec` of the followup queue: what still holds with interrupts.
3. `GatewayLock`: the lock file of the gateway, several processes.
4. A model of the pairing store: expiry and caps of the requests.
