---------------------------- MODULE FollowupQueue ----------------------------
(***************************************************************************)
(* What happens to an inbound message of one session: the routing decision *)
(* of auto_reply/reply/queue_policy.py and agent_runner.py, the followup   *)
(* queue and its drain task in queue.py, the followup runs of              *)
(* followup_runner.py, and the registry of active runs in                  *)
(* agents/pi_embedded.py that the decision reads.                          *)
(*                                                                         *)
(* Queue states are Python objects: the drain task keeps the one it was    *)
(* started with, while the dictionary entry of the session may be deleted  *)
(* and created again.                                                      *)
(***************************************************************************)
EXTENDS Integers, Sequences, FiniteSets, SequencesExt

CONSTANTS
  Messages,   \* the inbound messages of the session
  ChannelOf,  \* ChannelOf[m]: originating channel and target of m
  Objects,    \* _FollowupQueueState objects
  NoObject,   \* no dictionary entry for the session
  Foreign,    \* runs of the session started elsewhere (gateway, cron)
  NoRun,      \* no active run registered
  Cap,        \* queue.cap
  Modes,      \* the queue modes in force when messages arrive
  Policies    \* the drop policies in force when messages arrive

ASSUME FollowupAssumption ==
  /\ Cap \in Nat \ {0}
  /\ Modes \subseteq {"followup", "collect", "steer", "interrupt"}
  /\ Policies \subseteq {"old", "new", "summarize"}
  /\ IsFiniteSet(Objects) /\ NoObject \notin Objects
  /\ NoRun \notin Messages \cup Objects \cup Foreign

VARIABLES
  registered,  \* _FOLLOWUP_QUEUES[key], or NoObject
  fresh,       \* objects not created yet
  items,       \* items[o]: the waiting runs, oldest first
  summary,     \* summary[o]: messages in summary_lines; dropped_count is their number
  mode,        \* mode[o]
  draining,    \* draining[o]: the flag
  drain,       \* drain[o]: where the drain task of o is suspended
  batch,       \* batch[o]: messages in the prompt of the followup being run
  active,      \* ACTIVE_EMBEDDED_RUNS[session_id]: a run, or NoRun
  msg,         \* msg[m]: what became of m, and the stage of the run it started
  foreignRun,  \* foreignRun[f]: stage of a run started elsewhere
  prompts,     \* ghost: prompts[m], the number of agent prompts m is part of
  cleared,     \* ghost: messages removed by clear_session_queues
  order        \* ghost: the messages given to the queue, oldest first

queueVars == <<registered, fresh, items, summary, mode>>
drainVars == <<draining, drain, batch>>
ghostVars == <<prompts, cleared, order>>
vars == <<queueVars, drainVars, active, msg, foreignRun, ghostVars>>

(* A run is named by the message that started it, by the queue object      *)
(* whose drain runs it, or is foreign.                                     *)
Runs == Messages \cup Objects \cup Foreign

Init ==
  /\ registered = NoObject
  /\ fresh = Objects
  /\ items = [o \in Objects |-> <<>>]
  /\ summary = [o \in Objects |-> {}]
  /\ mode = [o \in Objects |-> "followup"]
  /\ draining = [o \in Objects |-> FALSE]
  /\ drain = [o \in Objects |-> "none"]
  /\ batch = [o \in Objects |-> {}]
  /\ active = NoRun
  /\ msg = [m \in Messages |-> "new"]
  /\ foreignRun = [f \in Foreign |-> "none"]
  /\ prompts = [m \in Messages |-> 0]
  /\ cleared = {}
  /\ order = <<>>

Prompted(S) == prompts' = [m \in Messages |-> prompts[m] + (IF m \in S THEN 1 ELSE 0)]

-----------------------------------------------------------------------------
(* run_prepared_reply with no active run: _run_agent_now is spawned.       *)
RunNow(m) ==
  /\ msg[m] = "new" /\ active = NoRun
  /\ msg' = [msg EXCEPT ![m] = "starting"]
  /\ Prompted({m})
  /\ UNCHANGED <<queueVars, drainVars, active, foreignRun, cleared, order>>

(* Mode "steer" while the active run streams: the text joins that run.     *)
Steer(m) ==
  /\ msg[m] = "new" /\ active # NoRun /\ "steer" \in Modes
  /\ msg' = [msg EXCEPT ![m] = "steered"]
  /\ Prompted({m})
  /\ UNCHANGED <<queueVars, drainVars, active, foreignRun, cleared, order>>

(* Mode "interrupt": abort the active run, clear_session_queues, run now.  *)
(* The aborted run ends later, by itself.                                  *)
Interrupt(m) ==
  LET o == registered IN
  /\ msg[m] = "new" /\ active # NoRun /\ "interrupt" \in Modes
  /\ IF o = NoObject
     THEN UNCHANGED <<queueVars, cleared>>
     ELSE /\ cleared' = cleared \cup ToSet(items[o]) \cup summary[o]
          /\ items' = [items EXCEPT ![o] = <<>>]
          /\ summary' = [summary EXCEPT ![o] = {}]
          /\ registered' = NoObject
          /\ UNCHANGED <<fresh, mode>>
  /\ msg' = [msg EXCEPT ![m] = "starting"]
  /\ Prompted({m})
  /\ UNCHANGED <<drainVars, active, foreignRun, order>>

(* Faults: room for one run too many; a dropped run leaves no trace; the   *)
(* newest run comes first.                                                 *)
PastCap(o) == Len(items[o]) > Cap
ForgetDropped(o, m) == summary
NewestFirst(q, m) == <<m>> \o q

(* The pieces of _apply_drop_policy and of the append after it. *)
AtCap(o) == Len(items[o]) >= Cap
Summarized(o, m) == [summary EXCEPT ![o] = @ \cup {m}]
InLine(q, m) == Append(q, m)

(* enqueue_followup_run: get or create the queue state, store the mode,    *)
(* apply the drop policy at the cap, append.  Runs enqueued here carry no  *)
(* message id, so the duplicate test never matches.                        *)
Enqueue(m, md, policy) ==
  LET o    == IF registered = NoObject THEN CHOOSE x \in fresh : TRUE ELSE registered
      full == AtCap(o)
  IN
  /\ msg[m] = "new" /\ active # NoRun
  /\ md # "interrupt"
  /\ registered # NoObject \/ fresh # {}
  /\ registered' = o
  /\ fresh' = fresh \ {o}
  /\ mode' = [mode EXCEPT ![o] = md]
  /\ IF ~ full
     THEN /\ items' = [items EXCEPT ![o] = InLine(@, m)]
          /\ UNCHANGED summary
     ELSE IF policy = "new"
     THEN /\ summary' = Summarized(o, m)
          /\ UNCHANGED items
     ELSE /\ summary' = Summarized(o, Head(items[o]))
          /\ items' = [items EXCEPT ![o] = InLine(Tail(@), m)]
  /\ msg' = [msg EXCEPT ![m] = IF full /\ policy = "new" THEN "refused" ELSE "queued"]
  /\ order' = Append(order, m)
  /\ UNCHANGED <<drainVars, active, foreignRun, prompts, cleared>>

-----------------------------------------------------------------------------
(* set_active_embedded_run, reached only after hooks, session creation and *)
(* model resolution; it replaces whatever run is registered.               *)
Register(m) ==
  /\ msg[m] = "starting"
  /\ msg' = [msg EXCEPT ![m] = "active"]
  /\ active' = m
  /\ UNCHANGED <<queueVars, drainVars, foreignRun, ghostVars>>

(* clear_active_embedded_run at the end of the turn (or at its timeout):   *)
(* only the run that is still registered is removed.  A turn may also fail *)
(* before it registers.                                                    *)
Deregister(r) == active' = IF active = r THEN NoRun ELSE active

TurnEnds(m) ==
  /\ msg[m] \in {"starting", "active"}
  /\ msg' = [msg EXCEPT ![m] = "delivering"]
  /\ Deregister(m)
  /\ UNCHANGED <<queueVars, drainVars, foreignRun, ghostVars>>

(* Fault: the turn ends without a look at the queue. *)
ScheduleNothing == UNCHANGED <<draining, drain>>

(* schedule_followup_drain, with the depth test of finalize_with_followup. *)
ScheduleDrain ==
  LET o == registered IN
  IF o # NoObject /\ items[o] # <<>> /\ ~ draining[o]
  THEN /\ draining' = [draining EXCEPT ![o] = TRUE]
       /\ drain' = [drain EXCEPT ![o] = "debounce"]
  ELSE UNCHANGED <<draining, drain>>

(* The finally clause of _run_agent_now, after the reply was delivered.    *)
Finalize(m) ==
  /\ msg[m] = "delivering"
  /\ msg' = [msg EXCEPT ![m] = "done"]
  /\ ScheduleDrain
  /\ UNCHANGED <<queueVars, batch, active, foreignRun, ghostVars>>

(* The finally clause of _drain.  With items left it schedules the drain   *)
(* of the queue registered now; otherwise it deletes the registered entry, *)
(* whichever object that is.                                               *)
DrainExits(o) ==
  /\ IF items[o] # <<>>
     THEN /\ IF registered # NoObject /\ (registered = o \/ ~ draining[registered])
             THEN /\ draining' = [draining EXCEPT ![o] = FALSE, ![registered] = TRUE]
                  /\ drain' = [drain EXCEPT ![o] = "none", ![registered] = "debounce"]
             ELSE /\ draining' = [draining EXCEPT ![o] = FALSE]
                  /\ drain' = [drain EXCEPT ![o] = "none"]
          /\ UNCHANGED registered
     ELSE /\ draining' = [draining EXCEPT ![o] = FALSE]
          /\ drain' = [drain EXCEPT ![o] = "none"]
          /\ registered' = IF summary[o] = {} THEN NoObject ELSE registered
  /\ UNCHANGED <<fresh, mode>>

(* The debounce window of the drain task is over.  "collect" merges the    *)
(* items of one channel into one prompt; otherwise the oldest item is run, *)
(* and either prompt carries the summary of the dropped messages.          *)
(* Fault: the summary is prompted and kept. *)
KeepSummary(o) == UNCHANGED summary

FlushSummary(o) == summary' = [summary EXCEPT ![o] = {}]
EntryWhileDraining(o) == UNCHANGED registered

SingleChannel(o) == Cardinality({ChannelOf[m] : m \in ToSet(items[o])}) = 1

DrainPicks(o) ==
  LET collect == mode[o] = "collect" /\ Len(items[o]) > 1 /\ SingleChannel(o)
      taken   == IF collect THEN ToSet(items[o]) ELSE {Head(items[o])}
  IN
  /\ drain[o] = "debounce" /\ items[o] # <<>>
  /\ batch' = [batch EXCEPT ![o] = taken \cup summary[o]]
  /\ Prompted(taken \cup summary[o])
  /\ items' = [items EXCEPT ![o] = IF collect THEN <<>> ELSE Tail(@)]
  /\ FlushSummary(o)
  /\ EntryWhileDraining(o)
  /\ drain' = [drain EXCEPT ![o] = "starting"]
  /\ UNCHANGED <<fresh, mode, draining, active, msg, foreignRun,
                 cleared, order>>

(* Only possible when clear_session_queues emptied the queue meanwhile. *)
DrainFindsNothing(o) ==
  /\ drain[o] = "debounce" /\ items[o] = <<>>
  /\ DrainExits(o)
  /\ UNCHANGED <<items, summary, batch, active, msg, foreignRun, ghostVars>>

FollowupRegisters(o) ==
  /\ drain[o] = "starting"
  /\ drain' = [drain EXCEPT ![o] = "running"]
  /\ active' = o
  /\ UNCHANGED <<queueVars, draining, batch, msg, foreignRun, ghostVars>>

(* The agent turn of run_followup ends (success, error or timeout); its    *)
(* reply is then delivered.                                                *)
FollowupTurnEnds(o) ==
  /\ drain[o] \in {"starting", "running"}
  /\ drain' = [drain EXCEPT ![o] = "delivering"]
  /\ Deregister(o)
  /\ UNCHANGED <<queueVars, draining, batch, msg, foreignRun, ghostVars>>

(* run_followup returns: the loop tests its condition at once.  If it ends *)
(* in CancelledError the task leaves the loop.                             *)
FollowupReturns(o, cancelled) ==
  /\ drain[o] = "delivering"
  /\ batch' = [batch EXCEPT ![o] = {}]
  /\ IF ~ cancelled /\ (items[o] # <<>> \/ summary[o] # {})
     THEN /\ drain' = [drain EXCEPT ![o] = "debounce"]
          /\ UNCHANGED <<registered, fresh, mode, draining>>
     ELSE DrainExits(o)
  /\ UNCHANGED <<items, summary, active, msg, foreignRun, ghostVars>>

(* A turn of the session that some other entry point started and that ends *)
(* without finalize_with_followup.                                         *)
ForeignTurn(f) ==
  \/ /\ foreignRun[f] = "none"
     /\ foreignRun' = [foreignRun EXCEPT ![f] = "active"]
     /\ active' = f
     /\ UNCHANGED <<queueVars, drainVars, msg, ghostVars>>
  \/ /\ foreignRun[f] = "active"
     /\ foreignRun' = [foreignRun EXCEPT ![f] = "done"]
     /\ Deregister(f)
     /\ UNCHANGED <<queueVars, drainVars, msg, ghostVars>>

-----------------------------------------------------------------------------
Receive(m) ==
  \/ RunNow(m)
  \/ Steer(m)
  \/ \E md \in Modes, policy \in Policies : Enqueue(m, md, policy)

TurnStep(m) == Register(m) \/ TurnEnds(m) \/ Finalize(m)

DrainStep(o) ==
  \/ DrainPicks(o)
  \/ FollowupRegisters(o)
  \/ FollowupTurnEnds(o)
  \/ \E cancelled \in BOOLEAN : FollowupReturns(o, cancelled)

Next ==
  \/ \E m \in Messages : Receive(m) \/ TurnStep(m)
  \/ \E o \in Objects : DrainStep(o)

(* With messages that interrupt and turns started elsewhere as well. *)
ContendedNext ==
  \/ Next
  \/ \E m \in Messages : Interrupt(m)
  \/ \E o \in Objects : DrainFindsNothing(o)
  \/ \E f \in Foreign : ForeignTurn(f)

(* Turns end (they run under a timeout) and the loop runs ready tasks.     *)
Fairness ==
  /\ \A m \in Messages : WF_vars(TurnStep(m))
  /\ \A o \in Objects : WF_vars(DrainStep(o))

Spec == Init /\ [][Next]_vars
FairSpec == Spec /\ Fairness
ContendedSpec == Init /\ [][ContendedNext]_vars

-----------------------------------------------------------------------------
TypeOK ==
  /\ registered \in Objects \cup {NoObject}
  /\ fresh \subseteq Objects
  /\ items \in [Objects -> Seq(Messages)]
  /\ summary \in [Objects -> SUBSET Messages]
  /\ mode \in [Objects -> Modes \cup {"followup"}]
  /\ draining \in [Objects -> BOOLEAN]
  /\ drain \in [Objects -> {"none", "debounce", "starting", "running",
                                 "delivering"}]
  /\ batch \in [Objects -> SUBSET Messages]
  /\ active \in Runs \cup {NoRun}
  /\ msg \in [Messages -> {"new", "starting", "active", "delivering", "done",
                           "steered", "queued", "refused"}]
  /\ foreignRun \in [Foreign -> {"none", "active", "done"}]
  /\ prompts \in [Messages -> Nat]
  /\ cleared \subseteq Messages
  /\ order \in Seq(Messages)
  /\ \A o \in Objects :
       /\ Len(items[o]) <= Cap
       /\ draining[o] <=> drain[o] # "none"

Accepted(m) == msg[m] \in {"queued", "refused"}
Holds(o, m) == m \in ToSet(items[o]) \cup summary[o]

(* No message is put to the agent twice: not by the drain and again by the *)
(* summary, and not by two drain tasks, of which there is one at a time.   *)
PromptedAtMostOnce ==
  /\ \A m \in Messages : prompts[m] <= 1
  /\ Cardinality({o \in Objects : drain[o] # "none"}) <= 1

(* A message the queue took stays with an object that the dictionary or a  *)
(* drain task still refers to, until a prompt carries it.  (queue.py:430:  *)
(* "if new items arrived while we were draining, schedule another drain    *)
(* pass so they are not silently lost".)                                   *)
NoMessageLost ==
  \A m \in Messages :
    Accepted(m) /\ prompts[m] = 0 /\ m \notin cleared =>
      \E o \in Objects : Holds(o, m) /\ (registered = o \/ drain[o] # "none")

(* Queued messages reach the agent in arrival order; a message refused by  *)
(* policy "new" is only summarised and may come earlier.                   *)
ArrivalOrder ==
  \A i, j \in 1..Len(order) :
    /\ i < j
    /\ msg[order[i]] = "queued" /\ msg[order[j]] = "queued"
    /\ prompts[order[j]] > 0
    => prompts[order[i]] > 0

(* Every message the queue took is put to the agent in the end. *)
EveryMessagePrompted ==
  \A m \in Messages : Accepted(m) ~> prompts[m] > 0
=============================================================================
