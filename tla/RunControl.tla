------------------------------ MODULE RunControl ------------------------------
(***************************************************************************)
(* How the gateway starts, reports and ends the runs of one session:       *)
(* chat.send, its /stop command and chat.abort (gateway/api/chat.py);      *)
(* agent and agent.wait (gateway/handlers.py); the cancellation of a       *)
(* session's runs by a reset (gateway/api/sessions_methods.py).            *)
(*                                                                         *)
(* A chat turn is the task the gateway keeps for it: cancelling the task   *)
(* cancels the turn.  The task of an agent request only waits for an entry *)
(* of a lane: cancelling it leaves the entry, and the turn, in the lane.   *)
(* What a turn does is in SessionTurns, what a lane does in QueueManager.  *)
(***************************************************************************)
CONSTANTS
  Requests,  \* calls of chat.send and agent
  Chat,      \* those of chat.send
  Resets,    \* agent requests whose message is /new or /reset
  Keys,      \* idempotency keys, which are the run ids
  KeyOf,     \* KeyOf[r]: the key of request r; a client may repeat one
  Aborts,    \* callers of chat.abort, each with one call at a time
  NoRun, NoKey

ASSUME RunControlAssumption ==
  /\ Chat \subseteq Requests /\ Resets \subseteq Requests \ Chat
  /\ KeyOf \in [Requests -> Keys]
  /\ NoRun \notin Requests /\ NoKey \notin Keys

VARIABLES
  turn,        \* turn[r]: where the request and its turn are; that of an agent
               \* request is "running" from its entry in the lane
  task,        \* task[r]: the asyncio task in active_runs
  callbackDue, \* tasks that are done, their done callback not run yet
  activeRuns,  \* active_runs: the request whose task is listed for a key
  dedupe,      \* keys with an answer in agent_dedupe, accepted or final
  status,      \* keys with an end in agent_run_status
  told,        \* told[k]: the chat events sent for run k: "ended" stands for
               \* final and error, "aborted" for itself
  todo,        \* todo[a]: target_run_ids chat.abort has yet to visit
  at,          \* at[a]: the one it is visiting, or NoKey
  stopped      \* ghost: chats cancelled by /stop or a reset, until their callback

runVars == <<turn, task, callbackDue>>
tableVars == <<activeRuns, dedupe, status>>
abortVars == <<todo, at>>
vars == <<runVars, tableVars, told, abortVars, stopped>>

Done(r) == task[r] = "done"
Launched(r) == turn[r] \in {"running", "unwinding", "over"}
Unfinished(r) == turn[r] \in {"running", "unwinding"}

(* Two requests of the key started a run: two of chat.send, or a reset. *)
Shared(k) ==
  \E r, s \in Requests :
    /\ r # s /\ KeyOf[r] = k /\ KeyOf[s] = k
    /\ Launched(r) /\ Launched(s)


Init ==
  /\ turn = [r \in Requests |-> "none"]
  /\ task = [r \in Requests |-> "none"]
  /\ callbackDue = {}
  /\ activeRuns = [k \in Keys |-> NoRun]
  /\ dedupe = {}
  /\ status = {}
  /\ told = [k \in Keys |-> {}]
  /\ todo = [a \in Aborts |-> {}]
  /\ at = [a \in Aborts |-> NoKey]
  /\ stopped = {}

-----------------------------------------------------------------------------
(* A new task is listed in active_runs, in place of any other of its key. *)
Launch(r) ==
  /\ turn' = [turn EXCEPT ![r] = "running"]
  /\ task' = [task EXCEPT ![r] = "pending"]
  /\ activeRuns' = [activeRuns EXCEPT ![KeyOf[r]] = r]

(* task.cancel on the tasks S: a chat turn gets the CancelledError, the    *)
(* task of an agent request gets it in its wait for the lane.              *)
Pending(S) == {r \in S : task[r] = "pending"}
TaskCancelled(S) == [r \in Requests |-> IF r \in Pending(S) THEN "cancelling" ELSE task[r]]
TurnCancelled(S) == [r \in Requests |-> IF r \in Pending(S) \cap Chat THEN "unwinding" ELSE turn[r]]

(* Fault: an abort only sets the event of the chat registry. *)
SignalOnly(S) == UNCHANGED <<turn, task>>
Cancel(S) == task' = TaskCancelled(S) /\ turn' = TurnCancelled(S)

(* The task ends; its done callback is scheduled. *)
EndTask(r) ==
  /\ task' = [task EXCEPT ![r] = "done"]
  /\ callbackDue' = callbackDue \cup {r}

Tell(k, end) == told' = [told EXCEPT ![k] = @ \cup {end}]

(* Fault: agent requests carry the metadata too. *)
ListedRuns == {r \in Requests : activeRuns[KeyOf[r]] = r}

(* The runs that carry the metadata of their session: chats only. *)
ListedChats == {r \in Chat : activeRuns[KeyOf[r]] = r}

-----------------------------------------------------------------------------
(* chat.send starts a turn for every call, also for a repeated key. *)
ChatSend(r) ==
  /\ r \in Chat /\ turn[r] = "none"
  /\ Launch(r)
  /\ UNCHANGED <<callbackDue, dedupe, status, told, abortVars, stopped>>

(* An ERROR event of the turn is broadcast as its end, and the turn goes   *)
(* on to its own.                                                          *)
ChatReportsError(r) ==
  /\ r \in Chat /\ turn[r] = "running"
  /\ Tell(KeyOf[r], "ended")
  /\ UNCHANGED <<runVars, tableVars, abortVars, stopped>>

(* The final event, or the error event of an exception.  Either way the    *)
(* task returns.                                                           *)
ChatEnds(r) ==
  /\ r \in Chat /\ turn[r] = "running"
  /\ turn' = [turn EXCEPT ![r] = "over"]
  /\ EndTask(r)
  /\ Tell(KeyOf[r], "ended")
  /\ UNCHANGED <<tableVars, abortVars, stopped>>

(* A cancelled chat turn ends; it broadcasts nothing. *)
ChatUnwound(r) ==
  /\ r \in Chat /\ turn[r] = "unwinding"
  /\ turn' = [turn EXCEPT ![r] = "over"]
  /\ EndTask(r)
  /\ UNCHANGED <<tableVars, told, abortVars, stopped>>

(* Fault: /stop removes the runs from the table itself. *)
StopAndForget ==
  /\ \E r \in ListedChats : task[r] = "pending"
  /\ Cancel(ListedChats)
  /\ activeRuns' = [k \in Keys |-> IF activeRuns[k] \in ListedChats THEN NoRun ELSE activeRuns[k]]
  /\ stopped' = stopped \cup ListedChats
  /\ UNCHANGED <<callbackDue, dedupe, status, told, abortVars>>

(* chat.send with the text /stop. *)
StopCommand ==
  /\ \E r \in ListedChats : task[r] = "pending"
  /\ Cancel(ListedChats)
  /\ stopped' = stopped \cup ListedChats
  /\ UNCHANGED <<callbackDue, tableVars, told, abortVars>>

-----------------------------------------------------------------------------
(* agent up to its first await: a known key gets the stored answer, a      *)
(* reset cancels the chats of the session and may wait for its hooks.      *)
Agent(r) ==
  /\ r \in Requests \ Chat /\ turn[r] = "none"
  /\ \/ /\ KeyOf[r] \in dedupe
        /\ turn' = [turn EXCEPT ![r] = "cached"]
        /\ UNCHANGED <<task, activeRuns, dedupe, stopped>>
     \/ /\ KeyOf[r] \notin dedupe /\ r \notin Resets
        /\ Launch(r)
        /\ dedupe' = dedupe \cup {KeyOf[r]}
        /\ UNCHANGED stopped
     \/ /\ KeyOf[r] \notin dedupe /\ r \in Resets
        /\ task' = TaskCancelled(ListedChats)
        /\ turn' = [TurnCancelled(ListedChats) EXCEPT ![r] = "resetting"]
        /\ stopped' = stopped \cup ListedChats
        /\ UNCHANGED <<activeRuns, dedupe>>
  /\ UNCHANGED <<callbackDue, status, told, abortVars>>

(* The rest of agent after the reset: the key is not looked up again. *)
LaunchAfterReset(r) ==
  /\ turn[r] = "resetting"
  /\ Launch(r)
  /\ dedupe' = dedupe \cup {KeyOf[r]}
  /\ UNCHANGED <<callbackDue, status, told, abortVars, stopped>>

(* The entry in the lane is over: refused, or by the end of                *)
(* _run_agent_turn, which keeps its exceptions to itself.                  *)
AgentTurnEnds(r) ==
  /\ r \in Requests \ Chat /\ turn[r] = "running"
  /\ turn' = [turn EXCEPT ![r] = "over"]
  /\ UNCHANGED <<task, callbackDue, tableVars, told, abortVars, stopped>>

(* The task that waits for the lane resumes, with the lane's answer or     *)
(* with the CancelledError.                                                *)
AgentTaskEnds(r) ==
  /\ r \in Requests \ Chat
  /\ \/ task[r] = "cancelling"
     \/ task[r] = "pending" /\ turn[r] = "over"
  /\ EndTask(r)
  /\ UNCHANGED <<turn, tableVars, told, abortVars, stopped>>

(* Fault: the callback keeps the table entry. *)
CleanupKeepsEntry(r) ==
  /\ r \in callbackDue
  /\ callbackDue' = callbackDue \ {r}
  /\ stopped' = stopped \ {r}
  /\ UNCHANGED <<turn, task, tableVars, told, abortVars>>

(* The done callbacks _cleanup of chat.send and _cleanup_run of agent:     *)
(* whatever task is listed for the key is removed.                         *)
Cleanup(r) ==
  LET k == KeyOf[r] IN
  /\ r \in callbackDue
  /\ callbackDue' = callbackDue \ {r}
  /\ activeRuns' = [activeRuns EXCEPT ![k] = NoRun]
  /\ IF r \in Chat
     THEN UNCHANGED <<dedupe, status>>
     ELSE dedupe' = dedupe \cup {k} /\ status' = status \cup {k}
  /\ stopped' = stopped \ {r}
  /\ UNCHANGED <<turn, task, told, abortVars>>

-----------------------------------------------------------------------------
(* agent.wait changes nothing.  It answers at once with the recorded end,  *)
(* or with "ok" for a run that is not listed, and otherwise awaits the     *)
(* task that is listed, until a timeout.                                   *)
AnswersAtOnce(k) == k \in status \/ activeRuns[k] = NoRun
WaitEnds(r) == AnswersAtOnce(KeyOf[r]) \/ Done(r)

-----------------------------------------------------------------------------
(* chat.abort takes the next of its run ids and cancels its task, for      *)
(* which it waits at most 3 s; a task that is done is not waited for.      *)
Visit(a, ids, listed) ==
  \/ /\ ids = {}
     /\ todo' = [todo EXCEPT ![a] = {}]
     /\ at' = [at EXCEPT ![a] = NoKey]
     /\ UNCHANGED <<turn, task>>
  \/ \E k \in ids :
       /\ todo' = [todo EXCEPT ![a] = ids \ {k}]
       /\ at' = [at EXCEPT ![a] = k]
       /\ Cancel({listed[k]} \ {NoRun})

(* chat.abort: the given run id when it is listed, otherwise every listed  *)
(* run of the session that carries its metadata.                           *)
AbortTargets(k) == IF activeRuns[k] # NoRun THEN {k} ELSE {KeyOf[r] : r \in ListedChats}

AbortCall(a, k) ==
  /\ at[a] = NoKey
  /\ AbortTargets(k) # {}
  /\ Visit(a, AbortTargets(k), activeRuns)
  /\ UNCHANGED <<callbackDue, tableVars, told, stopped>>

(* Fault: only a run that is still listed is reported. *)
AbortNextIfListed(a) ==
  LET k == at[a]
      listed == [activeRuns EXCEPT ![k] = NoRun] IN
  /\ k # NoKey
  /\ activeRuns' = listed
  /\ IF activeRuns[k] = NoRun THEN UNCHANGED told ELSE Tell(k, "aborted")
  /\ Visit(a, todo[a], listed)
  /\ UNCHANGED <<callbackDue, dedupe, status, stopped>>

(* The wait is over, by the end of the task or by its timeout: the id is   *)
(* removed from the table, the abort is broadcast, the next id is visited. *)
AbortNext(a) ==
  LET k == at[a]
      listed == [activeRuns EXCEPT ![k] = NoRun] IN
  /\ k # NoKey
  /\ activeRuns' = listed
  /\ Tell(k, "aborted")
  /\ Visit(a, todo[a], listed)
  /\ UNCHANGED <<callbackDue, dedupe, status, stopped>>

TaskStep(r) ==
  \/ ChatEnds(r) \/ ChatUnwound(r)
  \/ AgentTurnEnds(r) \/ AgentTaskEnds(r)

Next ==
  \/ \E r \in Requests : \/ ChatSend(r) \/ ChatReportsError(r) \/ TaskStep(r)
                         \/ Agent(r) \/ LaunchAfterReset(r) \/ Cleanup(r)
  \/ StopCommand
  \/ \E a \in Aborts : (\E k \in Keys : AbortCall(a, k)) \/ AbortNext(a)

(* Turns end (EveryTurnEnds of SessionTurns), the event loop resumes tasks *)
(* and runs callbacks, a wait for a cancelled task is over in 3 s.         *)
Fairness ==
  /\ \A r \in Requests : WF_vars(TaskStep(r)) /\ WF_vars(Cleanup(r))
  /\ \A a \in Aborts : WF_vars(AbortNext(a))

Spec == Init /\ [][Next]_vars /\ Fairness

-----------------------------------------------------------------------------
TypeOK ==
  /\ turn \in [Requests -> {"none", "cached", "resetting", "running", "unwinding", "over"}]
  /\ task \in [Requests -> {"none", "pending", "cancelling", "done"}]
  /\ callbackDue \subseteq Requests
  /\ activeRuns \in [Keys -> Requests \cup {NoRun}]
  /\ dedupe \subseteq Keys /\ status \subseteq Keys
  /\ told \in [Keys -> SUBSET {"ended", "aborted"}]
  /\ todo \in [Aborts -> SUBSET Keys] /\ at \in [Aborts -> Keys \cup {NoKey}]
  /\ stopped \subseteq Chat

(* The tables are exact.  For a key with one run, active_runs lists no run *)
(* whose callback is over, and misses no run that chat.abort was not       *)
(* called for: /stop, chat.abort and agent.wait find what they look for.   *)
(* And an agent request that ever ran is known by its key: a repeat that   *)
(* comes while it runs, or long after, starts nothing.                     *)
RunTableExact ==
  /\ \A r \in Requests : ~ Shared(KeyOf[r]) =>
      /\ activeRuns[KeyOf[r]] = r => ~ Done(r) \/ r \in callbackDue
      /\ ~ Done(r) /\ Launched(r) /\ "aborted" \notin told[KeyOf[r]] => activeRuns[KeyOf[r]] = r
  /\ \A r \in Requests \ Chat : Launched(r) => KeyOf[r] \in dedupe

(* A client that is told of an abort hears nothing more of that chat: no   *)
(* late final message or error, however long the turn takes to unwind.     *)
AbortedIsLast ==
  [][\A r \in Chat : ~ Shared(KeyOf[r]) /\ "aborted" \in told[KeyOf[r]] =>
       told'[KeyOf[r]] = told[KeyOf[r]]]_vars

(* agent.wait does not report the end of a run that still goes on, unless  *)
(* chat.abort was called for it, which ends the wait and not the turn.     *)
AbortRequested(k) == "aborted" \in told[k] \/ k \in {at[a] : a \in Aborts}
TruthfulWait ==
  \A r \in Requests :
    Unfinished(r) /\ ~ Shared(KeyOf[r]) /\ ~ AbortRequested(KeyOf[r]) => ~ WaitEnds(r)

(* Every chat turn comes to its end and its client hears of it, unless     *)
(* /stop or a reset cancelled it.                                          *)
EveryChatConcluded ==
  \A r \in Chat : Unfinished(r) ~> turn[r] = "over" /\ (r \in stopped \/ told[KeyOf[r]] # {})
===============================================================================
