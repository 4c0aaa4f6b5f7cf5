--------------------------- MODULE RunControlProofs ---------------------------
(***************************************************************************)
(* Proofs about RunControl for any number of requests, keys and callers of *)
(* chat.abort.                                                             *)
(***************************************************************************)
EXTENDS RunControl, TLAPS

TurnStates == {"none", "cached", "resetting", "running", "unwinding", "over"}
TaskStates == {"none", "pending", "cancelling", "done"}

-----------------------------------------------------------------------------
(* TypeOK is preserved by each step. *)

LEMMA CancelTypes ==
  ASSUME TypeOK, NEW S \in SUBSET Requests
  PROVE  /\ TaskCancelled(S) \in [Requests -> TaskStates]
         /\ TurnCancelled(S) \in [Requests -> TurnStates]
BY DEF TypeOK, TaskCancelled, TurnCancelled, Pending, TaskStates, TurnStates

LEMMA ListedTypes ==
  ASSUME TypeOK
  PROVE  /\ ListedChats \subseteq Chat /\ ListedChats \subseteq Requests
         /\ \A k \in Keys : AbortTargets(k) \subseteq Keys
         /\ \A r \in Requests : KeyOf[r] \in Keys
BY RunControlAssumption DEF ListedChats, AbortTargets

LEMMA LaunchType ==
  ASSUME TypeOK, NEW r \in Requests, Launch(r)
  PROVE  /\ turn' \in [Requests -> TurnStates] /\ task' \in [Requests -> TaskStates]
         /\ activeRuns' \in [Keys -> Requests \cup {NoRun}]
BY RunControlAssumption DEF TypeOK, Launch, TurnStates, TaskStates

LEMMA VisitType ==
  ASSUME TypeOK, NEW a \in Aborts, NEW ids \in SUBSET Keys,
         NEW listed \in [Keys -> Requests \cup {NoRun}], Visit(a, ids, listed)
  PROVE  /\ turn' \in [Requests -> TurnStates] /\ task' \in [Requests -> TaskStates]
         /\ todo' \in [Aborts -> SUBSET Keys] /\ at' \in [Aborts -> Keys \cup {NoKey}]
<1>1. CASE ids = {} /\ todo' = [todo EXCEPT ![a] = {}] /\ at' = [at EXCEPT ![a] = NoKey]
           /\ UNCHANGED <<turn, task>>
  BY <1>1 DEF TypeOK, TurnStates, TaskStates
<1>2. ASSUME NEW k \in ids, todo' = [todo EXCEPT ![a] = ids \ {k}], at' = [at EXCEPT ![a] = k],
             Cancel({listed[k]} \ {NoRun})
      PROVE  /\ turn' \in [Requests -> TurnStates] /\ task' \in [Requests -> TaskStates]
             /\ todo' \in [Aborts -> SUBSET Keys] /\ at' \in [Aborts -> Keys \cup {NoKey}]
  <2>1. {listed[k]} \ {NoRun} \in SUBSET Requests
    OBVIOUS
  <2> QED BY <1>2, <2>1, CancelTypes DEF Cancel, TypeOK
<1> QED BY <1>1, <1>2 DEF Visit

LEMMA TypeStep == TypeOK /\ [Next]_vars => TypeOK'
<1> SUFFICES ASSUME TypeOK, [Next]_vars PROVE TypeOK'
  OBVIOUS
<1> USE DEF TurnStates, TaskStates, runVars, tableVars, abortVars
<1>1. ASSUME NEW r \in Requests, ChatSend(r) PROVE TypeOK'
  BY <1>1, LaunchType DEF ChatSend, TypeOK
<1>2. ASSUME NEW r \in Requests, ChatReportsError(r) PROVE TypeOK'
  BY <1>2, ListedTypes DEF ChatReportsError, Tell, TypeOK
<1>3. ASSUME NEW r \in Requests, TaskStep(r) PROVE TypeOK'
  <2>1. CASE ChatEnds(r)
    BY <2>1, ListedTypes DEF ChatEnds, EndTask, Tell, TypeOK
  <2>2. CASE ChatUnwound(r) \/ AgentTurnEnds(r) \/ AgentTaskEnds(r)
    BY <2>2 DEF ChatUnwound, AgentTurnEnds, AgentTaskEnds, EndTask, TypeOK
  <2> QED BY <1>3, <2>1, <2>2 DEF TaskStep
<1>4. ASSUME NEW r \in Requests, Agent(r) PROVE TypeOK'
  <2>1. CASE turn' = [turn EXCEPT ![r] = "cached"] /\ UNCHANGED <<task, activeRuns, dedupe, stopped>>
    BY <1>4, <2>1 DEF Agent, TypeOK
  <2>2. CASE Launch(r) /\ dedupe' = dedupe \cup {KeyOf[r]} /\ UNCHANGED stopped
    BY <1>4, <2>2, LaunchType, ListedTypes DEF Agent, TypeOK
  <2>3. CASE /\ task' = TaskCancelled(ListedChats)
             /\ turn' = [TurnCancelled(ListedChats) EXCEPT ![r] = "resetting"]
             /\ stopped' = stopped \cup ListedChats
             /\ UNCHANGED <<activeRuns, dedupe>>
    BY <1>4, <2>3, CancelTypes, ListedTypes DEF Agent, TypeOK
  <2> QED BY <1>4, <2>1, <2>2, <2>3 DEF Agent
<1>5. ASSUME NEW r \in Requests, LaunchAfterReset(r) PROVE TypeOK'
  BY <1>5, LaunchType, ListedTypes DEF LaunchAfterReset, TypeOK
<1>6. ASSUME NEW r \in Requests, Cleanup(r) PROVE TypeOK'
  BY <1>6, ListedTypes, RunControlAssumption DEF Cleanup, TypeOK
<1>7. CASE StopCommand
  BY <1>7, CancelTypes, ListedTypes DEF StopCommand, Cancel, TypeOK
<1>8. ASSUME NEW a \in Aborts, NEW k \in Keys, AbortCall(a, k) PROVE TypeOK'
  <2>1. AbortTargets(k) \in SUBSET Keys /\ activeRuns \in [Keys -> Requests \cup {NoRun}]
    BY ListedTypes DEF TypeOK
  <2>2. Visit(a, AbortTargets(k), activeRuns)
    BY <1>8 DEF AbortCall
  <2>3. /\ turn' \in [Requests -> TurnStates] /\ task' \in [Requests -> TaskStates]
        /\ todo' \in [Aborts -> SUBSET Keys] /\ at' \in [Aborts -> Keys \cup {NoKey}]
    BY <2>1, <2>2, VisitType
  <2> QED BY <1>8, <2>3 DEF AbortCall, TypeOK
<1>9. ASSUME NEW a \in Aborts, AbortNext(a) PROVE TypeOK'
  <2> DEFINE listed == [activeRuns EXCEPT ![at[a]] = NoRun]
  <2>1. at[a] \in Keys /\ todo[a] \in SUBSET Keys /\ listed \in [Keys -> Requests \cup {NoRun}]
    BY <1>9 DEF AbortNext, TypeOK
  <2>2. Visit(a, todo[a], listed)
    BY <1>9 DEF AbortNext
  <2>3. /\ turn' \in [Requests -> TurnStates] /\ task' \in [Requests -> TaskStates]
        /\ todo' \in [Aborts -> SUBSET Keys] /\ at' \in [Aborts -> Keys \cup {NoKey}]
    BY <2>1, <2>2, VisitType
  <2> QED BY <1>9, <2>1, <2>3 DEF AbortNext, Tell, TypeOK
<1>10. CASE UNCHANGED vars
  BY <1>10 DEF vars, TypeOK
<1> QED BY <1>1, <1>2, <1>3, <1>4, <1>5, <1>6, <1>7, <1>8, <1>9, <1>10 DEF Next

(* The tables, the tasks and the aborts keep their types: only a chat is   *)
(* ever stopped, and only a run that has a key is ever aborted.            *)
THEOREM TypeCorrect == Spec => []TypeOK
<1>1. Init => TypeOK
  BY DEF Init, TypeOK
<1> QED BY <1>1, TypeStep, PTL DEF Spec

-----------------------------------------------------------------------------
(* Turns and tasks go together: a request has a task from its launch on,   *)
(* the task of a chat is where its turn is, callbacks are due of tasks     *)
(* that are done.                                                          *)
TaskAndTurn ==
  /\ \A r \in Requests : task[r] # "none" <=> Launched(r)
  /\ \A r \in Chat : /\ turn[r] = "running" <=> task[r] = "pending"
                     /\ turn[r] = "unwinding" <=> task[r] = "cancelling"
                     /\ turn[r] = "over" <=> task[r] = "done"
  /\ \A r \in callbackDue : Done(r)

LEMMA CancelKeepsTaskAndTurn ==
  ASSUME TypeOK, TaskAndTurn, NEW S \in SUBSET Requests, Cancel(S), UNCHANGED callbackDue
  PROVE  /\ TaskAndTurn'
         /\ \A r \in Requests : /\ Launched(r)' <=> Launched(r)
                                /\ Done(r)' <=> Done(r)
                                /\ turn'[r] = "running" => turn[r] = "running"
                                /\ r \in S \cap Chat => turn'[r] # "running"
                                /\ r \notin S => turn'[r] = turn[r] /\ task'[r] = task[r]
<1>1. /\ task' = [r \in Requests |-> IF r \in S /\ task[r] = "pending" THEN "cancelling" ELSE task[r]]
      /\ turn' = [r \in Requests |-> IF r \in S /\ task[r] = "pending" /\ r \in Chat
                                     THEN "unwinding" ELSE turn[r]]
  BY DEF Cancel, TaskCancelled, TurnCancelled, Pending
<1>2. \A r \in Requests : task[r] = "pending" => Launched(r)
  BY DEF TaskAndTurn
<1>3. \A r \in Requests : /\ Launched(r)' <=> Launched(r)
                          /\ Done(r)' <=> Done(r)
                          /\ task'[r] = "none" <=> task[r] = "none"
  BY <1>1, <1>2 DEF Launched, Done
<1>4. \A r \in Chat : /\ turn'[r] = "running" <=> task'[r] = "pending"
                      /\ turn'[r] = "unwinding" <=> task'[r] = "cancelling"
                      /\ turn'[r] = "over" <=> task'[r] = "done"
  BY <1>1, RunControlAssumption DEF TaskAndTurn
<1>5. callbackDue \subseteq Requests
  BY DEF TypeOK
<1>6. TaskAndTurn'
  BY <1>3, <1>4, <1>5 DEF TaskAndTurn
<1>7. \A r \in Requests : /\ turn'[r] = "running" => turn[r] = "running"
                          /\ r \in S \cap Chat => turn'[r] # "running"
                          /\ r \notin S => turn'[r] = turn[r] /\ task'[r] = task[r]
  BY <1>1 DEF TaskAndTurn
<1> QED BY <1>3, <1>6, <1>7

(* A visit of chat.abort cancels one listed run or none. *)
LEMMA VisitCancels ==
  ASSUME TypeOK, NEW a \in Aborts, NEW ids \in SUBSET Keys,
         NEW listed \in [Keys -> Requests \cup {NoRun}], Visit(a, ids, listed)
  PROVE  \E S \in SUBSET Requests :
            /\ Cancel(S)
            /\ \/ S = {} /\ at'[a] = NoKey /\ todo'[a] = {}
               \/ at'[a] \in ids /\ todo'[a] = ids \ {at'[a]} /\ S = {listed[at'[a]]} \ {NoRun}
            /\ \A b \in Aborts : b # a => at'[b] = at[b] /\ todo'[b] = todo[b]
<1>1. CASE ids = {} /\ todo' = [todo EXCEPT ![a] = {}] /\ at' = [at EXCEPT ![a] = NoKey]
           /\ UNCHANGED <<turn, task>>
  <2>1. Cancel({})
    BY <1>1 DEF Cancel, TaskCancelled, TurnCancelled, Pending, TypeOK
  <2>2. at'[a] = NoKey /\ todo'[a] = {} /\ \A b \in Aborts : b # a => at'[b] = at[b] /\ todo'[b] = todo[b]
    BY <1>1 DEF TypeOK
  <2> QED BY <2>1, <2>2
<1>2. ASSUME NEW k \in ids, todo' = [todo EXCEPT ![a] = ids \ {k}], at' = [at EXCEPT ![a] = k],
             Cancel({listed[k]} \ {NoRun})
      PROVE  \E S \in SUBSET Requests :
               /\ Cancel(S)
               /\ at'[a] \in ids /\ todo'[a] = ids \ {at'[a]} /\ S = {listed[at'[a]]} \ {NoRun}
               /\ \A b \in Aborts : b # a => at'[b] = at[b] /\ todo'[b] = todo[b]
  <2>1. /\ at'[a] = k /\ todo'[a] = ids \ {k}
        /\ \A b \in Aborts : b # a => at'[b] = at[b] /\ todo'[b] = todo[b]
    BY <1>2 DEF TypeOK
  <2>2. {listed[k]} \ {NoRun} \in SUBSET Requests
    OBVIOUS
  <2> QED BY <1>2, <2>1, <2>2
<1> QED BY <1>1, <1>2 DEF Visit

(* What chat.abort does to the runs, in either of its steps. *)
LEMMA AbortCancels ==
  ASSUME TypeOK, NEW a \in Aborts, AbortNext(a) \/ \E k \in Keys : AbortCall(a, k)
  PROVE  \E S \in SUBSET Requests : Cancel(S) /\ UNCHANGED callbackDue
<1>1. CASE AbortNext(a)
  <2>1. at[a] \in Keys /\ todo[a] \in SUBSET Keys
        /\ [activeRuns EXCEPT ![at[a]] = NoRun] \in [Keys -> Requests \cup {NoRun}]
    BY <1>1 DEF AbortNext, TypeOK
  <2> QED BY <1>1, <2>1, VisitCancels DEF AbortNext
<1>2. ASSUME NEW k \in Keys, AbortCall(a, k)
      PROVE  \E S \in SUBSET Requests : Cancel(S) /\ UNCHANGED callbackDue
  <2>1. AbortTargets(k) \in SUBSET Keys /\ activeRuns \in [Keys -> Requests \cup {NoRun}]
    BY ListedTypes DEF TypeOK
  <2> QED BY <1>2, <2>1, VisitCancels DEF AbortCall
<1> QED BY <1>1, <1>2

LEMMA LaunchFacts ==
  ASSUME TypeOK, TaskAndTurn, NEW r \in Requests, Launch(r), ~ Launched(r), UNCHANGED callbackDue
  PROVE  /\ TaskAndTurn'
         /\ Launched(r)' /\ ~ Done(r)' /\ activeRuns'[KeyOf[r]] = r
         /\ \A q \in Requests : q # r => /\ Launched(q)' <=> Launched(q)
                                         /\ Done(q)' <=> Done(q)
         /\ \A k \in Keys : k # KeyOf[r] => activeRuns'[k] = activeRuns[k]
<1>1. /\ turn'[r] = "running" /\ task'[r] = "pending"
      /\ \A q \in Requests : q # r => turn'[q] = turn[q] /\ task'[q] = task[q]
  BY DEF Launch, TypeOK
<1>2. activeRuns'[KeyOf[r]] = r /\ \A k \in Keys : k # KeyOf[r] => activeRuns'[k] = activeRuns[k]
  BY ListedTypes DEF Launch, TypeOK
<1>3. /\ Launched(r)' /\ ~ Done(r)'
      /\ \A q \in Requests : q # r => (Launched(q)' <=> Launched(q)) /\ (Done(q)' <=> Done(q))
  BY <1>1 DEF Launched, Done
<1>4. r \notin callbackDue
  BY DEF TaskAndTurn, Done
<1>5. \A q \in Requests : task'[q] # "none" <=> Launched(q)'
  BY <1>1, <1>3 DEF TaskAndTurn
<1>6. \A q \in Chat : /\ turn'[q] = "running" <=> task'[q] = "pending"
                      /\ turn'[q] = "unwinding" <=> task'[q] = "cancelling"
                      /\ turn'[q] = "over" <=> task'[q] = "done"
  BY <1>1, RunControlAssumption DEF TaskAndTurn
<1>7. \A q \in callbackDue' : Done(q)'
  BY <1>3, <1>4 DEF TaskAndTurn, TypeOK
<1> QED BY <1>2, <1>3, <1>5, <1>6, <1>7 DEF TaskAndTurn

(* What a step does to the runs: it launches one, moves one, takes a       *)
(* callback or cancels some.                                               *)
Steady == \A q \in Requests : (Launched(q)' <=> Launched(q)) /\ (Done(q)' <=> Done(q))

LEMMA TaskStepFacts ==
  ASSUME TypeOK, TaskAndTurn, NEW r \in Requests, TaskStep(r)
  PROVE  /\ TaskAndTurn'
         /\ \A q \in Requests : Launched(q)' <=> Launched(q)
         /\ \A q \in Requests : q # r => (Done(q)' <=> Done(q))
         /\ \/ UNCHANGED <<task, callbackDue>>
            \/ Done(r)' /\ callbackDue' = callbackDue \cup {r}
         /\ UNCHANGED tableVars
         /\ \A k \in Keys : told[k] \subseteq told'[k]
<1>1. /\ turn'[r] # turn[r] => turn[r] \in {"running", "unwinding"} /\ turn'[r] = "over"
      /\ r \in Chat => turn'[r] = "over" /\ task'[r] = "done"
      /\ task'[r] # task[r] => task[r] \in {"pending", "cancelling"} /\ task'[r] = "done"
      /\ \A q \in Requests : q # r => turn'[q] = turn[q] /\ task'[q] = task[q]
  BY DEF TaskStep, ChatEnds, ChatUnwound, AgentTurnEnds, AgentTaskEnds, EndTask, TypeOK, TaskAndTurn
<1>2. \/ UNCHANGED <<task, callbackDue>>
      \/ task'[r] = "done" /\ callbackDue' = callbackDue \cup {r}
  BY DEF TaskStep, ChatEnds, ChatUnwound, AgentTurnEnds, AgentTaskEnds, EndTask, TypeOK
<1>3. UNCHANGED tableVars /\ \A k \in Keys : told[k] \subseteq told'[k]
  BY DEF TaskStep, ChatEnds, ChatUnwound, AgentTurnEnds, AgentTaskEnds, EndTask, Tell, TypeOK, tableVars
<1>4. \A q \in Requests : /\ Launched(q)' <=> Launched(q)
                          /\ q # r => (Done(q)' <=> Done(q))
                          /\ task'[q] = "none" <=> task[q] = "none"
  BY <1>1 DEF Launched, Done
<1>5. \A q \in Chat : /\ turn'[q] = "running" <=> task'[q] = "pending"
                      /\ turn'[q] = "unwinding" <=> task'[q] = "cancelling"
                      /\ turn'[q] = "over" <=> task'[q] = "done"
  BY <1>1, RunControlAssumption DEF TaskAndTurn
<1>6. \A q \in callbackDue' : Done(q)'
  BY <1>2, <1>4 DEF TaskAndTurn, Done, TypeOK
<1>7. TaskAndTurn'
  BY <1>4, <1>5, <1>6 DEF TaskAndTurn
<1> QED BY <1>2, <1>3, <1>4, <1>7 DEF Done

LEMMA ResetFacts ==
  ASSUME TypeOK, TaskAndTurn, NEW r \in Requests \ Chat, turn[r] = "none",
         task' = TaskCancelled(ListedChats),
         turn' = [TurnCancelled(ListedChats) EXCEPT ![r] = "resetting"], UNCHANGED callbackDue
  PROVE  TaskAndTurn' /\ Steady
<1>1. /\ task' = [q \in Requests |-> IF q \in ListedChats /\ task[q] = "pending"
                                     THEN "cancelling" ELSE task[q]]
      /\ \A q \in Requests : q # r => turn'[q] = IF q \in ListedChats /\ task[q] = "pending"
                                                 THEN "unwinding" ELSE turn[q]
      /\ turn'[r] = "resetting"
  BY ListedTypes DEF TaskCancelled, TurnCancelled, Pending
<1>2. ~ Launched(r) /\ task[r] = "none" /\ \A q \in Requests : task[q] = "pending" => Launched(q)
  BY DEF TaskAndTurn, Launched
<1>3. \A q \in Requests : /\ Launched(q)' <=> Launched(q)
                          /\ Done(q)' <=> Done(q)
                          /\ task'[q] = "none" <=> task[q] = "none"
  BY <1>1, <1>2 DEF Launched, Done
<1>4. \A q \in Chat : /\ turn'[q] = "running" <=> task'[q] = "pending"
                      /\ turn'[q] = "unwinding" <=> task'[q] = "cancelling"
                      /\ turn'[q] = "over" <=> task'[q] = "done"
  BY <1>1, RunControlAssumption DEF TaskAndTurn
<1>5. TaskAndTurn'
  BY <1>3, <1>4 DEF TaskAndTurn, TypeOK
<1> QED BY <1>3, <1>5 DEF Steady

LEMMA CleanupFacts ==
  ASSUME TypeOK, TaskAndTurn, NEW r \in Requests, Cleanup(r)
  PROVE  /\ TaskAndTurn' /\ Steady /\ Done(r)
         /\ callbackDue' = callbackDue \ {r} /\ told' = told /\ dedupe \subseteq dedupe'
         /\ \A k \in Keys : activeRuns'[k] = IF k = KeyOf[r] THEN NoRun ELSE activeRuns[k]
  BY DEF Cleanup, TypeOK, TaskAndTurn, Steady, Done, Launched

-----------------------------------------------------------------------------
(* The inductive invariant of the tables. *)
Tables == TypeOK /\ TaskAndTurn /\ RunTableExact

(* RunTableExact for the run r. *)
Exact(r) ==
  /\ ~ Shared(KeyOf[r]) =>
      /\ activeRuns[KeyOf[r]] = r => ~ Done(r) \/ r \in callbackDue
      /\ ~ Done(r) /\ Launched(r) /\ "aborted" \notin told[KeyOf[r]] => activeRuns[KeyOf[r]] = r
  /\ r \notin Chat /\ Launched(r) => KeyOf[r] \in dedupe

LEMMA ExactIsRunTable == RunTableExact <=> \A r \in Requests : Exact(r)
BY DEF RunTableExact, Exact

(* A step that launches nothing leaves the keys with several runs as they are. *)
LEMMA SharedStays ==
  ASSUME NEW k \in Keys, \A q \in Requests : Launched(q)' <=> Launched(q)
  PROVE  Shared(k)' <=> Shared(k)
BY DEF Shared

(* A step that neither launches nor lists a run keeps the tables exact.    *)
LEMMA FrameKeepsTables ==
  ASSUME TypeOK, RunTableExact, Steady, UNCHANGED callbackDue, dedupe \subseteq dedupe',
         \A k \in Keys : told[k] \subseteq told'[k],
         \A k \in Keys : \/ activeRuns'[k] = activeRuns[k]
                         \/ activeRuns'[k] = NoRun /\ "aborted" \in told'[k]
  PROVE  RunTableExact'
<1>1. ASSUME NEW r \in Requests PROVE Exact(r)'
  <2>1. /\ Exact(r) /\ KeyOf[r] \in Keys /\ NoRun # r
        /\ Shared(KeyOf[r])' <=> Shared(KeyOf[r])
        /\ Launched(r)' <=> Launched(r)
        /\ Done(r)' <=> Done(r)
    BY SharedStays, ExactIsRunTable, ListedTypes, RunControlAssumption DEF Steady
  <2> QED BY <2>1 DEF Exact
<1> QED BY <1>1, ExactIsRunTable DEF RunTableExact, Exact

LEMMA LaunchKeepsTables ==
  ASSUME TypeOK, TaskAndTurn, RunTableExact, NEW r \in Requests, Launch(r), ~ Launched(r),
         UNCHANGED <<callbackDue, told>>, dedupe \subseteq dedupe', r \notin Chat => KeyOf[r] \in dedupe'
  PROVE  TaskAndTurn' /\ RunTableExact'
<1>1. /\ TaskAndTurn'
      /\ Launched(r)' /\ ~ Done(r)' /\ activeRuns'[KeyOf[r]] = r
      /\ \A q \in Requests : q # r => (Launched(q)' <=> Launched(q)) /\ (Done(q)' <=> Done(q))
      /\ \A k \in Keys : k # KeyOf[r] => activeRuns'[k] = activeRuns[k]
  BY LaunchFacts
<1>2. ASSUME NEW q \in Requests, q # r PROVE Exact(q)'
  <2>1. Exact(q) /\ KeyOf[q] \in Keys
    BY ExactIsRunTable, ListedTypes
  <2>2. Shared(KeyOf[q]) => Shared(KeyOf[q])'
    BY <1>1 DEF Shared
  <2>3. KeyOf[q] = KeyOf[r] /\ Launched(q)' => Shared(KeyOf[q])'
    BY <1>1, <1>2 DEF Shared
  <2>4. (Launched(q)' <=> Launched(q)) /\ (Done(q)' <=> Done(q))
    BY <1>1, <1>2
  <2>5. KeyOf[q] = KeyOf[r] => activeRuns'[KeyOf[q]] # q
    BY <1>1, <1>2
  <2> QED BY <1>1, <2>1, <2>2, <2>3, <2>4, <2>5 DEF Exact
<1>3. Exact(r)'
  BY <1>1 DEF Exact
<1> QED BY <1>1, <1>2, <1>3, ExactIsRunTable DEF RunTableExact, Exact

LEMMA TaskStepKeepsTables ==
  ASSUME Tables, NEW r \in Requests, TaskStep(r)
  PROVE  TaskAndTurn' /\ RunTableExact'
<1>1. /\ TaskAndTurn'
      /\ \A q \in Requests : Launched(q)' <=> Launched(q)
      /\ \A q \in Requests : q # r => (Done(q)' <=> Done(q))
      /\ \/ UNCHANGED <<task, callbackDue>>
         \/ Done(r)' /\ callbackDue' = callbackDue \cup {r}
      /\ activeRuns' = activeRuns /\ dedupe' = dedupe
      /\ \A k \in Keys : told[k] \subseteq told'[k]
  BY TaskStepFacts DEF Tables, tableVars
<1>2. ASSUME NEW q \in Requests PROVE Exact(q)'
  <2>1. Exact(q) /\ KeyOf[q] \in Keys /\ (Shared(KeyOf[q])' <=> Shared(KeyOf[q]))
    BY <1>1, SharedStays, ExactIsRunTable, ListedTypes DEF Tables
  <2>2. Done(q)' => Done(q) \/ q \in callbackDue'
    BY <1>1 DEF Done
  <2>3. Done(q) => Done(q)'
    BY <1>1 DEF Done
  <2>4. callbackDue \subseteq callbackDue'
    BY <1>1
  <2> QED BY <1>1, <2>1, <2>2, <2>3, <2>4 DEF Exact
<1> QED BY <1>1, <1>2, ExactIsRunTable DEF RunTableExact, Exact

LEMMA CleanupKeepsTables ==
  ASSUME Tables, NEW r \in Requests, Cleanup(r)
  PROVE  TaskAndTurn' /\ RunTableExact'
<1>1. /\ TaskAndTurn' /\ Steady /\ Done(r)
      /\ callbackDue' = callbackDue \ {r} /\ told' = told /\ dedupe \subseteq dedupe'
      /\ \A k \in Keys : activeRuns'[k] = IF k = KeyOf[r] THEN NoRun ELSE activeRuns[k]
  BY CleanupFacts DEF Tables
<1>2. ASSUME NEW q \in Requests PROVE Exact(q)'
  <2>1. Exact(q) /\ KeyOf[q] \in Keys /\ NoRun # q /\ (Shared(KeyOf[q])' <=> Shared(KeyOf[q]))
        /\ (Launched(q)' <=> Launched(q)) /\ (Done(q)' <=> Done(q))
    BY <1>1, SharedStays, ExactIsRunTable, ListedTypes, RunControlAssumption DEF Tables, Steady
  <2>2. Launched(r)
    BY <1>1 DEF Tables, TaskAndTurn, Done
  <2>3. q # r /\ KeyOf[q] = KeyOf[r] /\ Launched(q) => Shared(KeyOf[q])
    BY <2>2 DEF Shared
  <2> QED BY <1>1, <2>1, <2>3 DEF Exact
<1> QED BY <1>1, <1>2, ExactIsRunTable DEF RunTableExact, Exact

LEMMA AbortNextKeepsTables ==
  ASSUME Tables, NEW a \in Aborts, AbortNext(a)
  PROVE  TaskAndTurn' /\ RunTableExact'
<1>1. PICK S \in SUBSET Requests : Cancel(S) /\ UNCHANGED callbackDue
  BY AbortCancels DEF Tables
<1>2. TaskAndTurn' /\ Steady
  BY <1>1, CancelKeepsTaskAndTurn DEF Tables, Steady
<1>3. /\ \A k \in Keys : told[k] \subseteq told'[k]
      /\ \A k \in Keys : \/ activeRuns'[k] = activeRuns[k]
                         \/ activeRuns'[k] = NoRun /\ "aborted" \in told'[k]
  BY DEF AbortNext, Tell, Tables, TypeOK
<1>4. dedupe' = dedupe
  BY DEF AbortNext
<1> QED BY <1>1, <1>2, <1>3, <1>4, FrameKeepsTables DEF Tables

LEMMA CancelKeepsTables ==
  ASSUME Tables, NEW S \in SUBSET Requests, Cancel(S),
         UNCHANGED <<callbackDue, activeRuns, dedupe, told>>
  PROVE  TaskAndTurn' /\ RunTableExact'
<1>1. TaskAndTurn' /\ Steady
  BY CancelKeepsTaskAndTurn DEF Tables, Steady
<1> QED BY <1>1, FrameKeepsTables DEF Tables

LEMMA TablesStep == Tables /\ [Next]_vars => Tables'
<1> SUFFICES ASSUME Tables, [Next]_vars PROVE TaskAndTurn' /\ RunTableExact'
  BY TypeStep DEF Tables
<1> USE DEF runVars, tableVars
<1>1. ASSUME NEW r \in Requests, ChatSend(r) PROVE TaskAndTurn' /\ RunTableExact'
  <2>1. ~ Launched(r)
    BY <1>1 DEF ChatSend, Launched
  <2> QED BY <1>1, <2>1, LaunchKeepsTables DEF ChatSend, Tables
<1>2. ASSUME NEW r \in Requests, ChatReportsError(r) PROVE TaskAndTurn' /\ RunTableExact'
  <2>1. Steady
    BY <1>2 DEF ChatReportsError, Steady, Launched, Done
  <2>2. \A k \in Keys : told[k] \subseteq told'[k]
    BY <1>2 DEF ChatReportsError, Tell, Tables, TypeOK
  <2>3. TaskAndTurn'
    BY <1>2 DEF ChatReportsError, Tables, TaskAndTurn, Done, Launched
  <2> QED BY <1>2, <2>1, <2>2, <2>3, FrameKeepsTables DEF ChatReportsError, Tables
<1>3. ASSUME NEW r \in Requests, TaskStep(r) PROVE TaskAndTurn' /\ RunTableExact'
  BY <1>3, TaskStepKeepsTables
<1>4. ASSUME NEW r \in Requests, Agent(r) PROVE TaskAndTurn' /\ RunTableExact'
  <2>1. r \in Requests \ Chat /\ turn[r] = "none" /\ ~ Launched(r)
        /\ UNCHANGED <<callbackDue, told>>
    BY <1>4 DEF Agent, Launched
  <2>2. CASE turn' = [turn EXCEPT ![r] = "cached"] /\ UNCHANGED <<task, activeRuns, dedupe, stopped>>
    <3>1. \A q \in Requests : (Launched(q)' <=> Launched(q)) /\ (q # r => turn'[q] = turn[q])
      BY <2>1, <2>2 DEF Launched, Tables, TypeOK
    <3>2. Steady
      BY <2>2, <3>1 DEF Steady, Done
    <3>3. TaskAndTurn'
      BY <2>1, <2>2, <3>1 DEF Tables, TypeOK, TaskAndTurn, Done
    <3> QED BY <2>1, <2>2, <3>2, <3>3, FrameKeepsTables DEF Tables
  <2>3. CASE Launch(r) /\ dedupe' = dedupe \cup {KeyOf[r]} /\ UNCHANGED stopped
    BY <2>1, <2>3, LaunchKeepsTables DEF Tables
  <2>4. CASE /\ task' = TaskCancelled(ListedChats)
             /\ turn' = [TurnCancelled(ListedChats) EXCEPT ![r] = "resetting"]
             /\ stopped' = stopped \cup ListedChats
             /\ UNCHANGED <<activeRuns, dedupe>>
    <3>1. TaskAndTurn' /\ Steady
      BY <2>1, <2>4, ResetFacts DEF Tables
    <3> QED BY <2>1, <2>4, <3>1, FrameKeepsTables DEF Tables
  <2> QED BY <1>4, <2>2, <2>3, <2>4 DEF Agent
<1>5. ASSUME NEW r \in Requests, LaunchAfterReset(r) PROVE TaskAndTurn' /\ RunTableExact'
  <2>1. ~ Launched(r)
    BY <1>5 DEF LaunchAfterReset, Launched
  <2> QED BY <1>5, <2>1, LaunchKeepsTables DEF LaunchAfterReset, Tables
<1>6. ASSUME NEW r \in Requests, Cleanup(r) PROVE TaskAndTurn' /\ RunTableExact'
  BY <1>6, CleanupKeepsTables
<1>7. CASE StopCommand
  BY <1>7, CancelKeepsTables, ListedTypes DEF StopCommand, Tables
<1>8. ASSUME NEW a \in Aborts, NEW k \in Keys, AbortCall(a, k) PROVE TaskAndTurn' /\ RunTableExact'
  <2>1. PICK S \in SUBSET Requests : Cancel(S) /\ UNCHANGED callbackDue
    BY <1>8, AbortCancels DEF Tables
  <2> QED BY <1>8, <2>1, CancelKeepsTables DEF AbortCall
<1>9. ASSUME NEW a \in Aborts, AbortNext(a) PROVE TaskAndTurn' /\ RunTableExact'
  BY <1>9, AbortNextKeepsTables
<1>10. CASE UNCHANGED vars
  BY <1>10 DEF vars, Tables, TaskAndTurn, RunTableExact, Shared, Done, Launched
<1> QED BY <1>1, <1>2, <1>3, <1>4, <1>5, <1>6, <1>7, <1>8, <1>9, <1>10 DEF Next

(* active_runs lists what it should, and a key that ever ran is known:     *)
(* for any requests, resets and aborts, and whatever keys clients repeat.  *)
THEOREM RunTableExactCorrect == Spec => []RunTableExact
<1>1. Init => Tables
  BY RunControlAssumption DEF Init, Tables, TypeOK, TaskAndTurn, RunTableExact, Launched, Done
<1>2. Tables => RunTableExact
  BY DEF Tables
<1> QED BY <1>1, <1>2, TablesStep, PTL DEF Spec

-----------------------------------------------------------------------------
(* What aborts and waits need besides the tables.  A listed run has the    *)
(* key it is listed for; an abort has a run to abort; from the moment it   *)
(* visits a chat the chat is cancelled; the task of an agent request ends  *)
(* before its turn only if an abort was requested; a recorded end is one.  *)
Listed ==
  \A k \in Keys : activeRuns[k] # NoRun => KeyOf[activeRuns[k]] = k /\ Launched(activeRuns[k])

Targeted ==
  \A k \in Keys : AbortRequested(k) \/ (\E a \in Aborts : k \in todo[a]) =>
    \E r \in Requests : KeyOf[r] = k /\ Launched(r)

ChatsCancelled ==
  \A r \in Chat : AbortRequested(KeyOf[r]) /\ ~ Shared(KeyOf[r]) => turn[r] # "running"

TasksLast ==
  \A r \in Requests \ Chat : turn[r] = "running" /\ task[r] # "pending" =>
    Shared(KeyOf[r]) \/ AbortRequested(KeyOf[r])

EndsRecorded ==
  \A k \in status : \E r \in Requests \ Chat : KeyOf[r] = k /\ Done(r)

Aborting == Listed /\ Targeted /\ ChatsCancelled /\ TasksLast /\ EndsRecorded
Control == Tables /\ Aborting

(* A step that launches nothing and takes no part in an abort. *)
LEMMA FrameKeepsAborting ==
  ASSUME Control, TaskAndTurn',
         \A r \in Requests : /\ Launched(r)' <=> Launched(r)
                             /\ Done(r) => Done(r)'
                             /\ turn'[r] = "running" => turn[r] = "running"
                             /\ r \notin Chat /\ turn'[r] = "running" => task'[r] = task[r]
                                                                        \/ task[r] # "pending",
         \A k \in Keys : /\ activeRuns'[k] \in {activeRuns[k], NoRun}
                         /\ "aborted" \in told'[k] <=> "aborted" \in told[k],
         UNCHANGED abortVars,
         \A k \in status' \ status : \E r \in Requests \ Chat : KeyOf[r] = k /\ Done(r)'
  PROVE  Aborting'
<1> USE ListedTypes, RunControlAssumption DEF Control, Tables, Aborting
<1>1. \A k \in Keys : (Shared(k)' <=> Shared(k)) /\ (AbortRequested(k)' <=> AbortRequested(k))
  BY SharedStays DEF AbortRequested, abortVars
<1>2. Listed'
  BY DEF Listed, TypeOK
<1>3. Targeted'
  BY <1>1 DEF Targeted, abortVars
<1>4. ChatsCancelled'
  BY <1>1 DEF ChatsCancelled
<1>5. TasksLast'
  BY <1>1 DEF TasksLast
<1>6. EndsRecorded'
  BY DEF EndsRecorded
<1> QED BY <1>2, <1>3, <1>4, <1>5, <1>6

(* A launch for a key that an abort is about makes a second run of the key. *)
LEMMA LaunchKeepsAborting ==
  ASSUME Control, NEW r \in Requests, Launch(r), ~ Launched(r),
         UNCHANGED <<callbackDue, told, abortVars, status>>
  PROVE  Aborting'
<1> USE ListedTypes, RunControlAssumption DEF Control, Tables, Aborting
<1>1. /\ Launched(r)' /\ ~ Done(r)' /\ activeRuns'[KeyOf[r]] = r
      /\ \A q \in Requests : q # r => (Launched(q)' <=> Launched(q)) /\ (Done(q)' <=> Done(q))
      /\ \A k \in Keys : k # KeyOf[r] => activeRuns'[k] = activeRuns[k]
  BY LaunchFacts
<1>2. /\ turn'[r] = "running" /\ task'[r] = "pending"
      /\ \A q \in Requests : q # r => turn'[q] = turn[q] /\ task'[q] = task[q]
  BY DEF Launch, TypeOK
<1>3. \A k \in Keys : AbortRequested(k)' <=> AbortRequested(k)
  BY DEF AbortRequested, abortVars
<1>4. \A k \in Keys : Shared(k) => Shared(k)'
  BY <1>1 DEF Shared
<1>5. AbortRequested(KeyOf[r]) => Shared(KeyOf[r])'
  <2>1. SUFFICES ASSUME AbortRequested(KeyOf[r]) PROVE Shared(KeyOf[r])'
    OBVIOUS
  <2>2. PICK q \in Requests : KeyOf[q] = KeyOf[r] /\ Launched(q)
    BY <2>1 DEF Targeted
  <2> QED BY <1>1, <2>2 DEF Shared
<1>6. Listed'
  BY <1>1 DEF Listed, TypeOK
<1>7. Targeted'
  BY <1>1, <1>3 DEF Targeted, abortVars
<1>8. ChatsCancelled'
  BY <1>2, <1>3, <1>4, <1>5 DEF ChatsCancelled
<1>9. TasksLast'
  BY <1>2, <1>3, <1>4 DEF TasksLast
<1>10. EndsRecorded'
  <2>1. ~ Done(r)
    BY DEF TaskAndTurn, Done
  <2> QED BY <1>1, <2>1 DEF EndsRecorded
<1> QED BY <1>6, <1>7, <1>8, <1>9, <1>10

(* A visit cancels the run that is listed for the id.  A chat with that id *)
(* that runs is the one listed, unless an abort was there before.          *)
LEMMA VisitKeepsAborting ==
  ASSUME Control, NEW a \in Aborts, NEW ids \in SUBSET Keys,
         NEW listed \in [Keys -> Requests \cup {NoRun}], Visit(a, ids, listed),
         \A k \in Keys : listed[k] = activeRuns[k] \/ (listed[k] = NoRun /\ AbortRequested(k)),
         \A k \in ids : \E r \in Requests : KeyOf[r] = k /\ Launched(r),
         \A k \in Keys : activeRuns'[k] \in {activeRuns[k], NoRun},
         \A k \in Keys : "aborted" \in told'[k] <=> "aborted" \in told[k] \/ k = at[a],
         UNCHANGED <<callbackDue, status>>
  PROVE  Aborting'
<1> USE ListedTypes, RunControlAssumption DEF Control, Tables, Aborting
<1>1. PICK S \in SUBSET Requests :
         /\ Cancel(S)
         /\ \/ S = {} /\ at'[a] = NoKey /\ todo'[a] = {}
            \/ at'[a] \in ids /\ todo'[a] = ids \ {at'[a]} /\ S = {listed[at'[a]]} \ {NoRun}
         /\ \A b \in Aborts : b # a => at'[b] = at[b] /\ todo'[b] = todo[b]
  BY VisitCancels
<1>2. \A r \in Requests : /\ Launched(r)' <=> Launched(r)
                          /\ Done(r)' <=> Done(r)
                          /\ turn'[r] = "running" => turn[r] = "running"
                          /\ r \in S \cap Chat => turn'[r] # "running"
                          /\ r \notin S => turn'[r] = turn[r] /\ task'[r] = task[r]
  BY <1>1, CancelKeepsTaskAndTurn
<1>3. \A k \in Keys : AbortRequested(k)' <=> AbortRequested(k) \/ k = at'[a]
  BY <1>1 DEF AbortRequested
<1>4. \A k \in Keys : Shared(k)' <=> Shared(k)
  BY <1>2, SharedStays
<1>5. Listed'
  BY <1>2 DEF Listed, TypeOK
<1>6. Targeted'
  BY <1>1, <1>2, <1>3 DEF Targeted
<1>7. ChatsCancelled'
  <2> SUFFICES ASSUME NEW r \in Chat, AbortRequested(KeyOf[r])', ~ Shared(KeyOf[r]),
                      turn'[r] = "running"
               PROVE  FALSE
    BY <1>4 DEF ChatsCancelled
  <2>1. turn[r] = "running" /\ ~ AbortRequested(KeyOf[r]) /\ KeyOf[r] = at'[a]
    BY <1>2, <1>3 DEF ChatsCancelled
  <2>2. Launched(r) /\ ~ Done(r) /\ "aborted" \notin told[KeyOf[r]]
    BY <2>1 DEF Launched, Done, TaskAndTurn, AbortRequested
  <2>3. activeRuns[KeyOf[r]] = r
    BY <2>2 DEF RunTableExact
  <2>4. at'[a] # NoKey /\ S = {r}
    BY <1>1, <2>1, <2>3
  <2> QED BY <1>2, <2>4
<1>8. TasksLast'
  <2> SUFFICES ASSUME NEW r \in Requests \ Chat, turn'[r] = "running", task'[r] # "pending"
               PROVE  Shared(KeyOf[r])' \/ AbortRequested(KeyOf[r])'
    BY DEF TasksLast
  <2>1. CASE r \in S
    <3>1. listed[at'[a]] = r /\ at'[a] \in Keys
      BY <1>1, <2>1
    <3>2. KeyOf[r] = at'[a]
      BY <3>1 DEF Listed
    <3> QED BY <1>3, <3>2
  <2>2. CASE r \notin S
    BY <1>2, <1>3, <1>4, <2>2 DEF TasksLast
  <2> QED BY <2>1, <2>2
<1>9. EndsRecorded'
  BY <1>2 DEF EndsRecorded
<1> QED BY <1>5, <1>6, <1>7, <1>8, <1>9

LEMMA AbortCallKeepsAborting ==
  ASSUME Control, NEW a \in Aborts, NEW k \in Keys, AbortCall(a, k)
  PROVE  Aborting'
<1>1. AbortTargets(k) \in SUBSET Keys /\ activeRuns \in [Keys -> Requests \cup {NoRun}]
  BY ListedTypes DEF Control, Tables, TypeOK
<1>2. \A j \in AbortTargets(k) : \E r \in Requests : KeyOf[r] = j /\ Launched(r)
  BY ListedTypes, RunControlAssumption DEF AbortTargets, ListedChats, Control, Tables, TypeOK, Aborting, Listed
<1>3. at[a] \notin Keys
  BY RunControlAssumption DEF AbortCall
<1> QED BY <1>1, <1>2, <1>3, VisitKeepsAborting DEF AbortCall, tableVars

LEMMA AbortNextKeepsAborting ==
  ASSUME Control, NEW a \in Aborts, AbortNext(a)
  PROVE  Aborting'
<1> DEFINE listed == [activeRuns EXCEPT ![at[a]] = NoRun]
<1>1. /\ at[a] \in Keys /\ todo[a] \in SUBSET Keys
      /\ listed \in [Keys -> Requests \cup {NoRun}]
  BY DEF AbortNext, Control, Tables, TypeOK
<1>2. /\ Visit(a, todo[a], listed) /\ activeRuns' = listed
      /\ told' = [told EXCEPT ![at[a]] = @ \cup {"aborted"}]
      /\ UNCHANGED <<callbackDue, status>>
  BY DEF AbortNext, Tell
<1>3. \A k \in Keys : \/ listed[k] = activeRuns[k]
                      \/ listed[k] = NoRun /\ AbortRequested(k)
  BY <1>1 DEF AbortRequested, Control, Tables, TypeOK
<1>4. \A k \in todo[a] : \E r \in Requests : KeyOf[r] = k /\ Launched(r)
  BY <1>1 DEF Control, Aborting, Targeted
<1>5. \A k \in Keys : activeRuns'[k] \in {activeRuns[k], NoRun}
  BY <1>1, <1>2 DEF Control, Tables, TypeOK
<1>6. \A k \in Keys : "aborted" \in told'[k] <=> "aborted" \in told[k] \/ k = at[a]
  BY <1>1, <1>2 DEF Control, Tables, TypeOK
<1>7. todo[a] \in SUBSET Keys /\ listed \in [Keys -> Requests \cup {NoRun}]
  BY <1>1
<1> HIDE DEF listed
<1> QED BY <1>2, <1>3, <1>4, <1>5, <1>6, <1>7, VisitKeepsAborting

LEMMA TaskStepKeepsAborting ==
  ASSUME Control, TaskAndTurn', NEW r \in Requests, TaskStep(r)
  PROVE  Aborting'
<1> USE RunControlAssumption DEF Control, Tables
<1>1. /\ \A q \in Requests : Launched(q)' <=> Launched(q)
      /\ UNCHANGED tableVars
  BY TaskStepFacts
<1>2. /\ \A q \in Requests : q # r => turn'[q] = turn[q] /\ task'[q] = task[q]
      /\ r \in Chat => turn'[r] = "over"
      /\ r \notin Chat => \/ turn'[r] = "over"
                          \/ turn'[r] = turn[r] /\ (task[r] = "cancelling" \/ turn[r] = "over")
      /\ UNCHANGED abortVars
  BY DEF TaskStep, ChatEnds, ChatUnwound, AgentTurnEnds, AgentTaskEnds, EndTask, TypeOK
<1>3. Done(r) => Done(r)'
  BY DEF TaskStep, ChatEnds, ChatUnwound, AgentTurnEnds, AgentTaskEnds, EndTask, TypeOK, Done
<1>4. \A q \in Requests : /\ Done(q) => Done(q)'
                          /\ turn'[q] = "running" => turn[q] = "running"
                          /\ q \notin Chat /\ turn'[q] = "running" =>
                               task'[q] = task[q] \/ task[q] # "pending"
  BY <1>2, <1>3 DEF Done
<1>5. \A k \in Keys : "aborted" \in told'[k] <=> "aborted" \in told[k]
  BY DEF TaskStep, ChatEnds, ChatUnwound, AgentTurnEnds, AgentTaskEnds, Tell, TypeOK
<1> QED BY <1>1, <1>2, <1>4, <1>5, FrameKeepsAborting DEF tableVars, TypeOK

(* A cancellation of chats other than by chat.abort: /stop. *)
LEMMA StopKeepsAborting ==
  ASSUME Control, TaskAndTurn', StopCommand
  PROVE  Aborting'
<1> USE DEF Control, Tables
<1>1. ListedChats \in SUBSET Requests /\ Cancel(ListedChats) /\ UNCHANGED callbackDue
      /\ UNCHANGED <<tableVars, told, abortVars>> /\ ListedChats \subseteq Chat
  BY ListedTypes DEF StopCommand
<1>2. \A q \in Requests : /\ Launched(q)' <=> Launched(q)
                          /\ Done(q)' <=> Done(q)
                          /\ turn'[q] = "running" => turn[q] = "running"
                          /\ q \notin ListedChats => turn'[q] = turn[q] /\ task'[q] = task[q]
  BY <1>1, CancelKeepsTaskAndTurn
<1> QED BY <1>1, <1>2, FrameKeepsAborting DEF tableVars, TypeOK

LEMMA AgentKeepsAborting ==
  ASSUME Control, TaskAndTurn', NEW r \in Requests, Agent(r)
  PROVE  Aborting'
<1> USE DEF Control, Tables
<1>1. r \in Requests \ Chat /\ turn[r] = "none" /\ ~ Launched(r)
      /\ UNCHANGED <<callbackDue, status, told, abortVars>>
  BY DEF Agent, Launched
<1>2. CASE turn' = [turn EXCEPT ![r] = "cached"] /\ UNCHANGED <<task, activeRuns>>
  <2>1. \A q \in Requests : /\ Launched(q)' <=> Launched(q)
                            /\ Done(q)' <=> Done(q)
                            /\ turn'[q] = "running" => turn[q] = "running"
                            /\ task'[q] = task[q]
    BY <1>1, <1>2 DEF Launched, Done, TypeOK
  <2> QED BY <1>1, <1>2, <2>1, FrameKeepsAborting DEF TypeOK
<1>3. CASE Launch(r)
  BY <1>1, <1>3, LaunchKeepsAborting
<1>4. CASE /\ task' = TaskCancelled(ListedChats)
           /\ turn' = [TurnCancelled(ListedChats) EXCEPT ![r] = "resetting"]
           /\ UNCHANGED activeRuns
  <2>1. \A q \in Requests : (Launched(q)' <=> Launched(q)) /\ (Done(q)' <=> Done(q))
    BY <1>1, <1>4, ResetFacts DEF Steady
  <2>2. \A q \in Requests : /\ turn'[q] = "running" => turn[q] = "running"
                            /\ q \notin Chat => task'[q] = task[q]
    BY <1>1, <1>4, ListedTypes DEF TaskCancelled, TurnCancelled, Pending
  <2> QED BY <1>1, <1>4, <2>1, <2>2, FrameKeepsAborting DEF TypeOK
<1> QED BY <1>2, <1>3, <1>4 DEF Agent

LEMMA CleanupKeepsAborting ==
  ASSUME Control, NEW r \in Requests, Cleanup(r)
  PROVE  Aborting'
<1> USE RunControlAssumption DEF Control, Tables
<1>1. /\ TaskAndTurn' /\ Steady /\ Done(r) /\ told' = told
      /\ \A k \in Keys : activeRuns'[k] = IF k = KeyOf[r] THEN NoRun ELSE activeRuns[k]
  BY CleanupFacts
<1>2. UNCHANGED <<turn, task, abortVars>>
  BY DEF Cleanup
<1>3. \A k \in status' \ status : r \in Requests \ Chat /\ KeyOf[r] = k /\ Done(r)'
  BY <1>1 DEF Cleanup, Steady
<1> QED BY <1>1, <1>2, <1>3, FrameKeepsAborting DEF Steady

LEMMA ControlStep == Control /\ [Next]_vars => Control'
<1> SUFFICES ASSUME Control, [Next]_vars PROVE Aborting'
  BY TablesStep DEF Control
<1>0. TaskAndTurn'
  BY TablesStep DEF Control, Tables
<1> USE <1>0
<1>1. ASSUME NEW r \in Requests, ChatSend(r) PROVE Aborting'
  BY <1>1, LaunchKeepsAborting DEF ChatSend, Launched, tableVars
<1>2. ASSUME NEW r \in Requests, ChatReportsError(r) PROVE Aborting'
  <2>1. \A k \in Keys : "aborted" \in told'[k] <=> "aborted" \in told[k]
    BY <1>2 DEF ChatReportsError, Tell, Control, Tables, TypeOK
  <2> QED BY <1>2, <2>1, FrameKeepsAborting
          DEF ChatReportsError, runVars, tableVars, Launched, Done, Control, Tables, TypeOK
<1>3. ASSUME NEW r \in Requests, TaskStep(r) PROVE Aborting'
  BY <1>3, TaskStepKeepsAborting
<1>4. ASSUME NEW r \in Requests, Agent(r) PROVE Aborting'
  BY <1>4, AgentKeepsAborting
<1>5. ASSUME NEW r \in Requests, LaunchAfterReset(r) PROVE Aborting'
  BY <1>5, LaunchKeepsAborting DEF LaunchAfterReset, Launched
<1>6. ASSUME NEW r \in Requests, Cleanup(r) PROVE Aborting'
  BY <1>6, CleanupKeepsAborting
<1>7. CASE StopCommand
  BY <1>7, StopKeepsAborting
<1>8. ASSUME NEW a \in Aborts, NEW k \in Keys, AbortCall(a, k) PROVE Aborting'
  BY <1>8, AbortCallKeepsAborting
<1>9. ASSUME NEW a \in Aborts, AbortNext(a) PROVE Aborting'
  BY <1>9, AbortNextKeepsAborting
<1>10. CASE UNCHANGED vars
  BY <1>10, FrameKeepsAborting
     DEF vars, runVars, tableVars, Launched, Done, Control, Tables, TypeOK
<1> QED BY <1>1, <1>2, <1>3, <1>4, <1>5, <1>6, <1>7, <1>8, <1>9, <1>10 DEF Next

LEMMA ControlInvariant == Spec => []Control
<1>1. Init => Control
  BY RunControlAssumption DEF Init, Control, Tables, TypeOK, TaskAndTurn, RunTableExact, Launched,
     Done, Aborting, Listed, Targeted, ChatsCancelled, TasksLast, EndsRecorded, AbortRequested
<1> QED BY <1>1, ControlStep, PTL DEF Spec

(* A client that is told of an abort hears nothing more of that chat: its  *)
(* run was cancelled before, and a cancelled run tells nothing.            *)
LEMMA AbortedStays ==
  ASSUME Control, [Next]_vars, NEW r \in Chat, ~ Shared(KeyOf[r]), "aborted" \in told[KeyOf[r]]
  PROVE  told'[KeyOf[r]] = told[KeyOf[r]]
<1> USE ListedTypes, RunControlAssumption DEF Control, Tables
<1>1. told \in [Keys -> SUBSET {"ended", "aborted"}] /\ KeyOf[r] \in Keys /\ Chat \subseteq Requests
  BY DEF TypeOK
<1>2. ASSUME NEW q \in Requests, q \in Chat, turn[q] = "running" PROVE KeyOf[q] # KeyOf[r]
  <2>1. SUFFICES ASSUME KeyOf[q] = KeyOf[r] PROVE FALSE
    OBVIOUS
  <2> QED BY <1>2, <2>1 DEF Aborting, ChatsCancelled, AbortRequested
<1>3. ASSUME NEW q \in Requests, ChatReportsError(q) \/ ChatEnds(q)
      PROVE  told'[KeyOf[r]] = told[KeyOf[r]]
  BY <1>1, <1>2, <1>3 DEF ChatReportsError, ChatEnds, Tell
<1>4. ASSUME NEW a \in Aborts, AbortNext(a) PROVE told'[KeyOf[r]] = told[KeyOf[r]]
  BY <1>1, <1>4 DEF AbortNext, Tell
<1>5. CASE UNCHANGED told
  BY <1>5
<1> QED BY <1>3, <1>4, <1>5
        DEF Next, TaskStep, ChatSend, ChatUnwound, AgentTurnEnds, AgentTaskEnds, Agent,
            LaunchAfterReset, Cleanup, StopCommand, AbortCall, vars

(* AbortedIsLast, for any requests and aborts: with the abort, the last    *)
(* thing a client hears of a chat is said.                                 *)
THEOREM AbortedIsLastCorrect == Spec => AbortedIsLast
<1>1. Control /\ [Next]_vars =>
        [\A r \in Chat : ~ Shared(KeyOf[r]) /\ "aborted" \in told[KeyOf[r]] =>
           told'[KeyOf[r]] = told[KeyOf[r]]]_vars
  BY AbortedStays
<1> QED BY <1>1, ControlInvariant, PTL DEF Spec, AbortedIsLast

(* Only the turn of a chat unwinds: a cancellation of its task reaches it. *)
OnlyChatsUnwind == \A r \in Requests \ Chat : turn[r] # "unwinding"

LEMMA OnlyChatsUnwindStep == Control /\ OnlyChatsUnwind /\ [Next]_vars => OnlyChatsUnwind'
<1> SUFFICES ASSUME Control, OnlyChatsUnwind, [Next]_vars PROVE OnlyChatsUnwind'
  OBVIOUS
<1> USE RunControlAssumption DEF Control, Tables, OnlyChatsUnwind
<1>1. ASSUME NEW S \in SUBSET Requests, Cancel(S) PROVE OnlyChatsUnwind'
  BY <1>1 DEF Cancel, TurnCancelled, Pending
<1>2. ASSUME NEW r \in Requests, ChatSend(r) \/ TaskStep(r) \/ LaunchAfterReset(r)
      PROVE  OnlyChatsUnwind'
  BY <1>2 DEF ChatSend, LaunchAfterReset, Launch, TaskStep, ChatEnds, ChatUnwound, AgentTurnEnds,
              AgentTaskEnds, TypeOK
<1>3. ASSUME NEW r \in Requests, Agent(r) PROVE OnlyChatsUnwind'
  BY <1>3 DEF Agent, Launch, TurnCancelled, Pending, TypeOK
<1>4. ASSUME NEW a \in Aborts, AbortNext(a) \/ \E k \in Keys : AbortCall(a, k)
      PROVE  OnlyChatsUnwind'
  BY <1>1, <1>4, AbortCancels
<1>5. CASE StopCommand
  BY <1>1, <1>5, ListedTypes DEF StopCommand
<1>6. CASE UNCHANGED turn
  BY <1>6
<1> QED BY <1>2, <1>3, <1>4, <1>5, <1>6 DEF Next, ChatReportsError, Cleanup, runVars, vars

(* agent.wait does not answer for a run that goes on: its table entry is   *)
(* there until its task is done, and only an abort ends the task first.    *)
THEOREM TruthfulWaitCorrect == Spec => []TruthfulWait
<1>1. Control /\ OnlyChatsUnwind => TruthfulWait
  <2> SUFFICES ASSUME Control, OnlyChatsUnwind, NEW r \in Requests, Unfinished(r), ~ Shared(KeyOf[r]),
                      ~ AbortRequested(KeyOf[r])
               PROVE  ~ WaitEnds(r)
    BY DEF TruthfulWait
  <2> USE ListedTypes, RunControlAssumption DEF Control, Tables
  <2>1. KeyOf[r] \in Keys /\ Launched(r) /\ NoRun # r
    BY DEF Unfinished, Launched
  <2>2. ~ Done(r)
    <3>1. CASE r \in Chat
      BY <3>1 DEF TaskAndTurn, Unfinished, Done
    <3>2. CASE r \notin Chat
      BY <3>2 DEF OnlyChatsUnwind, Unfinished, Aborting, TasksLast, Done
    <3> QED BY <3>1, <3>2
  <2>3. activeRuns[KeyOf[r]] = r
    BY <2>1, <2>2 DEF RunTableExact, AbortRequested
  <2>4. KeyOf[r] \notin status
    <3>1. SUFFICES ASSUME KeyOf[r] \in status PROVE FALSE
      OBVIOUS
    <3>2. PICK q \in Requests : KeyOf[q] = KeyOf[r] /\ Done(q)
      BY <3>1 DEF Aborting, EndsRecorded
    <3>3. q # r /\ Launched(q)
      BY <2>2, <3>2 DEF TaskAndTurn, Done
    <3> QED BY <2>1, <3>2, <3>3 DEF Shared
  <2> QED BY <2>1, <2>2, <2>3, <2>4 DEF WaitEnds, AnswersAtOnce
<1>2. Init => OnlyChatsUnwind
  BY DEF Init, OnlyChatsUnwind
<1> QED BY <1>1, <1>2, OnlyChatsUnwindStep, ControlInvariant, PTL DEF Spec
===============================================================================
