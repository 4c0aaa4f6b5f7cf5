-------------------------- MODULE SessionTurnsProofs --------------------------
(***************************************************************************)
(* Proofs about SessionTurns for any number of turns, models and profiles, *)
(* and for any stale age and deadline.                                     *)
(***************************************************************************)
EXTENDS SessionTurns, TLAPS

File == [owner : Turns \cup {NoTurn}, age : 0..(StaleAge + 1)]
Attempt(t) == [profile : 1..Profiles[t], model : 1..Candidates[t]]

-----------------------------------------------------------------------------
(* TypeOK is preserved by each step. *)

LEMMA NextAttemptType ==
  ASSUME TypeOK, NEW t \in Turns
  PROVE  /\ FirstAttempt \in Attempt(t)
         /\ attempt[t].model < Candidates[t] => NextModel(attempt[t]) \in Attempt(t)
         /\ attempt[t].profile < Profiles[t] => NextProfile(attempt[t]) \in Attempt(t)
<1>1. Candidates[t] \in Nat \ {0} /\ Profiles[t] \in Nat \ {0}
  BY SessionTurnsAssumption
<1>2. attempt[t] \in Attempt(t)
  BY DEF TypeOK, Attempt
<1> QED BY <1>1, <1>2 DEF Attempt, FirstAttempt, NextModel, NextProfile

LEMMA FileTypes ==
  /\ NoFile \in File
  /\ \A t \in Turns : FileOf(t) \in File
BY SessionTurnsAssumption DEF NoFile, FileOf, File

LEMMA LeaveType ==
  ASSUME TypeOK, NEW t \in Turns, Leave(t), lockFile' \in File,
         crashes' = crashes, robbed' \subseteq Turns, displaced' \subseteq RunIds
  PROVE  TypeOK'
<1>1. /\ pc' \in [Turns -> {"idle", "waiting", "over"} \cup AttemptStates]
      /\ holds' \subseteq Turns /\ handle' \subseteq Turns
  BY DEF TypeOK, Leave
<1>2. waited' \in [Turns -> 0..MaxHold]
  BY SessionTurnsAssumption DEF TypeOK, Leave
<1>3. DOMAIN attempt' = Turns /\ \A u \in Turns : attempt'[u] \in Attempt(u)
  BY NextAttemptType DEF TypeOK, Leave, Attempt
<1>4. active' \in Turns \cup {NoTurn}
  BY DEF TypeOK, Leave, ClearActive
<1> QED BY <1>1, <1>2, <1>3, <1>4 DEF TypeOK, File, Attempt

LEMMA StartPromptType ==
  ASSUME TypeOK, NEW t \in Turns, NEW a \in Attempt(t), StartPrompt(t, a), lockFile' \in File,
         holds' \subseteq Turns,
         crashes' = crashes, robbed' \subseteq Turns, displaced' \subseteq RunIds
  PROVE  TypeOK'
<1>1. /\ pc' \in [Turns -> {"idle", "waiting", "over"} \cup AttemptStates]
      /\ handle' \subseteq Turns
  BY DEF TypeOK, StartPrompt, AttemptStates
<1>2. waited' \in [Turns -> 0..MaxHold]
  BY SessionTurnsAssumption DEF TypeOK, StartPrompt
<1>3. DOMAIN attempt' = Turns /\ \A u \in Turns : attempt'[u] \in Attempt(u)
  BY DEF TypeOK, StartPrompt, Attempt
<1>4. active' \in Turns \cup {NoTurn}
  BY DEF TypeOK, StartPrompt
<1> QED BY <1>1, <1>2, <1>3, <1>4 DEF TypeOK, File, Attempt

LEMMA TakeLockType ==
  ASSUME TypeOK, NEW t \in Turns, NEW a \in Attempt(t), TakeLock(t, a),
         crashes' = crashes, robbed' \subseteq Turns, displaced' \subseteq RunIds
  PROVE  TypeOK'
<1>1. CASE lockFile' = NoFile /\ Leave(t)
  BY <1>1, LeaveType, FileTypes
<1>2. CASE lockFile' = FileOf(t) /\ holds' = holds \cup {t} /\ StartPrompt(t, a)
  <2>1. holds' \subseteq Turns
    BY <1>2 DEF TypeOK
  <2> QED BY <1>2, <2>1, StartPromptType, FileTypes
<1> QED BY <1>1, <1>2 DEF TakeLock

LEMMA EnterType ==
  ASSUME TypeOK, NEW t \in Turns, NEW f \in File, NEW a \in Attempt(t), Enter(t, f, a),
         crashes' = crashes, robbed' \subseteq Turns, displaced' \subseteq RunIds
  PROVE  TypeOK'
<1>1. CASE TakeLock(t, a)
  BY <1>1, TakeLockType
<1>2. CASE /\ pc' = [pc EXCEPT ![t] = "waiting"]
           /\ attempt' = [attempt EXCEPT ![t] = a]
           /\ lockFile' = f
           /\ holds' = holds \ {t}
           /\ UNCHANGED <<waited, active, handle>>
  BY <1>2 DEF TypeOK, File, Attempt
<1> QED BY <1>1, <1>2 DEF Enter

LEMMA GhostTypes ==
  ASSUME TypeOK, NEW t \in Turns
  PROVE  /\ Rob(t) => robbed' \subseteq Turns
         /\ Displace(t) => displaced' \subseteq RunIds
BY SessionTurnsAssumption DEF TypeOK, Rob, Victims, Displace, Together, WaitsAgain

LEMMA TypeStep == TypeOK /\ [Next]_vars => TypeOK'
<1> SUFFICES ASSUME TypeOK, [Next]_vars PROVE TypeOK'
  OBVIOUS
<1>1. lockFile \in File /\ \A t \in Turns : FileReleased(t) \in File
  BY FileTypes DEF TypeOK, File, FileReleased
<1>2. ASSUME NEW t \in Turns, Begin(t) PROVE TypeOK'
  BY <1>1, <1>2, EnterType, GhostTypes, NextAttemptType DEF Begin
<1>3. ASSUME NEW t \in Turns, Poll(t) PROVE TypeOK'
  <2>1. attempt[t] \in Attempt(t)
    BY DEF TypeOK, Attempt
  <2>2. crashes' = crashes /\ robbed' \subseteq Turns /\ displaced' \subseteq RunIds
    BY <1>3, GhostTypes DEF Poll
  <2>3. CASE TakeLock(t, attempt[t])
    BY <2>1, <2>2, <2>3, TakeLockType
  <2>4. CASE StartPrompt(t, attempt[t]) /\ UNCHANGED holds /\ UNCHANGED lockFile
    <3>1. holds' \subseteq Turns
      BY <2>4 DEF TypeOK
    <3> QED BY <1>1, <2>1, <2>2, <2>4, <3>1, StartPromptType
  <2>5. CASE Leave(t) /\ UNCHANGED lockFile
    BY <1>1, <2>2, <2>5, LeaveType
  <2> QED BY <1>3, <2>3, <2>4, <2>5 DEF Poll
<1>4. ASSUME NEW t \in Turns, PromptOver(t) PROVE TypeOK'
  <2>1. CASE Fallback(t)
    BY <1>1, <2>1, EnterType, GhostTypes, NextAttemptType DEF Fallback
  <2>2. CASE PromptEnds(t) \/ Exhausted(t)
    BY <2>2 DEF PromptEnds, Exhausted, TypeOK, AttemptStates, progressVars, ghostVars
  <2> QED BY <1>4, <2>1, <2>2 DEF PromptOver
<1>5. ASSUME NEW t \in Turns, ExitWithLock(t) PROVE TypeOK'
  <2>1. robbed' \subseteq Turns /\ displaced' \subseteq RunIds
    BY <1>5 DEF ExitWithLock, TypeOK
  <2> QED BY <1>1, <1>5, <2>1, LeaveType DEF ExitWithLock
<1>6. ASSUME NEW t \in Turns, AttemptOver(t) PROVE TypeOK'
  <2>1. CASE FinishTurn(t)
    <3>1. displaced' \subseteq RunIds
      BY <2>1 DEF FinishTurn, TypeOK
    <3> QED BY <1>1, <2>1, <3>1, LeaveType, GhostTypes DEF FinishTurn
  <2>2. CASE Rotate(t)
    BY <1>1, <2>2, EnterType, GhostTypes, NextAttemptType DEF Rotate
  <2>3. CASE CopilotRefreshed(t)
    BY <1>5, <2>3 DEF CopilotRefreshed
  <2> QED BY <1>6, <2>1, <2>2, <2>3 DEF AttemptOver
<1>7. ASSUME NEW t \in Turns, CancelWaiting(t) \/ Unwound(t) PROVE TypeOK'
  BY <1>5, <1>7 DEF CancelWaiting, Unwound
<1>8. ASSUME NEW t \in Turns, CancelAttempt(t) PROVE TypeOK'
  BY <1>8 DEF CancelAttempt, TypeOK, AttemptStates, progressVars, ghostVars
<1>9. CASE Crash
  <2>1. pc' \in [Turns -> {"idle", "waiting", "over"} \cup AttemptStates]
    BY <1>9 DEF Crash, TypeOK
  <2>2. waited' \in [Turns -> 0..MaxHold] /\ crashes' \in 0..MaxCrashes
    BY <1>9, SessionTurnsAssumption DEF Crash, TypeOK
  <2>3. DOMAIN attempt' = Turns /\ \A u \in Turns : attempt'[u] \in Attempt(u)
    BY <1>9, NextAttemptType DEF Crash
  <2> QED BY <1>9, <2>1, <2>2, <2>3 DEF Crash, TypeOK, Attempt
<1>10. CASE Tick
  <2>1. lockFile' \in File
    BY <1>1, <1>10, SessionTurnsAssumption DEF Tick, Older, Stale, File
  <2>2. waited' \in [Turns -> 0..MaxHold]
    BY <1>10, SessionTurnsAssumption DEF Tick, LongerWait, TypeOK
  <2> QED BY <1>10, <2>1, <2>2 DEF Tick, TypeOK, File, ghostVars
<1>11. CASE UNCHANGED vars
  BY <1>11 DEF TypeOK, vars, progressVars, ghostVars
<1> QED BY <1>2, <1>3, <1>4, <1>6, <1>7, <1>8, <1>9, <1>10, <1>11 DEF Next

(* The turns, their attempts, the lock file and the registry keep their    *)
(* types: no call tries a model or a profile that it does not have.        *)
THEOREM TypeCorrect == Spec => []TypeOK
<1>1. Init => TypeOK
  <2> SUFFICES ASSUME Init PROVE TypeOK
    OBVIOUS
  <2>1. \A t \in Turns : attempt[t] = FirstAttempt /\ Candidates[t] \in Nat \ {0} /\ Profiles[t] \in Nat \ {0}
    BY SessionTurnsAssumption DEF Init
  <2>2. \A t \in Turns : attempt[t] \in Attempt(t)
    BY <2>1 DEF FirstAttempt, Attempt
  <2>3. lockFile \in File
    BY FileTypes DEF Init
  <2> QED BY <2>2, <2>3, SessionTurnsAssumption DEF Init, TypeOK, File, Attempt
<1> QED BY <1>1, TypeStep, PTL DEF Spec

-----------------------------------------------------------------------------
(* Exclusion.  A call that has a lock is in an attempt, and owns the file  *)
(* or was robbed of it.                                                    *)
Owned ==
  \A t \in Turns : t \in holds => InAttempt(t) /\ (t \in robbed \/ lockFile.owner = t)

(* A step of t that frees or takes the file robs every owner but t. *)
LEMMA RobCovers ==
  ASSUME TypeOK, Owned, NEW t \in Turns, Rob(t),
         lockFile'.owner = lockFile.owner \/ Stale(lockFile) \/ lockFile.owner = NoTurn
           \/ t \in robbed \/ lockFile.owner = t,
         NEW u \in Turns, u # t, u \in holds
  PROVE  u \in robbed' \/ (lockFile'.owner = u /\ lockFile.owner = u)
<1>1. CASE u \in robbed
  BY <1>1 DEF Rob
<1>2. CASE u \notin robbed
  <2>1. lockFile.owner = u /\ u # NoTurn /\ u \in Victims(t)
    BY <1>2, SessionTurnsAssumption DEF Owned, Victims, Holding
  <2> QED BY <2>1 DEF Rob
<1> QED BY <1>1, <1>2

LEMMA LeaveOwned ==
  ASSUME TypeOK, Owned, NEW t \in Turns, Leave(t),
         \A u \in Turns : u # t /\ u \in holds => u \in robbed' \/ lockFile'.owner = u
  PROVE  Owned'
BY DEF TypeOK, Owned, Leave, InAttempt

LEMMA TakeLockOwned ==
  ASSUME TypeOK, Owned, NEW t \in Turns, NEW a, TakeLock(t, a),
         \A u \in Turns : u # t /\ u \in holds => u \in robbed' \/ lockFile'.owner = u
  PROVE  Owned'
<1>1. CASE lockFile' = NoFile /\ Leave(t)
  BY <1>1, LeaveOwned
<1>2. CASE lockFile' = FileOf(t) /\ holds' = holds \cup {t} /\ StartPrompt(t, a)
  BY <1>2 DEF TypeOK, Owned, StartPrompt, FileOf, InAttempt, AttemptStates
<1> QED BY <1>1, <1>2 DEF TakeLock

(* The file an attempt enters with: what was there, or none after a        *)
(* release.                                                                *)
LEMMA EnterOwned ==
  ASSUME TypeOK, Owned, NEW t \in Turns, NEW a, NEW f \in {lockFile, FileReleased(t)},
         Enter(t, f, a), Rob(t)
  PROVE  Owned'
<1>1. f = lockFile \/ (t \in holds /\ f = NoFile)
  BY DEF FileReleased
<1>2. t \in holds => t \in robbed \/ lockFile.owner = t
  BY DEF Owned
<1>3. lockFile'.owner = lockFile.owner \/ Stale(lockFile) \/ lockFile.owner = NoTurn
        \/ t \in robbed \/ lockFile.owner = t
  BY <1>1, <1>2 DEF Enter, Obtainable
<1>4. \A u \in Turns : u # t /\ u \in holds => u \in robbed' \/ lockFile'.owner = u
  BY <1>3, RobCovers
<1>5. CASE TakeLock(t, a)
  BY <1>4, <1>5, TakeLockOwned
<1>6. CASE pc' = [pc EXCEPT ![t] = "waiting"] /\ holds' = holds \ {t}
  BY <1>4, <1>6 DEF TypeOK, Owned, InAttempt
<1> QED BY <1>5, <1>6 DEF Enter

LEMMA OwnedStep == TypeOK /\ Owned /\ [Next]_vars => Owned'
<1> SUFFICES ASSUME TypeOK, Owned, [Next]_vars PROVE Owned'
  OBVIOUS
<1>1. ASSUME NEW t \in Turns, Begin(t) \/ Fallback(t) \/ Rotate(t) PROVE Owned'
  BY <1>1, EnterOwned DEF Begin, Fallback, Rotate
<1>2. ASSUME NEW t \in Turns, Poll(t) PROVE Owned'
  <2>1. lockFile'.owner = lockFile.owner \/ Stale(lockFile) \/ lockFile.owner = NoTurn
    BY <1>2 DEF Poll, Obtainable
  <2>2. \A u \in Turns : u # t /\ u \in holds => u \in robbed' \/ lockFile'.owner = u
    BY <1>2, <2>1, RobCovers DEF Poll
  <2>3. CASE TakeLock(t, attempt[t])
    BY <2>2, <2>3, TakeLockOwned
  <2>4. CASE StartPrompt(t, attempt[t]) /\ UNCHANGED holds
    BY <1>2, <2>2, <2>4 DEF Poll, TypeOK, Owned, StartPrompt, InAttempt, AttemptStates
  <2>5. CASE Leave(t)
    BY <2>2, <2>5, LeaveOwned
  <2> QED BY <1>2, <2>3, <2>4, <2>5 DEF Poll
<1>3. ASSUME NEW t \in Turns, FinishTurn(t) PROVE Owned'
  <2>1. t \in holds => t \in robbed \/ lockFile.owner = t
    BY DEF Owned
  <2>2. \A u \in Turns : u # t /\ u \in holds => u \in robbed' \/ lockFile'.owner = u
    BY <1>3, <2>1, RobCovers DEF FinishTurn, FileReleased
  <2> QED BY <1>3, <2>2, LeaveOwned DEF FinishTurn
<1>4. ASSUME NEW t \in Turns, ExitWithLock(t) PROVE Owned'
  <2>1. \A u \in Turns : u # t /\ u \in holds => u \in robbed' \/ lockFile'.owner = u
    BY <1>4 DEF ExitWithLock, Owned
  <2> QED BY <1>4, <2>1, LeaveOwned DEF ExitWithLock
<1>5. ASSUME NEW t \in Turns, PromptEnds(t) \/ Exhausted(t) \/ CancelAttempt(t) PROVE Owned'
  BY <1>5 DEF PromptEnds, Exhausted, CancelAttempt, TypeOK, Owned, InAttempt, AttemptStates, ghostVars
<1>6. CASE Crash
  BY <1>6 DEF Crash, Owned
<1>7. CASE Tick
  <2>1. lockFile'.owner = lockFile.owner
    BY <1>7 DEF Tick, TypeOK
  <2> QED BY <1>7, <2>1 DEF Tick, Owned, InAttempt, ghostVars
<1>8. CASE UNCHANGED vars
  BY <1>8 DEF vars, Owned, InAttempt, ghostVars
<1> QED BY <1>1, <1>2, <1>3, <1>4, <1>5, <1>6, <1>7, <1>8
        DEF Next, PromptOver, AttemptOver, CopilotRefreshed, CancelWaiting, Unwound

(* Two attempts touch the session at once only if one of them went on      *)
(* without a lock or lost its file to a takeover: of two that have a lock  *)
(* and were not robbed each would own the file.                            *)
THEOREM AttemptsExclusiveCorrect == Spec => []AttemptsExclusive
<1>1. Init => Owned
  BY DEF Init, Owned
<1>2. Owned => AttemptsExclusive
  BY DEF Owned, AttemptsExclusive, Unprotected
<1> QED BY <1>1, <1>2, OwnedStep, TypeCorrect, PTL DEF Spec

-----------------------------------------------------------------------------
(* The registry.  The registered call has a handle, and a handle belongs   *)
(* to a call that goes on; attempts that are side by side, and waits of a  *)
(* call with a handle, have their run ids in displaced.                    *)
Registered ==
  /\ \A t \in handle : Live(t)
  /\ active # NoTurn => active \in handle
  /\ \A t, u \in Turns : t # u /\ InAttempt(t) /\ InAttempt(u) => RunOf[t] \in displaced
  /\ \A t \in Turns : pc[t] = "waiting" /\ t \in handle => RunOf[t] \in displaced
  /\ \A t \in Turns : InAttempt(t) /\ RunOf[t] \notin displaced => active = t

(* A call that leaves has no handle, clears its own registration, and that *)
(* of another call only if the two share a run id, which is displaced then *)
(* unless that call waits and registers when it gets the lock.             *)
LEMMA LeaveRegistered ==
  ASSUME TypeOK, Registered, NEW t \in Turns, Leave(t), displaced \subseteq displaced'
  PROVE  Registered'
<1>1. \A u \in Turns : InAttempt(u)' => u # t /\ InAttempt(u)
  BY DEF TypeOK, Leave, InAttempt, AttemptStates
<1>2. \A u \in Turns : pc'[u] = "waiting" => u # t /\ pc[u] = "waiting"
  BY DEF TypeOK, Leave
<1>3. \A u \in handle' : u \in handle /\ u # t /\ Live(u)'
  BY DEF TypeOK, Registered, Leave, Live, InAttempt
<1>4. active' # NoTurn => active' \in handle'
  BY DEF Registered, Leave, ClearActive
<1>5. ASSUME NEW u \in Turns, InAttempt(u)', RunOf[u] \notin displaced'
      PROVE  active' = u
  <2>1. u # t /\ InAttempt(u) /\ RunOf[u] \notin displaced /\ active = u
    BY <1>1, <1>5 DEF Registered
  <2>2. t \in handle => RunOf[t] # RunOf[u]
    BY <2>1 DEF Registered, Live
  <2> QED BY <2>1, <2>2 DEF Leave, ClearActive
<1> QED BY <1>1, <1>2, <1>3, <1>4, <1>5 DEF Registered, Leave

(* A call that starts an attempt is alone in it or displaced with the      *)
(* others, and is registered, now or since its attempt before.             *)
LEMMA StartPromptRegistered ==
  ASSUME TypeOK, Registered, NEW t \in Turns, NEW a, StartPrompt(t, a), Displace(t)
  PROVE  Registered'
<1>1. /\ InAttempt(t)'
      /\ \A u \in Turns : u # t => pc'[u] = pc[u]
  BY DEF TypeOK, StartPrompt, InAttempt, AttemptStates
<1>2. displaced \subseteq displaced' /\ \A u \in Together' : RunOf[u] \in displaced'
  BY DEF Displace
<1>3. \A u \in handle' : Live(u)'
  BY <1>1 DEF TypeOK, Registered, StartPrompt, Live, InAttempt
<1>4. active' # NoTurn => active' \in handle'
  BY DEF Registered, StartPrompt
<1>5. \A u, v \in Turns : u # v /\ InAttempt(u)' /\ InAttempt(v)' => RunOf[u] \in displaced'
  BY <1>2 DEF Together, InAttempt
<1>6. \A u \in Turns : pc'[u] = "waiting" /\ u \in handle' => RunOf[u] \in displaced'
  BY <1>1, <1>2 DEF Registered, StartPrompt, InAttempt, AttemptStates
<1>7. ASSUME NEW u \in Turns, InAttempt(u)', RunOf[u] \notin displaced'
      PROVE  active' = u
  <2>1. u = t
    BY <1>1, <1>5, <1>7
  <2>2. CASE t \notin handle
    BY <2>1, <2>2 DEF StartPrompt
  <2>3. CASE t \in handle
    <3>1. Live(t) /\ RunOf[t] \notin displaced
      BY <1>2, <1>7, <2>1, <2>3 DEF Registered
    <3>2. InAttempt(t)
      BY <2>3, <3>1 DEF Registered, Live
    <3> QED BY <2>1, <2>3, <3>1, <3>2 DEF Registered, StartPrompt
  <2> QED BY <2>2, <2>3
<1> QED BY <1>3, <1>4, <1>5, <1>6, <1>7 DEF Registered

LEMMA TakeLockRegistered ==
  ASSUME TypeOK, Registered, NEW t \in Turns, NEW a, TakeLock(t, a), Displace(t)
  PROVE  Registered'
<1>1. displaced \subseteq displaced'
  BY DEF Displace
<1> QED BY <1>1, LeaveRegistered, StartPromptRegistered DEF TakeLock

LEMMA EnterRegistered ==
  ASSUME TypeOK, Registered, NEW t \in Turns, NEW f, NEW a, Enter(t, f, a), Displace(t),
         t \in handle => InAttempt(t)
  PROVE  Registered'
<1>1. CASE TakeLock(t, a)
  BY <1>1, TakeLockRegistered
<1>2. CASE pc' = [pc EXCEPT ![t] = "waiting"] /\ UNCHANGED <<active, handle>>
  <2>1. /\ pc'[t] = "waiting" /\ ~ InAttempt(t)'
        /\ \A u \in Turns : u # t => pc'[u] = pc[u]
    BY <1>2 DEF TypeOK, InAttempt, AttemptStates
  <2>2. displaced \subseteq displaced' /\ \A u \in WaitsAgain(t) : RunOf[u] \in displaced'
    BY DEF Displace
  <2>3. t \in handle => RunOf[t] \in displaced'
    BY <2>1, <2>2 DEF WaitsAgain
  <2>4. \A u \in handle' : Live(u)'
    BY <1>2, <2>1 DEF Registered, Live, InAttempt, TypeOK
  <2>5. \A u, v \in Turns : u # v /\ InAttempt(u)' /\ InAttempt(v)' => RunOf[u] \in displaced'
    BY <2>1, <2>2 DEF Registered, InAttempt
  <2>6. \A u \in Turns : pc'[u] = "waiting" /\ u \in handle' => RunOf[u] \in displaced'
    BY <1>2, <2>1, <2>2, <2>3 DEF Registered
  <2>7. \A u \in Turns : InAttempt(u)' /\ RunOf[u] \notin displaced' => active' = u
    BY <1>2, <2>1, <2>2 DEF Registered, InAttempt
  <2> QED BY <1>2, <2>4, <2>5, <2>6, <2>7 DEF Registered
<1> QED BY <1>1, <1>2 DEF Enter

LEMMA RegisteredStep == TypeOK /\ Registered /\ [Next]_vars => Registered'
<1> SUFFICES ASSUME TypeOK, Registered, [Next]_vars PROVE Registered'
  OBVIOUS
<1>1. ASSUME NEW t \in Turns, Begin(t) PROVE Registered'
  <2>1. t \notin handle
    BY <1>1 DEF Begin, Registered, Live, InAttempt, AttemptStates
  <2> QED BY <1>1, <2>1, EnterRegistered DEF Begin
<1>2. ASSUME NEW t \in Turns, Fallback(t) \/ Rotate(t) PROVE Registered'
  <2>1. InAttempt(t)
    BY <1>2 DEF Fallback, Rotate, InAttempt, AttemptStates
  <2> QED BY <1>2, <2>1, EnterRegistered DEF Fallback, Rotate
<1>3. ASSUME NEW t \in Turns, Poll(t) PROVE Registered'
  <2>1. Displace(t) /\ displaced \subseteq displaced'
    BY <1>3 DEF Poll, Displace
  <2> QED BY <1>3, <2>1, TakeLockRegistered, StartPromptRegistered, LeaveRegistered DEF Poll
<1>4. ASSUME NEW t \in Turns, FinishTurn(t) \/ ExitWithLock(t) PROVE Registered'
  BY <1>4, LeaveRegistered DEF FinishTurn, ExitWithLock
<1>5. ASSUME NEW t \in Turns, PromptEnds(t) \/ Exhausted(t) \/ CancelAttempt(t) PROVE Registered'
  <2>1. \A u \in Turns : /\ InAttempt(u)' <=> InAttempt(u)
                         /\ pc'[u] = "waiting" <=> pc[u] = "waiting"
    BY <1>5 DEF PromptEnds, Exhausted, CancelAttempt, TypeOK, InAttempt, AttemptStates
  <2>2. UNCHANGED <<active, handle, displaced>> /\ handle \subseteq Turns
    BY <1>5 DEF PromptEnds, Exhausted, CancelAttempt, TypeOK, ghostVars
  <2> QED BY <2>1, <2>2 DEF Registered, Live
<1>6. CASE Crash
  BY <1>6 DEF Crash, Registered, Live, InAttempt, AttemptStates, TypeOK
<1>7. CASE Tick \/ UNCHANGED vars
  <2>1. UNCHANGED <<pc, active, handle, displaced>>
    BY <1>7 DEF Tick, vars, ghostVars
  <2> QED BY <2>1 DEF Registered, Live, InAttempt
<1> QED BY <1>1, <1>2, <1>3, <1>4, <1>5, <1>6, <1>7
        DEF Next, PromptOver, AttemptOver, CopilotRefreshed, CancelWaiting, Unwound

(* What steering, aborting and routing read is true: an attempt that had   *)
(* the session to itself, and was not sent back to wait, is the registered *)
(* run, and no call stays registered when it is over.                      *)
THEOREM RegistryTruthfulCorrect == Spec => []RegistryTruthful
<1>1. Init => Registered
  BY SessionTurnsAssumption DEF Init, Registered, InAttempt, AttemptStates
<1>2. Registered => RegistryTruthful
  BY DEF Registered, RegistryTruthful
<1> QED BY <1>1, <1>2, RegisteredStep, TypeCorrect, PTL DEF Spec
===============================================================================
