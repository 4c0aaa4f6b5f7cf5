----------------------------- MODULE SessionTurns -----------------------------
(***************************************************************************)
(* The turns of one session in gateway/pi_runtime.py (run_turn): the lock  *)
(* file of the session (agents/session_lock.py) that an attempt holds, the *)
(* order of attempts over models and auth profiles, and the registry of    *)
(* the active run (agents/pi_embedded.py).                                 *)
(*                                                                         *)
(* Turns reach run_turn from the gateway, from auto-reply and from cron;   *)
(* not all of them pass the lane of the session, so the lock file is what  *)
(* keeps their attempts apart.  Steering and aborting a run only touch its *)
(* prompt, which ends for reasons of its own here.                         *)
(***************************************************************************)
EXTENDS Integers, FiniteSets

CONSTANTS
  Turns,        \* calls of run_turn for the session
  RunIds,
  RunOf,        \* RunOf[t]: the run_id of call t; a repeated request shares it
  Cancellable,  \* calls a timeout, /stop or chat.abort may cancel
  Candidates,   \* Candidates[t]: how many models call t may try; an override is one
  Profiles,     \* Profiles[t]: how many auth profiles its provider has
  Copilot,      \* calls whose provider is github-copilot
  StaleAge,     \* a file older than this is removed (300 s in the code)
  MaxHold,      \* how long an attempt waits for the lock (600 s)
  MaxCrashes,   \* bound on the ends of the process
  NoTurn

ASSUME SessionTurnsAssumption ==
  /\ RunOf \in [Turns -> RunIds]
  /\ Cancellable \subseteq Turns
  /\ Candidates \in [Turns -> Nat \ {0}]
  /\ Profiles \in [Turns -> Nat \ {0}]
  /\ Copilot \subseteq Turns
  /\ StaleAge \in Nat /\ MaxHold \in Nat \ {0} /\ MaxCrashes \in Nat
  /\ NoTurn \notin Turns

VARIABLES
  lockFile,   \* who created the lock file, and its age
  pc,         \* pc[t]: where call t is
  holds,      \* turns whose _attempt_lock_ctx is set
  waited,     \* waited[t]: time spent in _acquire_inner
  attempt,    \* attempt[t]: current_profile_idx and the model candidate
  active,     \* ACTIVE_EMBEDDED_RUNS: the turn whose handle is registered
  handle,     \* turns whose _active_handle is set
  crashes,
  robbed,     \* ghost: attempts whose stale lock file another turn removed, and
              \* those whose file such a robbed turn removed in place of its own
  displaced   \* ghost: run ids that shared the session with another attempt,
              \* or waited for the lock again between two of theirs

progressVars == <<waited, attempt>>
ghostVars == <<crashes, robbed, displaced>>
vars == <<lockFile, pc, holds, progressVars, active, handle, ghostVars>>

NoFile == [owner |-> NoTurn, age |-> 0]
FileOf(t) == [owner |-> t, age |-> 0]
Stale(f) == f.age > StaleAge
Obtainable(f) == f.owner = NoTurn \/ Stale(f)

(* Between the lock and its release: the turn may touch the session. *)
AttemptStates == {"prompting", "yielding", "exhausted", "unwinding"}
InAttempt(t) == pc[t] \in AttemptStates
Live(t) == pc[t] = "waiting" \/ InAttempt(t)
Holding(t) == InAttempt(t) /\ t \in holds

FirstAttempt == [profile |-> 1, model |-> 1]
NextModel(a) == [a EXCEPT !.model = @ + 1]
NextProfile(a) == [profile |-> a.profile + 1, model |-> 1]

Init ==
  /\ lockFile = NoFile
  /\ pc = [t \in Turns |-> "idle"]
  /\ holds = {} /\ handle = {}
  /\ waited = [t \in Turns |-> 0]
  /\ attempt = [t \in Turns |-> FirstAttempt]
  /\ active = NoTurn
  /\ crashes = 0 /\ robbed = {} /\ displaced = {}

-----------------------------------------------------------------------------
(* _release unlinks the file, whoever created it; without a lock it does   *)
(* nothing.                                                                *)
FileReleased(t) == IF t \in holds THEN NoFile ELSE lockFile
Victims(t) == {u \in Turns \ {t} : Holding(u) /\ lockFile.owner = u}

(* Fault: the finally clause clears whatever run is registered. *)
ClearAny(t) == active' = IF t \in handle THEN NoTurn ELSE active

(* clear_active_embedded_run in the finally clause: the run id must match. *)
ClearActive(t) ==
  active' = IF /\ t \in handle
               /\ active # NoTurn
               /\ RunOf[active] = RunOf[t]
            THEN NoTurn ELSE active

(* The generator is left: the finally clause of run_turn, and the end of  *)
(* its locals.                                                             *)
Leave(t) ==
  /\ pc' = [pc EXCEPT ![t] = "over"]
  /\ holds' = holds \ {t}
  /\ handle' = handle \ {t}
  /\ waited' = [waited EXCEPT ![t] = 0]
  /\ attempt' = [attempt EXCEPT ![t] = FirstAttempt]
  /\ ClearActive(t)

(* The session exists: the first attempt registers its handle. *)
StartPrompt(t, a) ==
  /\ pc' = [pc EXCEPT ![t] = "prompting"]
  /\ attempt' = [attempt EXCEPT ![t] = a]
  /\ waited' = [waited EXCEPT ![t] = 0]
  /\ handle' = handle \cup {t}
  /\ active' = IF t \in handle THEN active ELSE t

(* The lock file is created, a stale one of anybody removed before.  When  *)
(* the session cannot be created the lock is released and the turn ends.   *)
TakeLock(t, a) ==
  \/ /\ lockFile' = FileOf(t)
     /\ holds' = holds \cup {t}
     /\ StartPrompt(t, a)
  \/ /\ lockFile' = NoFile
     /\ Leave(t)

(* The first try of attempt a, with f the file it finds. *)
Enter(t, f, a) ==
  \/ /\ Obtainable(f)
     /\ TakeLock(t, a)
  \/ /\ ~ Obtainable(f)
     /\ pc' = [pc EXCEPT ![t] = "waiting"]
     /\ attempt' = [attempt EXCEPT ![t] = a]
     /\ lockFile' = f
     /\ holds' = holds \ {t}
     /\ UNCHANGED <<waited, active, handle>>

(* The ghosts: a step of t that removes the file of another attempt, stale *)
(* or, when t itself was robbed, taken for its own; and a step that sends  *)
(* t back to waiting or into an attempt beside another.                    *)
Rob(t) ==
  LET removed == lockFile'.owner # lockFile.owner /\ (Stale(lockFile) \/ t \in robbed) IN
  robbed' = (robbed \ {t}) \cup {u \in Victims(t) : removed}
Together == {u \in Turns : InAttempt(u) /\ \E v \in Turns \ {u} : InAttempt(v)}
WaitsAgain(t) == {u \in {t} : InAttempt(u) /\ pc'[u] = "waiting"}
Displace(t) == displaced' = displaced \cup {RunOf[u] : u \in Together' \cup WaitsAgain(t)}

-----------------------------------------------------------------------------
Begin(t) ==
  /\ pc[t] = "idle"
  /\ Enter(t, lockFile, FirstAttempt)
  /\ Rob(t) /\ Displace(t)
  /\ UNCHANGED crashes

(* Fault: a wait for the file to go away, without takeover and deadline. *)
PollForever(t) ==
  /\ pc[t] = "waiting" /\ lockFile.owner = NoTurn
  /\ TakeLock(t, attempt[t])
  /\ Rob(t) /\ Displace(t)
  /\ UNCHANGED crashes

(* A round of _acquire_inner: the lock, or SessionWriteLockError at the    *)
(* deadline, after which the attempt goes on without a lock.               *)
Poll(t) ==
  /\ pc[t] = "waiting"
  /\ \/ /\ Obtainable(lockFile)
        /\ TakeLock(t, attempt[t])
     \/ /\ ~ Obtainable(lockFile)
        /\ waited[t] >= MaxHold
        /\ \/ StartPrompt(t, attempt[t]) /\ UNCHANGED holds
           \/ Leave(t)
        /\ UNCHANGED lockFile
  /\ Rob(t) /\ Displace(t)
  /\ UNCHANGED crashes

(* The prompt ends, with success, an error or an abort: its events are     *)
(* handed out.                                                             *)
PromptEnds(t) ==
  /\ pc[t] = "prompting"
  /\ pc' = [pc EXCEPT ![t] = "yielding"]
  /\ UNCHANGED <<lockFile, holds, progressVars, active, handle, ghostVars>>

(* A quota error with a model left: the lock is released and tried again   *)
(* without a suspension in between.                                        *)
Fallback(t) ==
  /\ pc[t] = "prompting" /\ attempt[t].model < Candidates[t]
  /\ Enter(t, FileReleased(t), NextModel(attempt[t]))
  /\ Rob(t) /\ Displace(t)
  /\ UNCHANGED crashes

(* A quota error of the last model. *)
Exhausted(t) ==
  /\ pc[t] = "prompting" /\ attempt[t].model = Candidates[t]
  /\ pc' = [pc EXCEPT ![t] = "exhausted"]
  /\ UNCHANGED <<lockFile, holds, progressVars, active, handle, ghostVars>>

(* The normal end of a turn, also of one that used up its profiles. *)
FinishTurn(t) ==
  /\ \/ pc[t] = "yielding"
     \/ pc[t] = "exhausted" /\ attempt[t].profile = Profiles[t]
  /\ lockFile' = FileReleased(t)
  /\ Leave(t)
  /\ Rob(t)
  /\ UNCHANGED <<crashes, displaced>>

(* Fault: the test for a further profile is off by one. *)
RotatePast(t) ==
  /\ pc[t] = "exhausted" /\ attempt[t].profile <= Profiles[t]
  /\ Enter(t, lockFile, NextProfile(attempt[t]))
  /\ Rob(t) /\ Displace(t)
  /\ UNCHANGED crashes

(* The next profile: the attempt is left by a break, which does not        *)
(* release, and the next one finds the file of this one.                   *)
Rotate(t) ==
  /\ pc[t] = "exhausted" /\ attempt[t].profile < Profiles[t]
  /\ Enter(t, lockFile, NextProfile(attempt[t]))
  /\ Rob(t) /\ Displace(t)
  /\ UNCHANGED crashes

(* Fault: a finally clause that releases whatever it finds. *)
ReleaseAnyway(t) ==
  /\ Leave(t)
  /\ lockFile' = NoFile
  /\ robbed' = robbed \ {t}
  /\ UNCHANGED <<crashes, displaced>>
(* The exit without a release: by cancellation, or after a refresh of the  *)
(* Copilot token, whose break ends the outer loop as well.                 *)
ExitWithLock(t) ==
  /\ Leave(t)
  /\ robbed' = robbed \ {t}
  /\ UNCHANGED <<lockFile, crashes, displaced>>

CopilotRefreshed(t) ==
  /\ t \in Copilot /\ pc[t] = "exhausted"
  /\ ExitWithLock(t)

(* CancelledError while the turn waits for the lock, or in an attempt,     *)
(* which then waits for its prompt task or for its generator to be closed. *)
CancelWaiting(t) ==
  /\ t \in Cancellable /\ pc[t] = "waiting"
  /\ ExitWithLock(t)

CancelAttempt(t) ==
  /\ t \in Cancellable /\ pc[t] \in AttemptStates \ {"unwinding"}
  /\ pc' = [pc EXCEPT ![t] = "unwinding"]
  /\ UNCHANGED <<lockFile, holds, progressVars, active, handle, ghostVars>>

Unwound(t) ==
  /\ pc[t] = "unwinding"
  /\ ExitWithLock(t)

-----------------------------------------------------------------------------
(* The process ends; the file stays on disk for the next one. *)
Crash ==
  /\ crashes < MaxCrashes
  /\ \E t \in Turns : Live(t)
  /\ crashes' = crashes + 1
  /\ pc' = [t \in Turns |-> IF Live(t) THEN "over" ELSE pc[t]]
  /\ holds' = {} /\ handle' = {} /\ robbed' = {}
  /\ active' = NoTurn
  /\ waited' = [t \in Turns |-> 0]
  /\ attempt' = [t \in Turns |-> FirstAttempt]
  /\ UNCHANGED <<lockFile, displaced>>

(* Time passes: a lock file ages, a wait grows.  Both stop to matter past  *)
(* their limit.                                                            *)
Older == IF lockFile.owner = NoTurn \/ Stale(lockFile) THEN lockFile.age ELSE lockFile.age + 1
LongerWait(t) == IF pc[t] = "waiting" /\ waited[t] < MaxHold THEN waited[t] + 1 ELSE waited[t]

Tick ==
  /\ lockFile' = [lockFile EXCEPT !.age = Older]
  /\ waited' = [t \in Turns |-> LongerWait(t)]
  /\ <<lockFile, waited>>' # <<lockFile, waited>>
  /\ UNCHANGED <<pc, holds, attempt, active, handle, ghostVars>>

PromptOver(t) == PromptEnds(t) \/ Fallback(t) \/ Exhausted(t)
AttemptOver(t) == FinishTurn(t) \/ Rotate(t) \/ CopilotRefreshed(t)

Next ==
  \/ \E t \in Turns : \/ Begin(t) \/ Poll(t)
                      \/ PromptOver(t) \/ AttemptOver(t)
                      \/ CancelWaiting(t) \/ CancelAttempt(t) \/ Unwound(t)
  \/ Crash
  \/ Tick

(* The event loop polls, closes cancelled turns and hands out results, the *)
(* prompt ends, time passes.  Nobody has to send a message or cancel.      *)
Fairness ==
  /\ \A t \in Turns : /\ WF_vars(Poll(t))
                      /\ WF_vars(PromptOver(t))
                      /\ WF_vars(AttemptOver(t))
                      /\ WF_vars(Unwound(t))
  /\ WF_vars(Tick)

Spec == Init /\ [][Next]_vars /\ Fairness

-----------------------------------------------------------------------------
TypeOK ==
  /\ lockFile \in [owner : Turns \cup {NoTurn}, age : 0..(StaleAge + 1)]
  /\ pc \in [Turns -> {"idle", "waiting", "over"} \cup AttemptStates]
  /\ holds \subseteq Turns /\ handle \subseteq Turns
  /\ waited \in [Turns -> 0..MaxHold]
  /\ DOMAIN attempt = Turns
  /\ \A t \in Turns : attempt[t] \in [profile : 1..Profiles[t], model : 1..Candidates[t]]
  /\ active \in Turns \cup {NoTurn}
  /\ crashes \in 0..MaxCrashes
  /\ robbed \subseteq Turns /\ displaced \subseteq RunIds

(* Two attempts touch the session at once only if one of them went on      *)
(* without the lock at its deadline, or lost its file to a takeover after  *)
(* the stale age: polls, fallbacks, cancelled waits and files left behind  *)
(* by cancelled turns and dead processes never let a second one in.        *)
Unprotected(t) == t \notin holds \/ t \in robbed
AttemptsExclusive ==
  \A t, u \in Turns : t # u /\ InAttempt(t) /\ InAttempt(u) => Unprotected(t) \/ Unprotected(u)

(* What steering, aborting and the routing of messages read is true: an    *)
(* attempt is the registered run unless its run id shared the session with *)
(* another attempt or waited for the lock again, and no finished turn      *)
(* stays registered.                                                       *)
RegistryTruthful ==
  /\ active # NoTurn => Live(active)
  /\ \A t \in Turns : InAttempt(t) /\ RunOf[t] \notin displaced => active = t

(* Every turn comes to its end, whatever file it finds: a dead process's,  *)
(* a cancelled turn's or its own of the attempt before.                    *)
EveryTurnEnds == \A t \in Turns : (pc[t] # "idle") ~> (pc[t] = "over")

(* The comment at the acquisition: the lock is held for the attempt and    *)
(* released at every exit point.                                           *)
LockReleasedAtExit == lockFile.owner # NoTurn => InAttempt(lockFile.owner)
===============================================================================
