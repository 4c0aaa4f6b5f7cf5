------------------------- MODULE HeartbeatWakeProofs -------------------------
(***************************************************************************)
(* Proofs about HeartbeatWake for any targets, window and retry delay.     *)
(***************************************************************************)
EXTENDS HeartbeatWake, TLAPS

Wakes == [Targets -> Priorities \cup {Nothing}]
TimerHandle == [kind : {"none", "normal", "retry"}, left : 0..Retry, delay : 0..Retry]

(* A registered handler with a wake to handle has a timer that will bring  *)
(* it, during a batch as well, and wakes that came before the handler get  *)
(* one when it is registered; and no timer fires with nothing to handle.   *)
TimerExact ==
  /\ handler = "set" /\ SomePending(pending) => timer # NoTimer
  /\ timer # NoTimer => SomePending(pending)

(* The inductive invariant: what the flags say of the timer and the batch. *)
Flags ==
  /\ timer.kind = "none" => timer = NoTimer
  /\ scheduled => timer # NoTimer
  /\ handler = "none" => ~ running
  /\ ~ running => ~ SomePending(batch)

Wake == TypeOK /\ Flags /\ NoUrgencyLost /\ TimerExact

-----------------------------------------------------------------------------
(* The timer and the pending wakes.                                        *)

LEMMA NewTimerFacts ==
  ASSUME NEW delay \in 0..Retry, NEW kind \in {"normal", "retry"}
  PROVE  /\ NewTimer(delay, kind) \in TimerHandle
         /\ NewTimer(delay, kind) # NoTimer /\ NewTimer(delay, kind).kind # "none"
BY DEF NewTimer, NoTimer, TimerHandle

LEMMA NoTimerFacts == NoTimer \in TimerHandle
BY HeartbeatWakeAssumption DEF NoTimer, TimerHandle

LEMMA ScheduledFacts ==
  ASSUME NEW tm \in TimerHandle, tm.kind = "none" => tm = NoTimer,
         NEW delay \in 0..Retry, NEW kind \in {"normal", "retry"}
  PROVE  /\ Scheduled(tm, delay, kind) \in TimerHandle
         /\ Scheduled(tm, delay, kind) # NoTimer
         /\ Scheduled(tm, delay, kind).kind # "none"
BY NewTimerFacts DEF Scheduled

(* A wake that is queued is not weakened, and weakens no other. *)
LEMMA WithWakeFacts ==
  ASSUME pending \in Wakes, NEW t \in Targets, NEW p \in Priorities \cup {Nothing}
  PROVE  /\ WithWake(t, p) \in Wakes
         /\ \A u \in Targets : /\ pending[u] <= WithWake(t, p)[u]
                               /\ u # t => WithWake(t, p)[u] = pending[u]
         /\ p <= WithWake(t, p)[t]
         /\ p # Nothing => WithWake(t, p)[t] # Nothing
         /\ SomePending(pending) \/ p # Nothing => SomePending(WithWake(t, p))
<1>1. /\ WithWake(t, p) \in Wakes
      /\ \A u \in Targets : WithWake(t, p)[u] = IF u = t THEN Merge(pending[t], p) ELSE pending[u]
  BY DEF WithWake, Merge, Wakes
<1>2. /\ \A u \in Targets : pending[u] \in (-1)..3
      /\ p \in (-1)..3
  BY DEF Wakes, Priorities, Nothing, Interval, Default, Action
<1>3. /\ \A u \in Targets : /\ pending[u] <= WithWake(t, p)[u]
                            /\ u # t => WithWake(t, p)[u] = pending[u]
      /\ p <= WithWake(t, p)[t]
      /\ p # Nothing => WithWake(t, p)[t] # Nothing
  BY <1>1, <1>2 DEF Merge, Nothing
<1>4. \A u \in Targets : WithWake(t, p)[u] \in (-1)..3
  BY <1>1, <1>2 DEF Merge
<1>5. SomePending(pending) \/ p # Nothing => SomePending(WithWake(t, p))
  BY <1>2, <1>3, <1>4 DEF SomePending, Nothing
<1> QED BY <1>1, <1>3, <1>5

LEMMA WakeInit == Init => Wake
<1> SUFFICES ASSUME Init PROVE Wake
  OBVIOUS
<1>1. TypeOK
  <2>1. 0 \in 0..Retry /\ Retry \in 0..Retry
    BY HeartbeatWakeAssumption
  <2>2. [t \in Targets |-> Nothing] \in [Targets -> Priorities \cup {Nothing}]
    OBVIOUS
  <2>3. cooled \in [Targets -> 0..Retry]
    BY <2>1 DEF Init
  <2> QED BY <2>1, <2>2, <2>3, NoTimerFacts DEF Init, TypeOK, TimerHandle
<1>2. Flags
  BY DEF Init, Flags, SomePending, NoTimer
<1>3. \A t \in Targets : owed[t] = Nothing /\ pending[t] = Nothing
  BY DEF Init, Nothing
<1>4. NoUrgencyLost
  BY <1>3 DEF NoUrgencyLost, Nothing
<1>5. TimerExact
  BY DEF Init, TimerExact, SomePending
<1> QED BY <1>1, <1>2, <1>4, <1>5 DEF Wake

-----------------------------------------------------------------------------
(* Each step keeps the invariant.                                          *)

LEMMA Ranges ==
  ASSUME TypeOK
  PROVE  /\ pending \in Wakes /\ timer \in TimerHandle
         /\ \A t \in Targets : /\ pending[t] \in (-1)..3 /\ batch[t] \in (-1)..3 /\ owed[t] \in (-1)..3
                               /\ cooled[t] \in 0..Retry
         /\ Priorities \subseteq 1..3
         /\ Coalesce \in 0..Retry /\ Retry \in 0..Retry /\ Retry \in Nat
BY HeartbeatWakeAssumption
   DEF TypeOK, Wakes, TimerHandle, Priorities, Nothing, Interval, Default, Action

LEMMA RequestStep ==
  ASSUME Wake, NEW t \in Targets, NEW p \in Priorities, Request(t, p)
  PROVE  Wake'
<1>1. TypeOK /\ Flags /\ NoUrgencyLost /\ TimerExact
  BY DEF Wake
<1>2. /\ pending' \in Wakes
      /\ \A u \in Targets : pending[u] <= pending'[u]
      /\ p <= pending'[t] /\ SomePending(pending')
  BY <1>1, Ranges, WithWakeFacts DEF Request, Nothing
<1>3. timer' \in TimerHandle /\ timer' # NoTimer /\ timer'.kind # "none"
  BY <1>1, Ranges, ScheduledFacts DEF Request, Flags
<1>4. \A u \in Targets : owed'[u] = IF u = t /\ p > owed[t] THEN p ELSE owed[u]
  BY <1>1 DEF Request, TypeOK
<1>5. TypeOK'
  <2>1. owed' \in [Targets -> Priorities \cup {Nothing}]
    BY <1>1 DEF Request, TypeOK
  <2> QED BY <1>1, <1>2, <1>3, <2>1 DEF Request, TypeOK, Wakes, TimerHandle
<1>6. Flags'
  BY <1>1, <1>3 DEF Request, Flags, SomePending
<1>7. NoUrgencyLost'
  <2> SUFFICES ASSUME NEW u \in Targets PROVE owed'[u] <= pending'[u] \/ owed'[u] <= batch[u]
    BY DEF NoUrgencyLost, Request
  <2>1. /\ pending[u] \in (-1)..3 /\ pending'[u] \in (-1)..3 /\ batch[u] \in (-1)..3 /\ owed[u] \in (-1)..3
        /\ p \in (-1)..3
    BY <1>1, <1>2, Ranges DEF Wakes, Priorities, Nothing, Interval, Default, Action
  <2>2. owed[u] <= pending[u] \/ owed[u] <= batch[u]
    BY <1>1 DEF NoUrgencyLost
  <2> QED BY <1>2, <1>4, <2>1, <2>2
<1>8. TimerExact'
  BY <1>2, <1>3 DEF TimerExact, SomePending
<1> QED BY <1>5, <1>6, <1>7, <1>8 DEF Wake

LEMMA TickStep ==
  ASSUME Wake, Tick
  PROVE  Wake'
<1>1. TypeOK /\ Flags /\ NoUrgencyLost /\ TimerExact
  BY DEF Wake
<1>2. timer' \in TimerHandle /\ (timer' = NoTimer <=> timer = NoTimer) /\ (timer'.kind = "none" <=> timer.kind = "none")
  <2>1. timer \in TimerHandle /\ Retry \in Nat /\ (timer.kind = "none" => timer = NoTimer)
    BY <1>1, Ranges DEF Flags
  <2>2. timer' = [timer EXCEPT !.left = IF timer.left > 0 THEN timer.left - 1 ELSE 0]
    BY DEF Tick
  <2> QED BY <2>1, <2>2 DEF TimerHandle, NoTimer
<1>3. cooled' \in [Targets -> 0..Retry]
  <2>1. \A t \in Targets : (IF cooled[t] < Retry THEN cooled[t] + 1 ELSE Retry) \in 0..Retry
    BY <1>1, Ranges
  <2> QED BY <2>1 DEF Tick
<1>4. TypeOK'
  BY <1>1, <1>2, <1>3 DEF Tick, TypeOK, TimerHandle
<1>5. Flags' /\ NoUrgencyLost' /\ TimerExact'
  BY <1>1, <1>2 DEF Tick, Flags, NoUrgencyLost, TimerExact, SomePending
<1> QED BY <1>4, <1>5 DEF Wake

LEMMA FireStep ==
  ASSUME Wake, FireUnhandled \/ FireWhileRunning \/ FireBatch
  PROVE  Wake'
<1>1. TypeOK /\ Flags /\ NoUrgencyLost /\ TimerExact
  BY DEF Wake
<1>2. CASE FireUnhandled
  <2>1. TypeOK'
    BY <1>1, <1>2, NoTimerFacts DEF FireUnhandled, TypeOK, TimerHandle
  <2> QED BY <1>1, <1>2, <2>1 DEF FireUnhandled, Wake, Flags, NoUrgencyLost, TimerExact, SomePending
<1>3. CASE FireWhileRunning
  <2>1. timer.kind \in {"normal", "retry"} /\ timer.delay \in 0..Retry
    BY <1>1, <1>3, Ranges DEF FireWhileRunning, Due, Flags, TimerHandle
  <2>2. timer' \in TimerHandle /\ timer' # NoTimer /\ timer'.kind # "none"
    BY <1>3, <2>1, NewTimerFacts DEF FireWhileRunning
  <2>3. TypeOK'
    BY <1>1, <1>3, <2>2 DEF FireWhileRunning, TypeOK, TimerHandle
  <2> QED BY <1>1, <1>3, <2>2, <2>3
          DEF FireWhileRunning, Due, Wake, Flags, NoUrgencyLost, TimerExact, SomePending
<1>4. CASE FireBatch
  <2>1. /\ timer' = NoTimer /\ batch' = pending /\ pending' = [t \in Targets |-> Nothing]
        /\ calling' \in Targets /\ pending[calling'] # Nothing /\ owed' = owed
        /\ running' /\ ~ scheduled' /\ handler' = "set" /\ handler = "set" /\ ~ running
    BY <1>4 DEF FireBatch
  <2>2. TypeOK'
    <3>1. calling' # NoTarget
      BY <2>1, HeartbeatWakeAssumption
    <3>2. timer.delay \in 0..Retry
      BY <1>1, Ranges DEF TimerHandle
    <3>3. pending' \in [Targets -> Priorities \cup {Nothing}]
      BY <2>1
    <3> QED BY <1>1, <1>4, <2>1, <3>1, <3>2, <3>3, NoTimerFacts DEF FireBatch, TypeOK, TimerHandle
  <2>3. NoUrgencyLost'
    <3> SUFFICES ASSUME NEW t \in Targets PROVE owed[t] <= pending[t]
      BY <2>1 DEF NoUrgencyLost
    <3>1. batch[t] = Nothing
      BY <1>1, <2>1 DEF Flags, SomePending
    <3>2. owed[t] \in (-1)..3 /\ pending[t] \in (-1)..3
      BY <1>1, Ranges
    <3> QED BY <1>1, <3>1, <3>2 DEF NoUrgencyLost, Nothing
  <2>4. Flags' /\ TimerExact'
    BY <2>1 DEF Flags, TimerExact, SomePending, NoTimer
  <2> QED BY <2>2, <2>3, <2>4 DEF Wake
<1> QED BY <1>2, <1>3, <1>4

LEMMA HandlerReturnsStep ==
  ASSUME Wake, NEW again \in BOOLEAN, HandlerReturns(again)
  PROVE  Wake'
<1> DEFINE t == calling
<1> DEFINE wakes == IF again THEN WithWake(t, batch[t]) ELSE pending
<1> DEFINE tm == IF again THEN Scheduled(timer, Retry, "retry") ELSE timer
<1> DEFINE rest == [batch EXCEPT ![t] = Nothing]
<1>1. TypeOK /\ Flags /\ NoUrgencyLost /\ TimerExact
  BY DEF Wake
<1>2. /\ t # NoTarget /\ pending' = wakes /\ batch' = rest
      /\ owed' = [owed EXCEPT ![t] = IF again THEN owed[t] ELSE pending[t]]
      /\ cooled' = [cooled EXCEPT ![t] = IF again THEN 0 ELSE Retry]
      /\ UNCHANGED <<handler, scheduled, batchDelay>>
      /\ \/ /\ calling' \in Targets /\ rest[calling'] # Nothing
            /\ timer' = tm /\ running' = running
         \/ /\ ~ SomePending(rest)
            /\ calling' = NoTarget /\ timer' = TimerAfterBatch(tm, wakes) /\ running' = FALSE
  <2>1. owed' = [owed EXCEPT ![t] = IF again THEN owed[t] ELSE pending[t]]
    BY DEF HandlerReturns
  <2> QED BY <2>1 DEF HandlerReturns
<1>3. t \in Targets /\ batch[t] \in Priorities /\ running /\ handler # "none"
  BY <1>1, <1>2 DEF TypeOK, Flags
<1>4. /\ wakes \in Wakes
      /\ \A u \in Targets : pending[u] <= wakes[u]
      /\ again => batch[t] <= wakes[t] /\ SomePending(wakes)
      /\ SomePending(pending) => SomePending(wakes)
      /\ ~ again => wakes = pending
  <2>1. CASE again
    <3>1. batch[t] # Nothing
      BY <1>1, <1>2 DEF TypeOK
    <3> QED BY <1>1, <1>3, <2>1, <3>1, Ranges, WithWakeFacts
  <2>2. CASE ~ again
    BY <1>1, <2>2, Ranges
  <2> QED BY <2>1, <2>2
<1>5. /\ tm \in TimerHandle /\ (tm.kind = "none" => tm = NoTimer)
      /\ again => tm # NoTimer
      /\ ~ again => tm = timer
  BY <1>1, Ranges, ScheduledFacts DEF Flags
<1>6. /\ rest \in Wakes
      /\ \A u \in Targets : rest[u] = IF u = t THEN Nothing ELSE batch[u]
  BY <1>1, <1>3 DEF TypeOK, Wakes
<1> HIDE DEF t, wakes, tm, rest
<1>7. /\ scheduled => tm # NoTimer
      /\ handler = "set" /\ SomePending(wakes) => tm # NoTimer
      /\ tm # NoTimer => SomePending(wakes)
  BY <1>1, <1>4, <1>5 DEF Flags, TimerExact
<1>8. /\ timer' \in TimerHandle /\ (timer'.kind = "none" => timer' = NoTimer)
      /\ tm # NoTimer => timer' # NoTimer
      /\ timer' # NoTimer => SomePending(wakes)
  <2>1. CASE timer' = tm
    BY <1>5, <1>7, <2>1
  <2>2. CASE timer' = TimerAfterBatch(tm, wakes)
    <3>1. batchDelay \in 0..Retry
      BY <1>1 DEF TypeOK
    <3>2. /\ Scheduled(tm, batchDelay, "normal") \in TimerHandle
          /\ Scheduled(tm, batchDelay, "normal") # NoTimer
          /\ Scheduled(tm, batchDelay, "normal").kind # "none"
      BY <1>5, <3>1, ScheduledFacts
    <3> QED BY <1>5, <1>7, <2>2, <3>2 DEF TimerAfterBatch
  <2> QED BY <1>2, <2>1, <2>2
<1>9. TypeOK'
  <2>1. owed' \in [Targets -> Priorities \cup {Nothing}] /\ cooled' \in [Targets -> 0..Retry]
    BY <1>1, <1>2, <1>3, Ranges DEF TypeOK
  <2>2. running' \in BOOLEAN /\ (running' <=> calling' # NoTarget)
        /\ calling' \in Targets \cup {NoTarget}
        /\ (calling' # NoTarget => batch'[calling'] # Nothing)
    BY <1>2, <1>3, HeartbeatWakeAssumption
  <2> QED BY <1>1, <1>2, <1>4, <1>6, <1>8, <2>1, <2>2 DEF TypeOK, Wakes, TimerHandle
<1>10. Flags'
  BY <1>1, <1>2, <1>3, <1>7, <1>8 DEF Flags, SomePending
<1>11. NoUrgencyLost'
  <2> SUFFICES ASSUME NEW u \in Targets PROVE owed'[u] <= wakes[u] \/ owed'[u] <= rest[u]
    BY <1>2 DEF NoUrgencyLost
  <2>1. /\ pending[u] \in (-1)..3 /\ batch[u] \in (-1)..3 /\ owed[u] \in (-1)..3 /\ wakes[u] \in (-1)..3
    BY <1>1, <1>4, Ranges DEF Wakes, Priorities, Nothing, Interval, Default, Action
  <2>2. owed[u] <= pending[u] \/ owed[u] <= batch[u]
    BY <1>1 DEF NoUrgencyLost
  <2>3. owed'[u] = IF u = t /\ ~ again THEN pending[t] ELSE owed[u]
    BY <1>1, <1>2 DEF TypeOK
  <2>4. pending[u] <= wakes[u] /\ (u = t /\ again => batch[u] <= wakes[u])
    BY <1>4
  <2>5. u # t => rest[u] = batch[u]
    BY <1>6
  <2> QED BY <2>1, <2>2, <2>3, <2>4, <2>5
<1>12. TimerExact'
  BY <1>2, <1>7, <1>8 DEF TimerExact, SomePending
<1> QED BY <1>9, <1>10, <1>11, <1>12 DEF Wake

LEMMA SetHandlerStep ==
  ASSUME Wake, SetHandler
  PROVE  Wake'
<1>1. TypeOK /\ Flags /\ NoUrgencyLost /\ TimerExact
  BY DEF Wake
<1>2. ~ running /\ running' = FALSE
  BY <1>1 DEF Flags, SetHandler
<1>3. /\ timer' \in TimerHandle /\ (timer'.kind = "none" => timer' = NoTimer)
      /\ timer' # NoTimer <=> SomePending(pending)
  BY <1>1, Ranges, NewTimerFacts, NoTimerFacts DEF SetHandler, TimerAtRegistration
<1>4. TypeOK'
  BY <1>1, <1>2, <1>3 DEF SetHandler, TypeOK, TimerHandle
<1>5. Flags' /\ NoUrgencyLost' /\ TimerExact'
  BY <1>1, <1>2, <1>3 DEF SetHandler, Flags, NoUrgencyLost, TimerExact, SomePending
<1> QED BY <1>4, <1>5 DEF Wake

LEMMA WakeStep == Wake /\ [Next]_vars => Wake'
<1> SUFFICES ASSUME Wake, [Next]_vars PROVE Wake'
  OBVIOUS
<1>1. CASE Dispose
  BY <1>1 DEF Dispose, Wake, TypeOK, Flags, NoUrgencyLost, TimerExact, SomePending
<1>2. CASE UNCHANGED vars
  BY <1>2 DEF vars, Wake, TypeOK, Flags, NoUrgencyLost, TimerExact, SomePending
<1> QED BY <1>1, <1>2, RequestStep, TickStep, FireStep, HandlerReturnsStep, SetHandlerStep DEF Next

LEMMA WakeInvariant == Spec => []Wake
BY WakeInit, WakeStep, PTL DEF Spec

(* The timer, the batch and the wakes keep their types; a batch is handled *)
(* exactly while a call of the handler is in progress.                     *)
THEOREM TypeCorrect == Spec => []TypeOK
<1>1. Wake => TypeOK
  BY DEF Wake
<1> QED BY <1>1, WakeInvariant, PTL

(* A request keeps its priority until a call serves it, through merges and *)
(* retries.                                                                *)
THEOREM NoUrgencyLostCorrect == Spec => []NoUrgencyLost
<1>1. Wake => NoUrgencyLost
  BY DEF Wake
<1> QED BY <1>1, WakeInvariant, PTL

(* A registered handler with a wake to handle has a timer, and no timer    *)
(* runs for nothing.                                                       *)
THEOREM TimerExactCorrect == Spec => []TimerExact
<1>1. Wake => TimerExact
  BY DEF Wake
<1> QED BY <1>1, WakeInvariant, PTL
=============================================================================
