---------------------------- MODULE FifoExecutor ----------------------------
(***************************************************************************)
(* What a lane promises its callers: entries start in the order they were  *)
(* submitted, each at most once, at most capacity of them at a time; a     *)
(* caller is answered once, by its own entry or by a rejection of it, or   *)
(* gives up.  No worker, no counters, no generations.                      *)
(***************************************************************************)
EXTENDS Integers, Sequences, FiniteSets

CONSTANTS Lanes, Tasks, Limits

VARIABLES
  waiting,   \* waiting[l]: submitted and not started, in order
  going,     \* going[l]: started and not finished
  capacity,  \* capacity[l]: how many may go at once
  reply      \* reply[t]: what the caller of t sees

vars == <<waiting, going, capacity, reply>>

Final == {"result", "error", "cleared", "abandoned", "refused"}
Reply == {"none", "pending"} \cup Final

Init ==
  /\ waiting = [l \in Lanes |-> <<>>]
  /\ going = [l \in Lanes |-> {}]
  /\ capacity \in [Lanes -> Limits]
  /\ reply = [t \in Tasks |-> "none"]

Submit(l, t) ==
  /\ reply[t] = "none"
  /\ waiting' = [waiting EXCEPT ![l] = Append(@, t)]
  /\ reply' = [reply EXCEPT ![t] = "pending"]
  /\ UNCHANGED <<going, capacity>>

(* Submit that makes room first by forgetting the i-th waiting entry. *)
SubmitDropping(l, t, i) ==
  /\ reply[t] = "none"
  /\ waiting' = [waiting EXCEPT ![l] =
       Append(SubSeq(@, 1, i - 1) \o SubSeq(@, i + 1, Len(@)), t)]
  /\ reply' = [reply EXCEPT ![t] = "pending"]
  /\ UNCHANGED <<going, capacity>>

Refuse(t) ==
  /\ reply[t] = "none"
  /\ reply' = [reply EXCEPT ![t] = "refused"]
  /\ UNCHANGED <<waiting, going, capacity>>

Begin(l) ==
  /\ waiting[l] # <<>>
  /\ Head(waiting[l]) \notin going[l]
  /\ Cardinality(going[l]) < capacity[l]
  /\ going' = [going EXCEPT ![l] = @ \cup {Head(waiting[l])}]
  /\ waiting' = [waiting EXCEPT ![l] = Tail(@)]
  /\ UNCHANGED <<capacity, reply>>

(* The body ends; its caller, if it still waits, is answered or hangs.     *)
Finish(l, t) ==
  /\ t \in going[l]
  /\ going' = [going EXCEPT ![l] = @ \ {t}]
  /\ \E o \in {"result", "error", "pending"} :
       reply' = [reply EXCEPT ![t] = IF @ = "pending" THEN o ELSE @]
  /\ UNCHANGED <<waiting, capacity>>

(* The waiting entries after the first k are rejected. *)
RejectAfter(l, k) ==
  LET rejected == {waiting[l][i] : i \in k + 1 .. Len(waiting[l])} IN
  /\ waiting' = [waiting EXCEPT ![l] = SubSeq(@, 1, k)]
  /\ reply' = [t \in Tasks |-> IF t \in rejected /\ reply[t] = "pending"
                               THEN "cleared" ELSE reply[t]]
  /\ UNCHANGED <<going, capacity>>

GiveUp(t) ==
  /\ reply[t] = "pending"
  /\ reply' = [reply EXCEPT ![t] = "abandoned"]
  /\ UNCHANGED <<waiting, going, capacity>>

Resize(l, n) ==
  /\ capacity' = [capacity EXCEPT ![l] = n]
  /\ UNCHANGED <<waiting, going, reply>>

Next ==
  \/ \E t \in Tasks : Refuse(t) \/ GiveUp(t)
  \/ \E l \in Lanes :
       \/ Begin(l)
       \/ \E t \in Tasks :
            \/ Submit(l, t)
            \/ \E i \in 1..Len(waiting[l]) : SubmitDropping(l, t, i)
            \/ Finish(l, t)
       \/ \E k \in 0..Len(waiting[l]) : RejectAfter(l, k)
       \/ \E n \in Limits : Resize(l, n)

Spec == Init /\ [][Next]_vars
=============================================================================
