------------------------- MODULE FollowupQueueProofs -------------------------
(***************************************************************************)
(* Proofs about FollowupQueue, without interrupts and turns started        *)
(* elsewhere, for any number of messages, queue objects and channels.      *)
(***************************************************************************)
EXTENDS FollowupQueue, FiniteSetTheorems, TLAPS

-----------------------------------------------------------------------------
(* Sequences of messages, and the order in which they arrived.             *)

Precedes(q, x, y) == \E i, j \in 1..Len(q) : i < j /\ q[i] = x /\ q[j] = y
Once(q) == \A i, j \in 1..Len(q) : q[i] = q[j] => i = j
Sorted(q, s) == \A i, j \in 1..Len(s) : i < j => Precedes(q, s[i], s[j])

LEMMA ToSetMember ==
  ASSUME NEW S, NEW s \in Seq(S), NEW x
  PROVE  x \in ToSet(s) <=> \E i \in 1..Len(s) : s[i] = x
BY DEF ToSet

LEMMA ToSetType ==
  ASSUME NEW S, NEW s \in Seq(S)
  PROVE  ToSet(s) \subseteq S
BY DEF ToSet

LEMMA AppendFacts ==
  ASSUME NEW S, NEW s \in Seq(S), NEW e \in S
  PROVE  /\ Append(s, e) \in Seq(S)
         /\ Len(Append(s, e)) = Len(s) + 1
         /\ \A i \in 1..Len(s) : Append(s, e)[i] = s[i]
         /\ Append(s, e)[Len(s) + 1] = e
         /\ ToSet(Append(s, e)) = ToSet(s) \cup {e}
<1> DEFINE t == Append(s, e)
<1>1. /\ t \in Seq(S) /\ Len(t) = Len(s) + 1
      /\ \A i \in 1..Len(s) : t[i] = s[i]
      /\ t[Len(s) + 1] = e
  OBVIOUS
<1> HIDE DEF t
<1>2. Len(s) \in Nat
  OBVIOUS
<1>3. ASSUME NEW x \in ToSet(t) PROVE x \in ToSet(s) \cup {e}
  <2>1. PICK i \in 1..Len(t) : t[i] = x
    BY <1>1, ToSetMember
  <2>2. CASE i = Len(s) + 1
    BY <2>1, <2>2, <1>1
  <2>3. CASE i # Len(s) + 1
    <3>1. i \in 1..Len(s)
      BY <1>1, <1>2, <2>3
    <3> QED BY <3>1, <2>1, <1>1, ToSetMember
  <2> QED BY <2>2, <2>3
<1>4. ASSUME NEW x \in ToSet(s) PROVE x \in ToSet(t)
  <2>1. PICK i \in 1..Len(s) : s[i] = x
    BY ToSetMember
  <2>2. i \in 1..Len(t) /\ t[i] = x
    BY <1>1, <1>2, <2>1
  <2> QED BY <1>1, <2>2, ToSetMember
<1>5. e \in ToSet(t)
  <2>1. Len(s) + 1 \in 1..Len(t)
    BY <1>1, <1>2
  <2> QED BY <1>1, <2>1, ToSetMember
<1>6. ToSet(t) = ToSet(s) \cup {e}
  BY <1>3, <1>4, <1>5
<1> QED BY <1>1, <1>6 DEF t

LEMMA TailFacts ==
  ASSUME NEW S, NEW s \in Seq(S), s # <<>>
  PROVE  /\ Head(s) \in S /\ Tail(s) \in Seq(S)
         /\ Len(s) \in Nat \ {0} /\ Len(Tail(s)) = Len(s) - 1
         /\ Head(s) = s[1]
         /\ \A i \in 1..Len(Tail(s)) : Tail(s)[i] = s[i + 1]
         /\ ToSet(s) = {Head(s)} \cup ToSet(Tail(s))
<1> DEFINE t == Tail(s)
<1>1. /\ Head(s) \in S /\ t \in Seq(S)
      /\ Len(s) \in Nat \ {0} /\ Len(t) = Len(s) - 1
      /\ Head(s) = s[1]
      /\ \A i \in 1..Len(t) : t[i] = s[i + 1]
  OBVIOUS
<1> HIDE DEF t
<1>2. ASSUME NEW x \in ToSet(s), x # Head(s) PROVE x \in ToSet(t)
  <2>1. PICK i \in 1..Len(s) : s[i] = x
    BY ToSetMember
  <2>2. i # 1
    BY <1>1, <1>2, <2>1
  <2>3. i - 1 \in 1..Len(t) /\ t[i - 1] = s[(i - 1) + 1] /\ (i - 1) + 1 = i
    BY <1>1, <2>2
  <2>4. t[i - 1] = x
    BY <2>1, <2>3
  <2> QED BY <1>1, <2>3, <2>4, ToSetMember
<1>3. ASSUME NEW x \in ToSet(t) PROVE x \in ToSet(s)
  <2>1. PICK i \in 1..Len(t) : t[i] = x
    BY <1>1, ToSetMember
  <2>2. i + 1 \in 1..Len(s) /\ s[i + 1] = x
    BY <1>1, <2>1
  <2> QED BY <2>2, ToSetMember
<1>4. Head(s) \in ToSet(s)
  <2>1. 1 \in 1..Len(s)
    BY <1>1
  <2> QED BY <1>1, <2>1, ToSetMember
<1>5. ToSet(s) = {Head(s)} \cup ToSet(t)
  BY <1>2, <1>3, <1>4
<1> QED BY <1>1, <1>5 DEF t

LEMMA PrecedesFacts ==
  ASSUME NEW S, NEW q \in Seq(S), NEW x, NEW y, Precedes(q, x, y)
  PROVE  /\ x \in ToSet(q) /\ y \in ToSet(q)
         /\ Once(q) => ~ Precedes(q, y, x)
<1>1. PICK i, j \in 1..Len(q) : i < j /\ q[i] = x /\ q[j] = y
  BY DEF Precedes
<1>2. x \in ToSet(q) /\ y \in ToSet(q)
  BY <1>1, ToSetMember
<1>3. ASSUME Once(q), NEW k \in 1..Len(q), NEW l \in 1..Len(q), q[k] = y, q[l] = x
      PROVE  ~ k < l
  <2>1. k = j /\ l = i
    BY <1>1, <1>3 DEF Once
  <2> QED BY <1>1, <2>1
<1> QED BY <1>2, <1>3 DEF Precedes

(* A message that arrives comes after all that are there. *)
LEMMA PrecedesAppend ==
  ASSUME NEW S, NEW q \in Seq(S), NEW m \in S, NEW x, NEW y
  PROVE  Precedes(Append(q, m), x, y) <=> Precedes(q, x, y) \/ (x \in ToSet(q) /\ y = m)
<1> DEFINE p == Append(q, m)
<1>1. /\ Len(p) = Len(q) + 1 /\ Len(q) \in Nat
      /\ \A i \in 1..Len(q) : p[i] = q[i]
      /\ p[Len(q) + 1] = m
  BY AppendFacts
<1> HIDE DEF p
<1>2. ASSUME NEW i \in 1..Len(p), NEW j \in 1..Len(p), i < j, p[i] = x, p[j] = y
      PROVE  Precedes(q, x, y) \/ (x \in ToSet(q) /\ y = m)
  <2>1. i \in 1..Len(q) /\ q[i] = x
    BY <1>1, <1>2
  <2>2. CASE j \in 1..Len(q)
    BY <1>1, <1>2, <2>1, <2>2 DEF Precedes
  <2>3. CASE j = Len(q) + 1
    BY <1>1, <1>2, <2>1, <2>3, ToSetMember
  <2> QED BY <1>1, <2>2, <2>3
<1>3. ASSUME Precedes(q, x, y) PROVE Precedes(p, x, y)
  <2>1. PICK i, j \in 1..Len(q) : i < j /\ q[i] = x /\ q[j] = y
    BY <1>3 DEF Precedes
  <2>2. i \in 1..Len(p) /\ j \in 1..Len(p) /\ p[i] = x /\ p[j] = y
    BY <1>1, <2>1
  <2> QED BY <2>1, <2>2 DEF Precedes
<1>4. ASSUME x \in ToSet(q), y = m PROVE Precedes(p, x, y)
  <2>1. PICK i \in 1..Len(q) : q[i] = x
    BY <1>4, ToSetMember
  <2>2. i \in 1..Len(p) /\ Len(q) + 1 \in 1..Len(p) /\ i < Len(q) + 1 /\ p[i] = x
    BY <1>1, <2>1
  <2> QED BY <1>1, <1>4, <2>2 DEF Precedes
<1>5. Precedes(p, x, y) => Precedes(q, x, y) \/ (x \in ToSet(q) /\ y = m)
  BY <1>2 DEF Precedes
<1> QED BY <1>3, <1>4, <1>5 DEF p

LEMMA OnceAppend ==
  ASSUME NEW S, NEW q \in Seq(S), NEW m \in S, Once(q), m \notin ToSet(q)
  PROVE  Once(Append(q, m))
<1> DEFINE p == Append(q, m)
<1>1. /\ Len(p) = Len(q) + 1 /\ Len(q) \in Nat
      /\ \A i \in 1..Len(q) : p[i] = q[i]
      /\ p[Len(q) + 1] = m
  BY AppendFacts
<1> HIDE DEF p
<1>2. \A i \in 1..Len(q) : p[i] # m
  BY <1>1, ToSetMember
<1>3. ASSUME NEW i \in 1..Len(p), NEW j \in 1..Len(p), p[i] = p[j]
      PROVE  i = j
  <2>1. CASE i \in 1..Len(q) /\ j \in 1..Len(q)
    BY <1>1, <1>3, <2>1 DEF Once
  <2>2. CASE i = Len(q) + 1 \/ j = Len(q) + 1
    BY <1>1, <1>2, <1>3, <2>2
  <2> QED BY <1>1, <2>1, <2>2
<1>4. Once(p)
  BY <1>3 DEF Once
<1> QED BY <1>4 DEF p

LEMMA SortedTail ==
  ASSUME NEW S, NEW s \in Seq(S), s # <<>>, NEW q, Sorted(q, s)
  PROVE  /\ Sorted(q, Tail(s))
         /\ \A x \in ToSet(Tail(s)) : Precedes(q, Head(s), x)
<1> DEFINE t == Tail(s)
<1>1. /\ t \in Seq(S) /\ Len(s) \in Nat \ {0} /\ Len(t) = Len(s) - 1
      /\ Head(s) = s[1]
      /\ \A i \in 1..Len(t) : t[i] = s[i + 1]
  BY TailFacts
<1> HIDE DEF t
<1>2. \A i \in 1..Len(t) : i + 1 \in 1..Len(s) /\ 1 < i + 1 /\ 1 \in 1..Len(s)
  BY <1>1
<1>3. ASSUME NEW i \in 1..Len(t), NEW j \in 1..Len(t), i < j
      PROVE  Precedes(q, t[i], t[j])
  <2>1. i + 1 < j + 1
    BY <1>1, <1>3
  <2> QED BY <1>1, <1>2, <2>1 DEF Sorted
<1>4. ASSUME NEW x \in ToSet(t) PROVE Precedes(q, Head(s), x)
  <2>1. PICK i \in 1..Len(t) : t[i] = x
    BY <1>1, ToSetMember
  <2> QED BY <1>1, <1>2, <2>1 DEF Sorted
<1>5. Sorted(q, t)
  BY <1>3 DEF Sorted
<1> QED BY <1>4, <1>5 DEF t

LEMMA SortedAppend ==
  ASSUME NEW S, NEW s \in Seq(S), NEW q \in Seq(S), NEW m \in S,
         Sorted(q, s)
  PROVE  /\ Sorted(Append(q, m), s)
         /\ ToSet(s) \subseteq ToSet(q) => Sorted(Append(q, m), Append(s, m))
<1> DEFINE t == Append(s, m)
<1> DEFINE p == Append(q, m)
<1>1. /\ Len(t) = Len(s) + 1 /\ Len(s) \in Nat
      /\ \A i \in 1..Len(s) : t[i] = s[i]
      /\ t[Len(s) + 1] = m
  BY AppendFacts
<1>2. \A x, y : Precedes(p, x, y) <=> Precedes(q, x, y) \/ (x \in ToSet(q) /\ y = m)
  BY PrecedesAppend
<1> HIDE DEF t, p
<1>3. Sorted(p, s)
  BY <1>2 DEF Sorted
<1>4. ASSUME ToSet(s) \subseteq ToSet(q),
             NEW i \in 1..Len(t), NEW j \in 1..Len(t), i < j
      PROVE  Precedes(p, t[i], t[j])
  <2>1. i \in 1..Len(s) /\ t[i] = s[i]
    BY <1>1, <1>4
  <2>2. CASE j \in 1..Len(s)
    BY <1>1, <1>3, <1>4, <2>1, <2>2 DEF Sorted
  <2>3. CASE j = Len(s) + 1
    <3>1. t[i] \in ToSet(q)
      BY <1>4, <2>1, ToSetMember
    <3> QED BY <1>1, <1>2, <2>3, <3>1
  <2> QED BY <1>1, <2>2, <2>3
<1>5. ToSet(s) \subseteq ToSet(q) => Sorted(p, t)
  BY <1>4 DEF Sorted
<1> QED BY <1>3, <1>5 DEF t, p

-----------------------------------------------------------------------------
(* The inductive invariant.  Attached: the drain task works on the queue   *)
(* of the dictionary, an object that is not there is empty, and a drain    *)
(* that waits for its window to end will find a message to run.            *)
Attached ==
  /\ registered \notin fresh
  /\ \A o \in Objects :
       /\ drain[o] # "none" => registered = o
       /\ registered # o => items[o] = <<>> /\ summary[o] = {}
       /\ items[o] = <<>> => summary[o] = {}
       /\ drain[o] = "debounce" => items[o] # <<>>

(* A message waits for its prompt exactly as long as a queue holds it.     *)
Held(m) == \E o \in Objects : Holds(o, m)
Carried ==
  \A m \in Messages :
    /\ prompts[m] \in {0, 1}
    /\ prompts[m] = 0 <=> msg[m] = "new" \/ Held(m)
    /\ Held(m) => Accepted(m)

(* What waits is sorted by arrival, and the dropped messages of a queue    *)
(* are older than what is left in it.                                      *)
QueueSorted(o) ==
  /\ Sorted(order, items[o])
  /\ \A m \in ToSet(items[o]) : msg[m] = "queued"
  /\ \A x \in summary[o], y \in ToSet(items[o]) :
       msg[x] = "queued" => Precedes(order, x, y)

Served ==
  \A x, y \in Messages :
    Precedes(order, x, y) /\ msg[x] = "queued" /\ msg[y] = "queued" /\ prompts[y] > 0
      => prompts[x] > 0

InOrder ==
  /\ Once(order)
  /\ \A m \in Messages : m \in ToSet(order) <=> Accepted(m)
  /\ \A o \in Objects : QueueSorted(o)
  /\ Served

Queue == TypeOK /\ Attached /\ Carried /\ InOrder

LEMMA QueueInit == Init => Queue
<1> SUFFICES ASSUME Init PROVE Queue
  OBVIOUS
<1>1. TypeOK
  BY FollowupAssumption DEF Init, TypeOK, Runs
<1>2. Attached
  BY FollowupAssumption DEF Init, Attached
<1>3. ToSet(<<>>) = {}
  BY DEF ToSet
<1>4. Carried
  BY <1>3 DEF Init, Carried, Held, Holds
<1>5. \A x, y : ~ Precedes(order, x, y)
  BY DEF Init, Precedes
<1>6. InOrder
  BY <1>3, <1>5 DEF Init, InOrder, QueueSorted, Served, Once, Sorted, Accepted
<1> QED BY <1>1, <1>2, <1>4, <1>6 DEF Queue

-----------------------------------------------------------------------------
(* Steps that leave the queues and their order alone.                      *)

LEMMA HeldType ==
  ASSUME TypeOK, NEW o \in Objects
  PROVE  ToSet(items[o]) \subseteq Messages /\ summary[o] \subseteq Messages
BY ToSetType DEF TypeOK

(* A message that comes to the agent at once. *)
LEMMA PromptedAtOnce ==
  ASSUME Queue, NEW m \in Messages, msg[m] = "new", NEW fate \in {"starting", "steered"},
         msg' = [msg EXCEPT ![m] = fate], Prompted({m}),
         UNCHANGED <<queueVars, drainVars, foreignRun, cleared, order>>, active' = active
  PROVE  Queue'
<1>1. \A n \in Messages : prompts'[n] = IF n = m THEN prompts[n] + 1 ELSE prompts[n]
  BY DEF Queue, TypeOK, Prompted
<1>2. \A n \in Messages : msg'[n] = IF n = m THEN fate ELSE msg[n]
  BY DEF Queue, TypeOK
<1>3. TypeOK'
  <2>1. prompts' \in [Messages -> Nat]
    BY DEF Queue, TypeOK, Prompted
  <2> QED BY <2>1 DEF Queue, TypeOK, queueVars, drainVars
<1>4. Attached'
  BY DEF Queue, Attached, queueVars, drainVars
<1>5. \A n \in Messages : (Held(n)' <=> Held(n)) /\ (Accepted(n)' <=> Accepted(n))
  BY <1>2 DEF Held, Holds, Accepted, queueVars
<1>6. Carried'
  BY <1>1, <1>2, <1>5 DEF Queue, Carried, Accepted
<1>7. InOrder'
  <2>1. \A o \in Objects : QueueSorted(o)'
    BY <1>2, HeldType DEF Queue, InOrder, QueueSorted, queueVars
  <2>2. Served'
    BY <1>1, <1>2 DEF Queue, InOrder, Served, TypeOK
  <2> QED BY <1>5, <2>1, <2>2 DEF Queue, InOrder
<1> QED BY <1>3, <1>4, <1>6, <1>7 DEF Queue

(* A turn that goes on. *)
LEMMA TurnGoesOn ==
  ASSUME Queue, NEW m \in Messages, ~ Accepted(m), msg[m] # "new",
         NEW stage \in {"active", "delivering", "done"},
         msg' = [msg EXCEPT ![m] = stage], UNCHANGED <<queueVars, ghostVars>>
  PROVE  Carried' /\ InOrder'
<1>1. \A n \in Messages : msg'[n] = IF n = m THEN stage ELSE msg[n]
  BY DEF Queue, TypeOK
<1>2. \A n \in Messages : /\ (Held(n)' <=> Held(n)) /\ (Accepted(n)' <=> Accepted(n))
                          /\ (msg'[n] = "new" <=> msg[n] = "new")
                          /\ (msg'[n] = "queued" <=> msg[n] = "queued")
  BY <1>1 DEF Held, Holds, Accepted, queueVars
<1>3. Carried'
  BY <1>2 DEF Queue, Carried, ghostVars
<1>4. \A o \in Objects : QueueSorted(o)'
  BY <1>2, HeldType DEF Queue, InOrder, QueueSorted, queueVars, ghostVars
<1>5. Served'
  BY <1>2 DEF Queue, InOrder, Served, ghostVars
<1>6. InOrder'
  BY <1>2, <1>4, <1>5 DEF Queue, InOrder, ghostVars
<1> QED BY <1>3, <1>6

LEMMA RegisterStep ==
  ASSUME Queue, NEW m \in Messages, Register(m)
  PROVE  Queue'
<1>1. TypeOK'
  BY DEF Queue, TypeOK, Register, queueVars, drainVars, ghostVars, Runs
<1>2. Attached'
  BY DEF Queue, Attached, Register, queueVars, drainVars
<1>3. Carried' /\ InOrder'
  BY TurnGoesOn DEF Register, Accepted
<1> QED BY <1>1, <1>2, <1>3 DEF Queue

LEMMA TurnEndsStep ==
  ASSUME Queue, NEW m \in Messages, TurnEnds(m)
  PROVE  Queue'
<1>1. TypeOK'
  BY DEF Queue, TypeOK, TurnEnds, Deregister, queueVars, drainVars, ghostVars
<1>2. Attached'
  BY DEF Queue, Attached, TurnEnds, queueVars, drainVars
<1>3. Carried' /\ InOrder'
  BY TurnGoesOn DEF TurnEnds, Accepted
<1> QED BY <1>1, <1>2, <1>3 DEF Queue

LEMMA FinalizeStep ==
  ASSUME Queue, NEW m \in Messages, Finalize(m)
  PROVE  Queue'
<1>1. /\ draining' \in [Objects -> BOOLEAN]
      /\ drain' \in [Objects -> {"none", "debounce", "starting", "running", "delivering"}]
      /\ \A o \in Objects : /\ draining'[o] <=> drain'[o] # "none"
                            /\ drain'[o] # "none" => registered = o
                            /\ drain'[o] = "debounce" => items[o] # <<>>
  <2>1. CASE registered # NoObject /\ items[registered] # <<>> /\ ~ draining[registered]
    <3>1. /\ registered \in Objects
          /\ draining' = [draining EXCEPT ![registered] = TRUE]
          /\ drain' = [drain EXCEPT ![registered] = "debounce"]
      BY <2>1 DEF Queue, TypeOK, Finalize, ScheduleDrain
    <3> QED BY <2>1, <3>1 DEF Queue, TypeOK, Attached
  <2>2. CASE ~ (registered # NoObject /\ items[registered] # <<>> /\ ~ draining[registered])
    <3>1. draining' = draining /\ drain' = drain
      BY <2>2 DEF Finalize, ScheduleDrain
    <3> QED BY <3>1 DEF Queue, TypeOK, Attached
  <2> QED BY <2>1, <2>2
<1>2. TypeOK'
  BY <1>1 DEF Queue, TypeOK, Finalize, queueVars, ghostVars
<1>3. Attached'
  BY <1>1 DEF Queue, Attached, Finalize, queueVars
<1>4. Carried' /\ InOrder'
  BY TurnGoesOn DEF Finalize, Accepted
<1> QED BY <1>2, <1>3, <1>4 DEF Queue

(* A drain task that goes on, or ends with an empty queue. *)
LEMMA DrainGoesOn ==
  ASSUME Queue, UNCHANGED <<items, summary, msg, ghostVars>>
  PROVE  Carried' /\ InOrder'
BY DEF Queue, Carried, Held, Holds, Accepted, InOrder, QueueSorted, Served, ghostVars

LEMMA FollowupRegistersStep ==
  ASSUME Queue, NEW o \in Objects, FollowupRegisters(o)
  PROVE  Queue'
<1>1. TypeOK'
  BY DEF Queue, TypeOK, FollowupRegisters, queueVars, ghostVars, Runs
<1>2. Attached'
  BY DEF Queue, TypeOK, Attached, FollowupRegisters, queueVars
<1>3. Carried' /\ InOrder'
  BY DrainGoesOn DEF FollowupRegisters, queueVars
<1> QED BY <1>1, <1>2, <1>3 DEF Queue

LEMMA FollowupTurnEndsStep ==
  ASSUME Queue, NEW o \in Objects, FollowupTurnEnds(o)
  PROVE  Queue'
<1>1. TypeOK'
  BY DEF Queue, TypeOK, FollowupTurnEnds, Deregister, queueVars, ghostVars
<1>2. Attached'
  BY DEF Queue, TypeOK, Attached, FollowupTurnEnds, queueVars
<1>3. Carried' /\ InOrder'
  BY DrainGoesOn DEF FollowupTurnEnds, queueVars
<1> QED BY <1>1, <1>2, <1>3 DEF Queue

LEMMA FollowupReturnsStep ==
  ASSUME Queue, NEW o \in Objects, NEW cancelled \in BOOLEAN, FollowupReturns(o, cancelled)
  PROVE  Queue'
<1>1. registered = o /\ o \notin fresh /\ NoObject \notin Objects /\ draining[o]
  BY FollowupAssumption DEF Queue, TypeOK, Attached, FollowupReturns
<1>2. /\ draining' \in [Objects -> BOOLEAN]
      /\ drain' \in [Objects -> {"none", "debounce", "starting", "running", "delivering"}]
      /\ \A x \in Objects : draining'[x] <=> drain'[x] # "none"
      /\ \A x \in Objects \ {o} : drain'[x] = drain[x]
      /\ drain'[o] = "debounce" => items[o] # <<>>
      /\ fresh' = fresh /\ mode' = mode
      /\ \/ registered' = o
         \/ registered' = NoObject /\ drain'[o] = "none" /\ items[o] = <<>> /\ summary[o] = {}
  <2>1. CASE ~ cancelled /\ (items[o] # <<>> \/ summary[o] # {})
    <3>1. /\ drain' = [drain EXCEPT ![o] = "debounce"] /\ draining' = draining
          /\ registered' = registered /\ fresh' = fresh /\ mode' = mode
      BY <2>1 DEF FollowupReturns
    <3>2. items[o] # <<>>
      BY <2>1 DEF Queue, Attached
    <3> QED BY <1>1, <3>1, <3>2 DEF Queue, TypeOK
  <2>2. CASE ~ (~ cancelled /\ (items[o] # <<>> \/ summary[o] # {})) /\ items[o] # <<>>
    BY <1>1, <2>2 DEF Queue, TypeOK, FollowupReturns, DrainExits
  <2>3. CASE ~ (~ cancelled /\ (items[o] # <<>> \/ summary[o] # {})) /\ items[o] = <<>>
    <3>1. /\ drain' = [drain EXCEPT ![o] = "none"] /\ draining' = [draining EXCEPT ![o] = FALSE]
          /\ registered' = IF summary[o] = {} THEN NoObject ELSE registered
          /\ fresh' = fresh /\ mode' = mode
      BY <2>3 DEF FollowupReturns, DrainExits
    <3> QED BY <1>1, <2>3, <3>1 DEF Queue, TypeOK
  <2> QED BY <2>1, <2>2, <2>3
<1>3. TypeOK'
  <2>1. batch' \in [Objects -> SUBSET Messages]
    BY DEF Queue, TypeOK, FollowupReturns
  <2> QED BY <1>2, <2>1 DEF Queue, TypeOK, FollowupReturns, ghostVars
<1>4. Attached'
  <2>1. NoObject \notin fresh
    BY <1>1 DEF Queue, TypeOK
  <2> QED BY <1>1, <1>2, <2>1 DEF Queue, Attached, FollowupReturns
<1>5. Carried' /\ InOrder'
  BY DrainGoesOn DEF FollowupReturns
<1> QED BY <1>3, <1>4, <1>5 DEF Queue

-----------------------------------------------------------------------------
(* A message enters the queue: what holds of the new contents.             *)

LEMMA MessageTaken ==
  ASSUME Queue, NEW m \in Messages, msg[m] = "new", NEW o \in Objects,
         NEW r \in Seq(Messages), NEW s \in SUBSET Messages, NEW fate \in {"queued", "refused"},
         items' = [items EXCEPT ![o] = r], summary' = [summary EXCEPT ![o] = s],
         \A x \in Objects \ {o} : items[x] = <<>> /\ summary[x] = {},
         msg' = [msg EXCEPT ![m] = fate], order' = Append(order, m), prompts' = prompts,
         ToSet(r) \cup s = ToSet(items[o]) \cup summary[o] \cup {m},
         Sorted(order', r),
         \A y \in ToSet(r) : msg'[y] = "queued",
         \A x \in s, y \in ToSet(r) : msg'[x] = "queued" => Precedes(order', x, y)
  PROVE  Carried' /\ InOrder'
<1>1. \A n \in Messages : msg'[n] = IF n = m THEN fate ELSE msg[n]
  BY DEF Queue, TypeOK
<1>2. ToSet(<<>>) = {} /\ \A q : Sorted(q, <<>>)
  BY DEF ToSet, Sorted
<1>3. \A x \in Objects : items'[x] = (IF x = o THEN r ELSE <<>>) /\ summary'[x] = IF x = o THEN s ELSE {}
  <2>1. items \in [Objects -> Seq(Messages)] /\ summary \in [Objects -> SUBSET Messages]
    BY DEF Queue, TypeOK
  <2>2. \A x \in Objects : /\ items'[x] = IF x = o THEN r ELSE items[x]
                           /\ summary'[x] = IF x = o THEN s ELSE summary[x]
    BY <2>1
  <2> QED BY <2>2
<1>4. /\ \A n \in Messages : Held(n)' <=> Held(n) \/ n = m
      /\ \A n \in Messages : Accepted(n)' <=> Accepted(n) \/ n = m
  <2>1. \A n \in Messages : Held(n) <=> n \in ToSet(items[o]) \cup summary[o]
    BY <1>2 DEF Held, Holds
  <2>2. \A n \in Messages : Held(n)' <=> n \in ToSet(r) \cup s
    BY <1>2, <1>3 DEF Held, Holds
  <2> QED BY <1>1, <2>1, <2>2 DEF Accepted
<1>5. prompts[m] = 0 /\ ~ Accepted(m)
  BY DEF Queue, Carried, Accepted
<1>6. Carried'
  BY <1>1, <1>4, <1>5 DEF Queue, Carried
<1>7. /\ order \in Seq(Messages) /\ Once(order) /\ m \notin ToSet(order)
      /\ ToSet(order') = ToSet(order) \cup {m}
  BY <1>5, AppendFacts DEF Queue, TypeOK, InOrder
<1>8. Once(order)'
  BY <1>7, OnceAppend
<1>9. \A x \in Objects : QueueSorted(x)'
  BY <1>2, <1>3 DEF QueueSorted
<1>10. Served'
  <2> SUFFICES ASSUME NEW x \in Messages, NEW y \in Messages, Precedes(order', x, y),
                      msg'[x] = "queued", msg'[y] = "queued", prompts[y] > 0
               PROVE  prompts[x] > 0
    BY DEF Served
  <2>1. y # m
    BY <1>5
  <2>2. Precedes(order, x, y)
    BY <1>7, <2>1, PrecedesAppend
  <2>3. x # m
    BY <1>7, <2>2, PrecedesFacts
  <2> QED BY <1>1, <2>1, <2>2, <2>3 DEF Queue, InOrder, Served
<1>11. InOrder'
  BY <1>4, <1>7, <1>8, <1>9, <1>10 DEF Queue, InOrder
<1> QED BY <1>6, <1>11

LEMMA EnqueueStep ==
  ASSUME Queue, NEW m \in Messages, NEW md \in Modes, NEW policy \in Policies,
         Enqueue(m, md, policy)
  PROVE  Queue'
<1> DEFINE o == IF registered = NoObject THEN CHOOSE x \in fresh : TRUE ELSE registered
<1> DEFINE full == AtCap(o)
<1>1. /\ o \in Objects /\ o # NoObject
      /\ registered = NoObject \/ registered = o
      /\ registered' = o /\ fresh' = fresh \ {o}
  BY FollowupAssumption DEF Enqueue, Queue, TypeOK
<1>2. /\ mode' = [mode EXCEPT ![o] = md]
      /\ msg[m] = "new" /\ order' = Append(order, m) /\ prompts' = prompts
      /\ msg' = [msg EXCEPT ![m] = IF full /\ policy = "new" THEN "refused" ELSE "queued"]
      /\ UNCHANGED <<drainVars, active, foreignRun, cleared>>
  BY DEF Enqueue
<1>3. /\ ~ full => items' = [items EXCEPT ![o] = Append(items[o], m)] /\ summary' = summary
      /\ full /\ policy = "new" => summary' = [summary EXCEPT ![o] = summary[o] \cup {m}] /\ items' = items
      /\ full /\ policy # "new" =>
           /\ summary' = [summary EXCEPT ![o] = summary[o] \cup {Head(items[o])}]
           /\ items' = [items EXCEPT ![o] = Append(Tail(items[o]), m)]
  BY <1>1 DEF Enqueue, InLine, Summarized, Queue, TypeOK
<1>4. full <=> Len(items[o]) >= Cap
  BY DEF AtCap
<1> HIDE DEF o, full
<1>5. \A x \in Objects \ {o} : items[x] = <<>> /\ summary[x] = {}
  BY <1>1, FollowupAssumption DEF Queue, Attached
<1>6. /\ items[o] \in Seq(Messages) /\ summary[o] \subseteq Messages
      /\ Len(items[o]) <= Cap /\ Cap \in Nat \ {0} /\ Len(items[o]) \in Nat
      /\ order \in Seq(Messages)
  BY <1>1, FollowupAssumption DEF Queue, TypeOK
<1>7. /\ ToSet(items[o]) \subseteq ToSet(order) /\ summary[o] \subseteq ToSet(order)
      /\ m \notin ToSet(order)
      /\ ToSet(items[o]) \subseteq Messages
      /\ QueueSorted(o)
  <2>1. ToSet(items[o]) \subseteq Messages
    BY <1>6, ToSetType
  <2>2. \A n \in ToSet(items[o]) \cup summary[o] : n \in Messages /\ Held(n)
    BY <1>1, <1>6, <2>1 DEF Held, Holds
  <2>3. \A n \in Messages : Held(n) => n \in ToSet(order)
    BY DEF Queue, Carried, InOrder
  <2>4. m \notin ToSet(order)
    BY <1>2 DEF Queue, InOrder, Accepted
  <2> QED BY <1>1, <2>1, <2>2, <2>3, <2>4 DEF Queue, InOrder
<1>8. \A x, y : Precedes(order', x, y) <=> Precedes(order, x, y) \/ (x \in ToSet(order) /\ y = m)
  BY <1>2, <1>6, PrecedesAppend
<1>9. \A n \in Messages : n # m => msg'[n] = msg[n]
  BY <1>2 DEF Queue, TypeOK
<1>10. msg'[m] = IF full /\ policy = "new" THEN "refused" ELSE "queued"
  BY <1>2 DEF Queue, TypeOK
<1>11. PICK r \in Seq(Messages), s \in SUBSET Messages :
         /\ items' = [items EXCEPT ![o] = r] /\ summary' = [summary EXCEPT ![o] = s]
         /\ Len(r) <= Cap /\ r # <<>>
         /\ ToSet(r) \cup s = ToSet(items[o]) \cup summary[o] \cup {m}
         /\ Sorted(order', r)
         /\ \A y \in ToSet(r) : msg'[y] = "queued"
         /\ \A x \in s, y \in ToSet(r) : msg'[x] = "queued" => Precedes(order', x, y)
  <2>1. CASE ~ full
    <3> DEFINE r == Append(items[o], m)
    <3>1. /\ r \in Seq(Messages) /\ Len(r) = Len(items[o]) + 1
          /\ ToSet(r) = ToSet(items[o]) \cup {m}
      BY <1>6, AppendFacts
    <3>2. Sorted(order', r)
      BY <1>2, <1>6, <1>7, SortedAppend DEF QueueSorted
    <3>3. items' = [items EXCEPT ![o] = r] /\ summary' = [summary EXCEPT ![o] = summary[o]]
      BY <1>3, <2>1 DEF Queue, TypeOK
    <3> HIDE DEF r
    <3>4. Len(r) <= Cap
      BY <1>4, <1>6, <2>1, <3>1
    <3>5. \A y \in ToSet(r) : msg'[y] = "queued"
      BY <1>7, <1>9, <1>10, <2>1, <3>1 DEF QueueSorted
    <3>6. \A x \in summary[o], y \in ToSet(r) : msg'[x] = "queued" => Precedes(order', x, y)
      BY <1>6, <1>7, <1>8, <1>9, <3>1 DEF QueueSorted
    <3>7. r # <<>>
      BY <1>6, <3>1
    <3> QED BY <1>6, <3>1, <3>2, <3>3, <3>4, <3>5, <3>6, <3>7
  <2>2. CASE full /\ policy = "new"
    <3> DEFINE s == summary[o] \cup {m}
    <3>1. items' = [items EXCEPT ![o] = items[o]] /\ summary' = [summary EXCEPT ![o] = s]
      BY <1>3, <2>2 DEF Queue, TypeOK
    <3>2. Sorted(order', items[o])
      BY <1>2, <1>6, <1>7, SortedAppend DEF QueueSorted
    <3>3. \A y \in ToSet(items[o]) : msg'[y] = "queued"
      BY <1>7, <1>9 DEF QueueSorted
    <3>4. \A x \in s, y \in ToSet(items[o]) : msg'[x] = "queued" => Precedes(order', x, y)
      BY <1>6, <1>7, <1>8, <1>9, <1>10, <2>2 DEF QueueSorted
    <3>5. s \in SUBSET Messages /\ ToSet(items[o]) \cup s = ToSet(items[o]) \cup summary[o] \cup {m}
      BY <1>6
    <3>6. items[o] # <<>>
      BY <1>4, <1>6, <2>2
    <3> QED BY <1>6, <3>1, <3>2, <3>3, <3>4, <3>5, <3>6
  <2>3. CASE full /\ policy # "new"
    <3> DEFINE h == Head(items[o])
    <3> DEFINE t == Tail(items[o])
    <3> DEFINE r == Append(t, m)
    <3> DEFINE s == summary[o] \cup {h}
    <3>1. items[o] # <<>>
      BY <1>4, <1>6, <2>3
    <3>2. /\ h \in Messages /\ t \in Seq(Messages) /\ Len(t) = Len(items[o]) - 1
          /\ ToSet(items[o]) = {h} \cup ToSet(t)
      BY <1>6, <3>1, TailFacts
    <3>3. Sorted(order, t) /\ \A y \in ToSet(t) : Precedes(order, h, y)
      BY <1>6, <1>7, <3>1, SortedTail DEF QueueSorted
    <3>4. items' = [items EXCEPT ![o] = r] /\ summary' = [summary EXCEPT ![o] = s]
      BY <1>3, <2>3
    <3> HIDE DEF h, t
    <3>5. /\ r \in Seq(Messages) /\ Len(r) = Len(t) + 1
          /\ ToSet(r) = ToSet(t) \cup {m}
      BY <3>2, AppendFacts
    <3>6. Sorted(order', r)
      BY <1>2, <1>6, <1>7, <3>2, <3>3, SortedAppend
    <3> HIDE DEF r
    <3>7. Len(r) <= Cap
      BY <1>6, <3>2, <3>5
    <3>8. \A y \in ToSet(r) : msg'[y] = "queued"
      BY <1>7, <1>9, <1>10, <2>3, <3>2, <3>5 DEF QueueSorted
    <3>9. \A x \in s, y \in ToSet(r) : msg'[x] = "queued" => Precedes(order', x, y)
      BY <1>6, <1>7, <1>8, <1>9, <3>2, <3>3, <3>5 DEF QueueSorted
    <3>10. s \in SUBSET Messages /\ ToSet(r) \cup s = ToSet(items[o]) \cup summary[o] \cup {m}
      BY <1>6, <3>2, <3>5
    <3>11. r # <<>>
      BY <3>2, <3>5
    <3> QED BY <3>4, <3>5, <3>6, <3>7, <3>8, <3>9, <3>10, <3>11
  <2> QED BY <2>1, <2>2, <2>3
<1>12. Carried' /\ InOrder'
  <2>1. CASE full /\ policy = "new"
    BY <1>1, <1>2, <1>5, <1>11, <2>1, MessageTaken
  <2>2. CASE ~ (full /\ policy = "new")
    BY <1>1, <1>2, <1>5, <1>11, <2>2, MessageTaken
  <2> QED BY <2>1, <2>2
<1>13. TypeOK'
  <2>1. order' \in Seq(Messages)
    BY <1>2, <1>6, AppendFacts
  <2>2. /\ items' \in [Objects -> Seq(Messages)] /\ summary' \in [Objects -> SUBSET Messages]
        /\ \A x \in Objects : Len(items'[x]) <= Cap
    BY <1>1, <1>11 DEF Queue, TypeOK
  <2>3. msg' \in [Messages -> {"new", "starting", "active", "delivering", "done",
                               "steered", "queued", "refused"}]
    BY <1>2 DEF Queue, TypeOK
  <2>4. mode' \in [Objects -> Modes \cup {"followup"}]
    BY <1>2 DEF Queue, TypeOK
  <2>5. registered' \in Objects \cup {NoObject} /\ fresh' \subseteq Objects
    BY <1>1 DEF Queue, TypeOK
  <2> QED BY <1>2, <2>1, <2>2, <2>3, <2>4, <2>5 DEF Queue, TypeOK, drainVars
<1>14. Attached'
  <2>1. \A x \in Objects : drain'[x] # "none" => registered' = x
    BY <1>1, <1>2, FollowupAssumption DEF Queue, Attached, drainVars
  <2>2. \A x \in Objects : registered' # x => items'[x] = <<>> /\ summary'[x] = {}
    BY <1>1, <1>5, <1>11 DEF Queue, TypeOK
  <2>3. \A x \in Objects : /\ items'[x] = <<>> => summary'[x] = {}
                           /\ drain'[x] = "debounce" => items'[x] # <<>>
    <3>1. items'[o] # <<>>
      BY <1>1, <1>11 DEF Queue, TypeOK
    <3>2. ASSUME NEW x \in Objects, x # o PROVE summary'[x] = {} /\ drain'[x] # "debounce"
      <4>1. registered' # x
        BY <1>1, <3>2
      <4>2. drain'[x] = "none"
        BY <2>1, <4>1
      <4> QED BY <2>2, <4>1, <4>2
    <3> QED BY <3>1, <3>2
  <2>4. registered' \notin fresh'
    BY <1>1
  <2> QED BY <2>1, <2>2, <2>3, <2>4 DEF Attached
<1> QED BY <1>12, <1>13, <1>14 DEF Queue

-----------------------------------------------------------------------------
(* Messages leave the queue for a prompt: what was picked is older than    *)
(* what stays.                                                             *)

LEMMA DrainPicksStep ==
  ASSUME Queue, NEW o \in Objects, DrainPicks(o)
  PROVE  Queue'
<1> DEFINE collect == mode[o] = "collect" /\ Len(items[o]) > 1 /\ SingleChannel(o)
<1> DEFINE taken == IF collect THEN ToSet(items[o]) ELSE {Head(items[o])}
<1> DEFINE B == taken \cup summary[o]
<1> DEFINE r == IF collect THEN <<>> ELSE Tail(items[o])
<1>1. /\ drain[o] = "debounce" /\ items[o] # <<>>
      /\ batch' = [batch EXCEPT ![o] = B] /\ Prompted(B)
      /\ items' = [items EXCEPT ![o] = r] /\ summary' = [summary EXCEPT ![o] = {}]
      /\ drain' = [drain EXCEPT ![o] = "starting"]
      /\ UNCHANGED <<registered, fresh, mode, draining, active, msg, foreignRun, cleared, order>>
  <2>1. items' = [items EXCEPT ![o] = IF collect THEN <<>> ELSE Tail(items[o])]
    BY DEF DrainPicks, Queue, TypeOK
  <2> QED BY <2>1 DEF DrainPicks, FlushSummary, EntryWhileDraining
<1>2. /\ items[o] \in Seq(Messages) /\ summary[o] \subseteq Messages /\ Len(items[o]) <= Cap
      /\ items \in [Objects -> Seq(Messages)] /\ summary \in [Objects -> SUBSET Messages]
      /\ order \in Seq(Messages)
  BY DEF Queue, TypeOK
<1>3. registered = o /\ \A x \in Objects \ {o} : items[x] = <<>> /\ summary[x] = {}
  BY <1>1 DEF Queue, Attached
<1>4. QueueSorted(o) /\ Once(order)
  BY DEF Queue, InOrder
<1>5. ToSet(<<>>) = {} /\ Sorted(order, <<>>)
  BY DEF ToSet, Sorted
<1>6. /\ r \in Seq(Messages) /\ Len(r) <= Cap
      /\ taken \cup ToSet(r) = ToSet(items[o])
      /\ Sorted(order, r)
      /\ \A x \in taken, y \in ToSet(r) : Precedes(order, x, y)
  <2>1. CASE collect
    BY <1>2, <1>5, <2>1, FollowupAssumption
  <2>2. CASE ~ collect
    <3>1. taken = {Head(items[o])} /\ r = Tail(items[o])
      BY <2>2
    <3> HIDE DEF taken, r, collect
    <3>2. /\ r \in Seq(Messages) /\ Len(items[o]) \in Nat \ {0} /\ Len(r) = Len(items[o]) - 1
          /\ ToSet(items[o]) = taken \cup ToSet(r)
      BY <1>1, <1>2, <3>1, TailFacts
    <3>3. Len(r) <= Cap
      BY <1>2, <3>2, FollowupAssumption
    <3>4. Sorted(order, r) /\ \A y \in ToSet(r) : Precedes(order, Head(items[o]), y)
      BY <1>1, <1>2, <1>4, <3>1, SortedTail DEF QueueSorted
    <3> QED BY <3>1, <3>2, <3>3, <3>4
  <2> QED BY <2>1, <2>2
<1> HIDE DEF taken, r, collect
<1>7. ToSet(r) \subseteq Messages /\ taken \subseteq Messages /\ ToSet(items[o]) \subseteq Messages
  BY <1>2, <1>6, ToSetType
<1>8. /\ \A n \in Messages : Held(n) <=> n \in B \/ n \in ToSet(r)
      /\ \A n \in Messages : Held(n)' <=> n \in ToSet(r)
  <2>1. \A n \in Messages : Held(n) <=> n \in ToSet(items[o]) \cup summary[o]
    BY <1>3, <1>5 DEF Held, Holds
  <2>2. \A x \in Objects : items'[x] = (IF x = o THEN r ELSE items[x])
                          /\ summary'[x] = (IF x = o THEN {} ELSE summary[x])
    BY <1>1, <1>2
  <2>3. \A n \in Messages : Held(n)' <=> n \in ToSet(r)
    BY <1>3, <1>5, <2>2 DEF Held, Holds
  <2> QED BY <1>6, <2>1, <2>3
<1>9. \A x \in ToSet(r), y \in B :
        /\ msg[x] = "queued"
        /\ msg[y] = "queued" => ~ Precedes(order, x, y) /\ x # y
  <2>1. \A x \in ToSet(r), y \in B : /\ msg[x] = "queued"
                                     /\ msg[y] = "queued" => Precedes(order, y, x)
    BY <1>4, <1>6 DEF QueueSorted
  <2> QED BY <1>2, <1>4, <2>1, PrecedesFacts
<1>10. \A n \in Messages : prompts'[n] = IF n \in B THEN prompts[n] + 1 ELSE prompts[n]
  BY <1>1 DEF Queue, TypeOK, Prompted
<1>11. B \subseteq Messages /\ \A n \in B : prompts[n] = 0 /\ Accepted(n) /\ n \notin ToSet(r)
  <2>1. \A n \in B : n \notin ToSet(r)
    BY <1>9
  <2> QED BY <1>2, <1>7, <1>8, <2>1 DEF Queue, Carried
<1> HIDE DEF B
<1>12. Carried'
  <2> SUFFICES ASSUME NEW n \in Messages
               PROVE  /\ prompts'[n] \in {0, 1}
                      /\ prompts'[n] = 0 <=> msg[n] = "new" \/ n \in ToSet(r)
                      /\ n \in ToSet(r) => Accepted(n)
    BY <1>1, <1>8 DEF Carried, Accepted
  <2>1. CASE n \in B
    BY <1>8, <1>10, <1>11, <2>1 DEF Accepted
  <2>2. CASE n \notin B
    BY <1>8, <1>10, <2>2 DEF Queue, Carried
  <2> QED BY <2>1, <2>2
<1>13. InOrder'
  <2>1. \A x \in Objects : QueueSorted(x)'
    <3> SUFFICES ASSUME NEW x \in Objects PROVE QueueSorted(x)'
      OBVIOUS
    <3>1. CASE x = o
      <4>1. items'[x] = r /\ summary'[x] = {}
        BY <1>1, <1>2, <3>1
      <4>2. \A n \in ToSet(r) : msg[n] = "queued"
        BY <1>4, <1>6 DEF QueueSorted
      <4> QED BY <1>1, <1>6, <4>1, <4>2 DEF QueueSorted
    <3>2. CASE x # o
      <4>1. items'[x] = <<>> /\ summary'[x] = {}
        BY <1>1, <1>2, <1>3, <3>2
      <4> QED BY <1>1, <1>5, <4>1 DEF QueueSorted
    <3> QED BY <3>1, <3>2
  <2>2. Served'
    <3> SUFFICES ASSUME NEW x \in Messages, NEW y \in Messages, Precedes(order, x, y),
                        msg[x] = "queued", msg[y] = "queued", prompts'[y] > 0
                 PROVE  prompts'[x] > 0
      BY <1>1 DEF Served
    <3>1. prompts[x] \in Nat /\ prompts[y] \in Nat
      BY DEF Queue, TypeOK
    <3>2. CASE prompts[y] > 0
      BY <1>10, <3>1, <3>2 DEF Queue, InOrder, Served
    <3>3. CASE y \in B
      <4>1. x \notin ToSet(r)
        BY <1>9, <3>3
      <4>2. x \in B \/ prompts[x] # 0
        BY <1>8, <4>1 DEF Queue, Carried
      <4> QED BY <1>10, <3>1, <4>2
    <3> QED BY <1>10, <3>1, <3>2, <3>3
  <2> QED BY <1>1, <2>1, <2>2 DEF Queue, InOrder, Accepted
<1>14. TypeOK'
  <2>1. /\ items' \in [Objects -> Seq(Messages)] /\ summary' \in [Objects -> SUBSET Messages]
        /\ \A x \in Objects : Len(items'[x]) <= Cap
    BY <1>1, <1>2, <1>6 DEF Queue, TypeOK
  <2>2. batch' \in [Objects -> SUBSET Messages]
    BY <1>1, <1>11 DEF Queue, TypeOK
  <2>3. prompts' \in [Messages -> Nat]
    BY <1>1 DEF Queue, TypeOK, Prompted
  <2>4. /\ drain' \in [Objects -> {"none", "debounce", "starting", "running", "delivering"}]
        /\ \A x \in Objects : drain'[x] # "none" <=> drain[x] # "none"
    BY <1>1 DEF Queue, TypeOK
  <2> QED BY <1>1, <2>1, <2>2, <2>3, <2>4 DEF Queue, TypeOK
<1>15. Attached'
  <2>1. drain \in [Objects -> {"none", "debounce", "starting", "running", "delivering"}]
    BY DEF Queue, TypeOK
  <2> SUFFICES ASSUME NEW x \in Objects
               PROVE  /\ drain'[x] # "none" => registered = x
                      /\ registered # x => items'[x] = <<>> /\ summary'[x] = {}
                      /\ items'[x] = <<>> => summary'[x] = {}
                      /\ drain'[x] = "debounce" => items'[x] # <<>>
    BY <1>1 DEF Queue, Attached
  <2>2. CASE x = o
    BY <1>1, <1>2, <1>3, <2>1, <2>2
  <2>3. CASE x # o
    BY <1>1, <1>2, <1>3, <2>1, <2>3 DEF Queue, Attached
  <2> QED BY <2>2, <2>3
<1> QED BY <1>12, <1>13, <1>14, <1>15 DEF Queue

-----------------------------------------------------------------------------
LEMMA QueueStep == Queue /\ [Next]_vars => Queue'
<1> SUFFICES ASSUME Queue, [Next]_vars PROVE Queue'
  OBVIOUS
<1>1. ASSUME NEW m \in Messages, RunNow(m) PROVE Queue'
  BY <1>1, PromptedAtOnce DEF RunNow
<1>2. ASSUME NEW m \in Messages, Steer(m) PROVE Queue'
  BY <1>2, PromptedAtOnce DEF Steer
<1>3. ASSUME NEW m \in Messages, Receive(m) PROVE Queue'
  BY <1>1, <1>2, <1>3, EnqueueStep DEF Receive
<1>4. ASSUME NEW m \in Messages, TurnStep(m) PROVE Queue'
  BY <1>4, RegisterStep, TurnEndsStep, FinalizeStep DEF TurnStep
<1>5. ASSUME NEW o \in Objects, DrainStep(o) PROVE Queue'
  BY <1>5, DrainPicksStep, FollowupRegistersStep, FollowupTurnEndsStep, FollowupReturnsStep
     DEF DrainStep
<1>6. CASE UNCHANGED vars
  <2>1. TypeOK' /\ Attached'
    BY <1>6 DEF Queue, TypeOK, Attached, vars, queueVars, drainVars, ghostVars
  <2> QED BY <1>6, <2>1, DrainGoesOn DEF Queue, vars, queueVars
<1> QED BY <1>3, <1>4, <1>5, <1>6 DEF Next

LEMMA QueueInvariant == Spec => []Queue
BY QueueInit, QueueStep, PTL DEF Spec

(* The queue objects, their drain tasks and the messages keep their types, *)
(* and no queue grows past its cap.                                        *)
THEOREM TypeCorrect == Spec => []TypeOK
<1>1. Queue => TypeOK
  BY DEF Queue
<1> QED BY <1>1, QueueInvariant, PTL

(* No message is put to the agent twice, and one drain task is under way   *)
(* at a time: it works on the queue the dictionary names.                  *)
THEOREM PromptedAtMostOnceCorrect == Spec => []PromptedAtMostOnce
<1>1. ASSUME Queue PROVE PromptedAtMostOnce
  <2>1. \A m \in Messages : prompts[m] <= 1
    BY <1>1 DEF Queue, Carried
  <2> DEFINE D == {o \in Objects : drain[o] # "none"}
  <2>2. D \subseteq {registered}
    BY <1>1 DEF Queue, Attached
  <2> HIDE DEF D
  <2>3. /\ IsFiniteSet({registered}) /\ Cardinality({registered}) = 1
    BY FS_Singleton
  <2>4. Cardinality(D) <= 1
    BY <2>2, <2>3, FS_Subset
  <2> QED BY <2>1, <2>4 DEF PromptedAtMostOnce, D
<1> QED BY <1>1, QueueInvariant, PTL

(* A message the queue took stays within reach until a prompt carries it.  *)
THEOREM NoMessageLostCorrect == Spec => []NoMessageLost
<1>1. ASSUME Queue PROVE NoMessageLost
  <2> SUFFICES ASSUME NEW m \in Messages, Accepted(m), prompts[m] = 0
               PROVE  \E o \in Objects : Holds(o, m) /\ registered = o
    BY DEF NoMessageLost
  <2>1. PICK o \in Objects : Holds(o, m)
    BY <1>1 DEF Queue, Carried, Held, Accepted
  <2>2. registered = o
    BY <1>1, <2>1 DEF Queue, Attached, Holds, ToSet
  <2> QED BY <2>1, <2>2
<1> QED BY <1>1, QueueInvariant, PTL

(* Queued messages reach the agent in the order in which they arrived.     *)
THEOREM ArrivalOrderCorrect == Spec => []ArrivalOrder
<1>1. ASSUME Queue PROVE ArrivalOrder
  <2> SUFFICES ASSUME NEW i \in 1..Len(order), NEW j \in 1..Len(order), i < j,
                      msg[order[i]] = "queued", msg[order[j]] = "queued", prompts[order[j]] > 0
               PROVE  prompts[order[i]] > 0
    BY DEF ArrivalOrder
  <2>1. order[i] \in Messages /\ order[j] \in Messages
    BY <1>1 DEF Queue, TypeOK
  <2>2. Precedes(order, order[i], order[j])
    BY DEF Precedes
  <2> QED BY <1>1, <2>1, <2>2 DEF Queue, InOrder, Served
<1> QED BY <1>1, QueueInvariant, PTL

(* A drain finds its queue empty only after an interrupt cleared it, which *)
(* is why DrainFindsNothing is a step of ContendedNext and not of Next.    *)
THEOREM DrainFindsWork ==
  Spec => []\A o \in Objects : drain[o] = "debounce" => items[o] # <<>>
<1>1. Queue => \A o \in Objects : drain[o] = "debounce" => items[o] # <<>>
  BY DEF Queue, Attached
<1> QED BY <1>1, QueueInvariant, PTL
===============================================================================
