----------------------------- MODULE TimerProofs -----------------------------
(***************************************************************************)
(* Whatever scripts, callbacks and microtasks set and clear, timers fire   *)
(* in the order of their targets, each is scheduled once, and a timer that *)
(* was cleared by someone else stays quiet.                                *)
(***************************************************************************)
EXTENDS TimerQueue, FiniteSetTheorems, TLAPS

-----------------------------------------------------------------------------
(* Counting finite sets of numbers *)

Below(S, i) == {j \in S : j <= i}
Place(S, i) == Cardinality(Below(S, i))

(* The elements of a finite set of numbers are in the places 1, 2, ... up  *)
(* to its cardinality, one in each, the smaller ones first.                *)
LEMMA Places ==
  ASSUME NEW S \in SUBSET Nat, IsFiniteSet(S)
  PROVE  /\ Cardinality(S) \in Nat /\ \A i \in S : Place(S, i) \in 1..Cardinality(S)
         /\ \A i, j \in S : i < j => Place(S, i) < Place(S, j)
         /\ \A k \in 1..Cardinality(S) : \E i \in S : Place(S, i) = k
<1> DEFINE n == Cardinality(S)
           place == [i \in S |-> Place(S, i)]
<1>1. n \in Nat
  BY FS_CardinalityType
<1>2. \A i \in S : IsFiniteSet(Below(S, i)) /\ Place(S, i) \in 1..n
  <2> SUFFICES ASSUME NEW i \in S PROVE IsFiniteSet(Below(S, i)) /\ Place(S, i) \in 1..n
    OBVIOUS
  <2>1. Below(S, i) \in SUBSET S
    BY DEF Below
  <2>2. IsFiniteSet(Below(S, i)) /\ Place(S, i) <= n
    BY <2>1, FS_Subset DEF Place
  <2>3. Place(S, i) \in Nat
    BY <2>2, FS_CardinalityType DEF Place
  <2>4. i \in Below(S, i)
    BY DEF Below
  <2>5. Place(S, i) # 0
    BY <2>2, <2>4, FS_EmptySet DEF Place
  <2> QED BY <1>1, <2>2, <2>3, <2>5
<1>3. ASSUME NEW i \in S, NEW j \in S, i < j PROVE Place(S, i) < Place(S, j)
  <2>0. i \in Nat /\ j \in Nat /\ \A x \in S : x \in Nat
    OBVIOUS
  <2>3. ASSUME NEW x \in Below(S, i) PROVE x \in Below(S, j)
    <3>1. x \in S /\ x <= i /\ x \in Nat
      BY <2>0 DEF Below
    <3>2. x <= j
      BY <1>3, <2>0, <3>1
    <3> QED BY <3>1, <3>2 DEF Below
  <2>4. j \in Below(S, j) /\ j \notin Below(S, i)
    BY <1>3, <2>0 DEF Below
  <2>1. Below(S, i) \in SUBSET Below(S, j) /\ j \in Below(S, j) /\ j \notin Below(S, i)
    BY <2>3, <2>4
  <2>2. Place(S, i) <= Place(S, j) /\ Place(S, i) # Place(S, j)
    BY <1>2, <2>1, FS_Subset DEF Place
  <2> QED BY <1>1, <1>2, <2>2
<1>4. ASSUME NEW k \in 1..n PROVE \E i \in S : Place(S, i) = k
  <2>1. place \in [S -> 1..n]
    BY <1>2
  <2>2. \A i, j \in S : place[i] = place[j] => i = j
    <3> SUFFICES ASSUME NEW i \in S, NEW j \in S, Place(S, i) = Place(S, j) PROVE i = j
      OBVIOUS
    <3>1. Place(S, i) \in Nat
      BY <1>1, <1>2
    <3>2. ~(i < j) /\ ~(j < i)
      BY <1>3, <3>1
    <3> QED BY <3>2
  <2>3. place \in Injection(S, 1..n)
    BY <2>1, <2>2 DEF Injection, IsInjective
  <2>4. IsFiniteSet(1..n) /\ Cardinality(1..n) = n
    BY <1>1, FS_Interval
  <2>5. place \in Surjection(S, 1..n)
    BY <2>3, <2>4, FS_Injection
  <2>6. \E i \in S : place[i] = k
    BY <2>5 DEF Surjection
  <2> QED BY <2>6
<1> QED BY <1>1, <1>2, <1>3, <1>4

(* So there is a least and a greatest one. *)
LEMMA Extremes ==
  ASSUME NEW S \in SUBSET Nat, IsFiniteSet(S), S # {}
  PROVE  (\E m \in S : \A i \in S : m <= i) /\ (\E m \in S : \A i \in S : i <= m)
<1> DEFINE n == Cardinality(S)
<1>1. n \in Nat \ {0}
  BY FS_CardinalityType, FS_EmptySet
<1>2. PICK least \in S : Place(S, least) = 1
  BY <1>1, Places
<1>3. PICK greatest \in S : Place(S, greatest) = n
  BY <1>1, Places
<1>4. ASSUME NEW i \in S PROVE least <= i
  <2>1. ~(i < least)
    BY <1>1, <1>2, Places
  <2> QED BY <2>1
<1>5. ASSUME NEW i \in S PROVE i <= greatest
  <2>1. ~(greatest < i)
    BY <1>1, <1>3, Places
  <2> QED BY <2>1
<1> QED BY <1>4, <1>5

-----------------------------------------------------------------------------
(* The list of timers *)

(* list holds some of the timers of other, in the same order. *)
IsSublist(list, other, f) ==
  /\ f \in [DOMAIN list -> DOMAIN other]
  /\ \A k \in DOMAIN list : list[k] = other[f[k]]
  /\ \A k, l \in DOMAIN list : k < l => f[k] < f[l]

LEMMA RetainedFacts ==
  ASSUME timers \in Seq(Timer)
  PROVE  /\ Retained \in Seq(Timer) /\ \E f : IsSublist(Retained, timers, f)
         /\ Elements(Retained) = Active
<1> DEFINE kept == {i \in DOMAIN timers : ~timers[i].cancelled}
           n == Cardinality(kept)
           f == [k \in 1..n |-> CHOOSE i \in kept : Place(kept, i) = k]
<1>1. Len(timers) \in Nat /\ DOMAIN timers = 1..Len(timers) /\ \A i \in DOMAIN timers : timers[i] \in Timer
  OBVIOUS
<1>2. kept \in SUBSET Nat /\ IsFiniteSet(kept)
  <2>1. IsFiniteSet(1..Len(timers)) /\ kept \in SUBSET (1..Len(timers))
    BY <1>1, FS_Interval
  <2> QED BY <2>1, FS_Subset
<1>3. n \in Nat /\ \A k \in 1..n : \E i \in kept : Place(kept, i) = k
  BY <1>2, Places
<1>4. \A k \in 1..n : f[k] \in kept /\ Place(kept, f[k]) = k
  BY <1>3
<1>5. Retained = [k \in 1..n |-> timers[f[k]]]
  BY DEF Retained, Place, Below
<1>6. \A k, l \in 1..n : k < l => f[k] < f[l]
  <2> SUFFICES ASSUME NEW k \in 1..n, NEW l \in 1..n, k < l PROVE f[k] < f[l]
    OBVIOUS
  <2>1. f[k] \in kept /\ f[l] \in kept /\ f[k] \in Nat /\ f[l] \in Nat /\ Place(kept, f[k]) = k /\ Place(kept, f[l]) = l
    BY <1>2, <1>4
  <2>2. f[l] < f[k] => l < k
    BY <1>2, <2>1, Places
  <2>3. k \in Nat /\ l \in Nat
    BY <1>3
  <2> HIDE DEF f
  <2> QED BY <2>1, <2>2, <2>3
<1>7. \A i \in kept : \E k \in 1..n : f[k] = i
  <2> SUFFICES ASSUME NEW i \in kept PROVE \E k \in 1..n : f[k] = i
    OBVIOUS
  <2>1. Place(kept, i) \in 1..n
    BY <1>2, Places
  <2> DEFINE k == Place(kept, i)
  <2>2. f[k] \in kept /\ Place(kept, f[k]) = k
    BY <1>4, <2>1
  <2>3. f[k] \in Nat /\ i \in Nat /\ k \in Nat
    BY <1>2, <1>3, <2>1, <2>2
  <2>4. ~(f[k] < i) /\ ~(i < f[k])
    BY <1>2, <2>2, <2>3, Places
  <2>5. f[k] = i
    BY <2>3, <2>4
  <2> QED BY <2>1, <2>5
<1> HIDE DEF f
<1>8. Retained \in Seq(Timer) /\ DOMAIN Retained = 1..n /\ \A k \in 1..n : Retained[k] = timers[f[k]]
  BY <1>1, <1>3, <1>4, <1>5
<1>9. IsSublist(Retained, timers, f)
  <2>1. f \in [1..n -> DOMAIN timers]
    BY <1>4 DEF f
  <2> QED BY <1>6, <1>8, <2>1 DEF IsSublist
<1>10. Elements(Retained) = Active
  BY <1>4, <1>7, <1>8 DEF Elements, Active
<1> QED BY <1>8, <1>9, <1>10

LEMMA WithoutFacts ==
  ASSUME NEW S, NEW list \in Seq(S), NEW i \in 1..Len(list)
  PROVE  /\ Without(list, i) \in Seq(S) /\ Len(Without(list, i)) = Len(list) - 1
         /\ \A k \in 1..Len(list) - 1 : Without(list, i)[k] = list[IF k < i THEN k ELSE k + 1]
<1> DEFINE n == Len(list)
           a == SubSeq(list, 1, i - 1)
           b == SubSeq(list, i + 1, n)
<1>1. n \in Nat \ {0} /\ i \in Nat /\ \A k \in 1..n : list[k] \in S
  OBVIOUS
<1>2. a = [k \in 1..i - 1 |-> list[k]]
  BY <1>1
<1>3. b = [k \in 1..n - i |-> list[k + i]]
  BY <1>1
<1>4. Without(list, i) = a \o b
  BY DEF Without
<1> HIDE DEF a, b
<1>5. a \in Seq(S) /\ Len(a) = i - 1 /\ \A k \in 1..i - 1 : a[k] = list[k]
  BY <1>1, <1>2
<1>6. b \in Seq(S) /\ Len(b) = n - i /\ \A k \in 1..n - i : b[k] = list[k + i]
  BY <1>1, <1>3
<1>7. a \o b \in Seq(S) /\ Len(a \o b) = n - 1
  BY <1>1, <1>5, <1>6
<1>8. ASSUME NEW k \in 1..n - 1 PROVE (a \o b)[k] = list[IF k < i THEN k ELSE k + 1]
  <2>1. CASE k < i
    BY <1>1, <1>5, <1>6, <2>1
  <2>2. CASE ~(k < i)
    <3>1. (a \o b)[k] = b[k - (i - 1)]
      BY <1>1, <1>5, <1>6, <2>2
    <3>2. k - (i - 1) \in 1..n - i /\ k - (i - 1) + i = k + 1
      BY <1>1, <2>2
    <3> QED BY <1>6, <2>2, <3>1, <3>2
  <2> QED BY <2>1, <2>2
<1> QED BY <1>4, <1>7, <1>8

(* The earliest of the timers that are due, the first of several. *)
LEMMA EarliestFacts ==
  ASSUME NEW list \in Seq(Timer), Due(list) # {}
  PROVE  /\ Earliest(list) \in Due(list) /\ Earliest(list) \in 1..Len(list)
         /\ \A j \in Due(list) : \/ list[Earliest(list)].target < list[j].target
                                 \/ list[Earliest(list)].target = list[j].target /\ Earliest(list) <= j
<1> DEFINE S == {list[i].target : i \in Due(list)}
<1>1. Len(list) \in Nat /\ DOMAIN list = 1..Len(list) /\ \A i \in 1..Len(list) : list[i].target \in 0..MaxClock
  <2>1. \A i \in 1..Len(list) : list[i] \in Timer
    OBVIOUS
  <2> QED BY <2>1 DEF Timer, Times
<1>2. Due(list) \subseteq 1..Len(list) /\ Due(list) \in SUBSET Nat
  BY <1>1 DEF Due
<1>3. S \in SUBSET Nat /\ S # {} /\ IsFiniteSet(S)
  <2>1. S \in SUBSET (0..MaxClock) /\ S # {}
    BY <1>1, <1>2
  <2>2. MaxClock \in Nat
    BY TimerAssumption
  <2>3. S \in SUBSET Nat /\ \A m \in S : m <= MaxClock
    BY <2>1, <2>2
  <2> QED BY <2>1, <2>2, <2>3, FS_BoundedSetOfNaturals
<1>4. PICK m \in S : \A t \in S : m <= t
  BY <1>3, Extremes
<1> DEFINE T == {i \in Due(list) : list[i].target = m}
<1>5. T \in SUBSET Nat /\ T # {} /\ IsFiniteSet(T)
  <2>1. T \in SUBSET (1..Len(list)) /\ T # {}
    BY <1>1, <1>2, <1>4
  <2>2. IsFiniteSet(1..Len(list))
    BY <1>1, FS_Interval
  <2> QED BY <1>2, <2>1, <2>2, FS_Subset
<1>6. PICK i \in T : \A j \in T : i <= j
  BY <1>5, Extremes
<1>7. ASSUME NEW j \in Due(list)
      PROVE  list[i].target < list[j].target \/ (list[i].target = list[j].target /\ i <= j)
  <2>1. m <= list[j].target /\ list[i].target = m /\ m \in Nat /\ list[j].target \in Nat
    BY <1>3, <1>4, <1>6
  <2>2. CASE list[j].target = m
    BY <1>6, <2>1, <2>2
  <2>3. CASE list[j].target # m
    BY <2>1, <2>3
  <2> QED BY <2>2, <2>3
<1> HIDE DEF S, T
<1>8. i \in Due(list)
  BY <1>6 DEF T
<1>9. Earliest(list) \in Due(list) /\ \A j \in Due(list) :
        \/ list[Earliest(list)].target < list[j].target
        \/ list[Earliest(list)].target = list[j].target /\ Earliest(list) <= j
  BY <1>7, <1>8 DEF Earliest
<1> QED BY <1>2, <1>9

-----------------------------------------------------------------------------
(* The inductive invariant *)

Distinct(list) == \A i, j \in DOMAIN list : list[i].id = list[j].id => i = j
(* A timeout was set after the timers before it in the list. *)
Ordered(list) == \A i, j \in DOMAIN list : i < j /\ list[j].interval = OneShot => list[i].id < list[j].id
Older(list) == \A i \in DOMAIN list : list[i].id < nextId
(* A timer that was cleared is cancelled, unless it was cleared while its  *)
(* callback ran and it was not in the list.                                *)
Hushed(list) == \A i \in DOMAIN list : list[i].id \in cleared => list[i].cancelled \/ list[i].id \in selfCleared
(* No active timer of the list should have fired before t. *)
NotBefore(t, list) ==
  \A i \in DOMAIN list : ~list[i].cancelled =>
    /\ list[i].target >= t.target
    /\ list[i].target = t.target /\ list[i].interval = OneShot /\ t.interval = OneShot => list[i].id > t.id

Listed(list) == list \in Seq(Timer) /\ Distinct(list) /\ Ordered(list) /\ Older(list) /\ Hushed(list)

Turn ==
  /\ pc \in {"callback", "reschedule"} => running # NoTimer
  /\ pc \in {"idle", "script", "select"} => running = NoTimer
  /\ running # NoTimer =>
       /\ last = running /\ ~running.cancelled
       /\ \A i \in DOMAIN timers : timers[i].id # running.id
       /\ running.id \in cleared => running.id \in selfCleared

Past ==
  /\ last # NoTimer => last.id < nextId /\ last.target <= clock /\ NotBefore(last, timers)
  /\ cleared \subseteq 1..nextId - 1

Inv == TypeOK /\ Listed(timers) /\ Turn /\ Past

LEMMA Typed ==
  ASSUME TypeOK
  PROVE  /\ MaxClock \in Nat \ {0} /\ clock \in 0..MaxClock /\ goal \in 0..MaxClock /\ nextId \in Nat \ {0}
         /\ timers \in Seq(Timer) /\ DOMAIN timers = 1..Len(timers) /\ Len(timers) \in Nat
         /\ \A i \in DOMAIN timers : timers[i] \in Timer
         /\ \A t \in Timer : /\ t.id \in Ids /\ t.id \in Nat /\ t.target \in 0..MaxClock /\ t.target \in Nat
                             /\ t.interval \in 0..MaxClock /\ t.interval \in Nat /\ t.cancelled \in BOOLEAN /\ t # NoTimer
<1>1. MaxClock \in Nat \ {0} /\ clock \in 0..MaxClock /\ goal \in 0..MaxClock
  BY TimerAssumption DEF TypeOK, Times
<1>2. Ids \subseteq Nat /\ nextId \in Nat \ {0}
  BY DEF TypeOK, Ids
<1>3. timers \in Seq(Timer) /\ DOMAIN timers = 1..Len(timers) /\ Len(timers) \in Nat
  <2>1. timers \in Seq(Timer)
    BY DEF TypeOK
  <2> QED BY <2>1
<1>4. \A i \in DOMAIN timers : timers[i] \in Timer
  BY <1>3
<1>5. \A t \in Timer : /\ t.id \in Ids /\ t.target \in 0..MaxClock
                       /\ t.interval \in 0..MaxClock /\ t.cancelled \in BOOLEAN /\ t # NoTimer
  BY NoTimerAssumption DEF Timer, Times
<1>6. Ids \subseteq Nat /\ 0..MaxClock \subseteq Nat
  BY <1>1, <1>2
<1>7. \A t \in Timer : t.id \in Nat /\ t.target \in Nat /\ t.interval \in Nat
  BY <1>5, <1>6
<1>8. Len(timers) \in Nat
  BY <1>3
<1> QED BY <1>1, <1>2, <1>3, <1>4, <1>5, <1>7, <1>8

(* A sublist is listed as well. *)
LEMMA SublistListed ==
  ASSUME TypeOK, NEW list \in Seq(Timer), NEW other, Listed(other), NEW f, IsSublist(list, other, f)
  PROVE  Listed(list) /\ \A t : NotBefore(t, other) => NotBefore(t, list)
<1>1. f \in [DOMAIN list -> DOMAIN other] /\ \A k \in DOMAIN list : f[k] \in DOMAIN other /\ list[k] = other[f[k]]
  BY DEF IsSublist
<1>2. \A k, l \in DOMAIN list : k < l => f[k] < f[l]
  BY DEF IsSublist
<1>3. \A k, l \in DOMAIN list : f[k] = f[l] => k = l
  <2> SUFFICES ASSUME NEW k \in DOMAIN list, NEW l \in DOMAIN list, f[k] = f[l] PROVE k = l
    OBVIOUS
  <2>1. DOMAIN other \subseteq Nat /\ DOMAIN list \subseteq Nat
    BY DEF Listed
  <2>2. f[k] \in Nat /\ k \in Nat /\ l \in Nat
    BY <1>1, <2>1
  <2>3. ~(k < l) /\ ~(l < k)
    BY <1>2, <2>2
  <2> QED BY <2>2, <2>3
<1>4. Distinct(list)
  BY <1>1, <1>3 DEF Distinct, Listed
<1>5. Ordered(list)
  BY <1>1, <1>2 DEF Ordered, Listed
<1>6. Older(list) /\ Hushed(list)
  BY <1>1 DEF Older, Hushed, Listed
<1>7. \A t : NotBefore(t, other) => NotBefore(t, list)
  BY <1>1 DEF NotBefore
<1> QED BY <1>4, <1>5, <1>6, <1>7 DEF Listed

LEMMA InitInv == Init => Inv
<1> SUFFICES ASSUME Init PROVE Inv
  OBVIOUS
<1>1. timers \in Seq(Timer) /\ DOMAIN timers = {}
  BY DEF Init
<1>2. TypeOK
  BY <1>1, TimerAssumption DEF Init, TypeOK, Times, Ids
<1>3. Listed(timers)
  BY <1>1 DEF Listed, Distinct, Ordered, Older, Hushed
<1> QED BY <1>2, <1>3 DEF Inv, Init, Turn, Past

(* A step that leaves the timers alone. *)
LEMMA OtherStep ==
  ASSUME Inv, TypeOK', UNCHANGED <<timers, nextId, running, history>>, clock <= clock',
         pc' \in {"callback", "reschedule"} => running # NoTimer,
         pc' \in {"idle", "script", "select"} => running = NoTimer
  PROVE  Inv'
<1>1. Listed(timers)'
  BY DEF Inv, Listed, Distinct, Ordered, Older, Hushed, history
<1>2. Turn'
  BY DEF Inv, Turn, history
<1>3. Past'
  <2>1. last # NoTimer => last.target <= clock'
    <3>1. last # NoTimer => last.target \in Nat
      BY Typed DEF Inv, TypeOK
    <3>2. clock \in Nat /\ clock' \in Nat
      BY TimerAssumption DEF Inv, TypeOK, Times
    <3> QED BY <3>1, <3>2 DEF Inv, Past
  <2> QED BY <2>1 DEF Inv, Past, NotBefore, history
<1> QED BY <1>1, <1>2, <1>3 DEF Inv

(* A step that sets the list, and nothing of the past. *)
LEMMA ListStep ==
  ASSUME Inv, TypeOK', NEW list, timers' = list, Listed(list)', last # NoTimer => NotBefore(last, list),
         \A i \in DOMAIN list : running # NoTimer => list[i].id # running.id,
         UNCHANGED <<pc, clock, running, history>>, nextId <= nextId'
  PROVE  Inv'
<1>1. Turn'
  BY DEF Inv, Turn, history
<1>2. Past'
  <2>1. nextId \in Nat /\ nextId' \in Nat /\ (last # NoTimer => last.id \in Nat)
    BY Typed DEF Inv, TypeOK
  <2>2. cleared \subseteq 1..nextId' - 1
    <3>1. cleared \subseteq 1..nextId - 1
      BY DEF Inv, Past
    <3>2. 1..nextId - 1 \subseteq 1..nextId' - 1
      BY <2>1
    <3> QED BY <3>1, <3>2
  <2>3. last # NoTimer => last.id < nextId'
    BY <2>1 DEF Inv, Past
  <2> QED BY <2>2, <2>3 DEF Inv, Past, NotBefore, history
<1> QED BY <1>1, <1>2 DEF Inv
-----------------------------------------------------------------------------
(* The steps *)

LEMMA Sums ==
  ASSUME NEW a \in Times, NEW b \in Times
  PROVE  Saturate(a + b) \in Times /\ Saturate(a + b) >= a /\ Later(a, b) \in Times
         /\ Later(a, b) >= a /\ Later(a, b) >= b
  BY TimerAssumption DEF Times, Saturate, Later

LEMMA SetTimerStep ==
  ASSUME Inv, NEW delay \in Times, NEW interval \in Times, SetTimer(delay, interval)
  PROVE  Inv'
<1> DEFINE new == NewTimer(delay, interval)
           n == Len(timers)
<1>1. TypeOK /\ Listed(timers) /\ n \in Nat /\ DOMAIN timers = 1..n /\ nextId \in Nat
  BY Typed DEF Inv
<1>2. new \in Timer /\ new.id = nextId /\ new.target >= clock /\ ~new.cancelled
  <2>1. Saturate(clock + delay) \in Times /\ Saturate(clock + delay) >= clock
    BY <1>1, Sums DEF TypeOK
  <2> QED BY <2>1 DEF SetTimer, NewTimer, Timer
<1> HIDE DEF new
<1>3. timers' = Append(timers, new) /\ nextId' = nextId + 1 /\ nextId \in Ids
  BY DEF SetTimer, new
<1>4. /\ timers' \in Seq(Timer) /\ DOMAIN timers' = 1..n + 1
      /\ \A i \in 1..n : timers'[i] = timers[i]
      /\ timers'[n + 1] = new
  <2>1. timers \in Seq(Timer)
    BY <1>1 DEF Listed
  <2>2. Append(timers, new) \in Seq(Timer) /\ Len(Append(timers, new)) = n + 1
    BY <1>1, <1>2, <2>1
  <2>3. (\A i \in 1..n : Append(timers, new)[i] = timers[i]) /\ Append(timers, new)[n + 1] = new
    BY <1>1, <2>1
  <2> QED BY <1>3, <2>2, <2>3
<1>5. TypeOK'
  <2>1. nextId' \in 1..MaxTimers + 1
    BY <1>1, <1>3, TimerAssumption DEF Ids
  <2> QED BY <1>1, <1>4, <2>1 DEF TypeOK, SetTimer, history
<1>6. \A i \in 1..n : timers[i].id < nextId /\ timers[i].id \in Nat
  BY <1>1, Typed DEF Listed, Older
<1>7. Listed(timers)'
  <2>1. Distinct(timers)'
    BY <1>1, <1>2, <1>4, <1>6 DEF Distinct, Listed
  <2>2. Ordered(timers)'
    BY <1>1, <1>2, <1>4, <1>6 DEF Ordered, Listed
  <2>3. Older(timers)'
    BY <1>1, <1>2, <1>3, <1>4, <1>6 DEF Older, Listed
  <2>4. Hushed(timers)'
    <3>1. nextId \notin cleared
      BY <1>1 DEF Inv, Past
    <3> QED BY <1>1, <1>2, <1>4, <3>1 DEF Hushed, Listed, SetTimer, history
  <2> QED BY <1>4, <2>1, <2>2, <2>3, <2>4 DEF Listed
<1>8. last # NoTimer => NotBefore(last, timers')
  <2> SUFFICES ASSUME last # NoTimer, NEW i \in 1..n + 1, ~timers'[i].cancelled
               PROVE  /\ timers'[i].target >= last.target
                      /\ timers'[i].target = last.target /\ timers'[i].interval = OneShot
                         /\ last.interval = OneShot => timers'[i].id > last.id
    BY <1>4 DEF NotBefore
  <2>1. CASE i \in 1..n
    BY <1>1, <1>4, <2>1 DEF Inv, Past, NotBefore
  <2>2. CASE i = n + 1
    <3>1. last \in Timer /\ last.target <= clock /\ last.id < nextId
      BY DEF Inv, Past, TypeOK
    <3>2. last.target \in Nat /\ clock \in Nat /\ new.target \in Nat /\ last.id \in Nat
      <4>1. clock \in Nat
        BY TimerAssumption DEF Inv, TypeOK, Times
      <4> QED BY <1>1, <1>2, <3>1, <4>1, Typed
    <3>3. new.target >= last.target /\ new.id > last.id
      BY <1>1, <1>2, <3>1, <3>2
    <3> QED BY <1>4, <2>2, <3>3
  <2> QED BY <1>1, <2>1, <2>2
<1>9. \A i \in DOMAIN timers' : running # NoTimer => timers'[i].id # running.id
  <2>1. running # NoTimer => running.id # nextId /\ \A i \in 1..n : timers[i].id # running.id
    <3>1. running # NoTimer => running.id < nextId
      BY DEF Inv, Turn, Past
    <3>2. running # NoTimer => running.id \in Nat
      BY <1>1, Typed DEF TypeOK
    <3> QED BY <1>1, <3>1, <3>2 DEF Inv, Turn
  <2> QED BY <1>1, <1>2, <1>4, <2>1
<1>10. UNCHANGED <<pc, clock, running, history>> /\ nextId <= nextId'
  BY <1>1, <1>3 DEF SetTimer
<1> QED BY <1>5, <1>7, <1>8, <1>9, <1>10, ListStep

LEMMA ClearTimerStep ==
  ASSUME Inv, NEW id \in 1..nextId - 1, ClearTimer(id)
  PROVE  Inv'
<1>1. TypeOK /\ Listed(timers) /\ Len(timers) \in Nat /\ DOMAIN timers = 1..Len(timers) /\ nextId \in Nat
  BY Typed DEF Inv
<1>2. \A i \in DOMAIN timers : timers[i] \in Timer
  BY <1>1, Typed
<1>3. DOMAIN timers' = DOMAIN timers
  BY DEF ClearTimer
<1>4. ASSUME NEW i \in DOMAIN timers
      PROVE  /\ timers'[i] \in Timer /\ timers'[i].id = timers[i].id
             /\ timers'[i].target = timers[i].target /\ timers'[i].interval = timers[i].interval
             /\ timers'[i].cancelled = (timers[i].cancelled \/ timers[i].id = id)
  <2>1. timers'[i] = IF timers[i].id = id THEN [timers[i] EXCEPT !.cancelled = TRUE] ELSE timers[i]
    BY DEF ClearTimer
  <2>2. timers[i] \in Timer
    BY <1>2
  <2>3. CASE timers[i].id = id
    BY <2>1, <2>2, <2>3 DEF Timer
  <2>4. CASE timers[i].id # id
    <3>1. timers'[i] = timers[i] /\ timers[i].cancelled \in BOOLEAN
      BY <2>1, <2>2, <2>4 DEF Timer
    <3> QED BY <2>2, <2>4, <3>1
  <2> QED BY <2>3, <2>4
<1>5. timers' \in Seq(Timer)
  <2>1. timers' = [i \in 1..Len(timers) |-> timers'[i]]
    BY <1>1 DEF ClearTimer
  <2> QED BY <1>1, <1>4, <2>1
<1>6. UNCHANGED <<nextId, clock, queued, pc, goal, iterations, executed, running, last>>
      /\ cleared' = cleared \cup {id} /\ selfCleared \subseteq selfCleared'
      /\ selfCleared' \subseteq selfCleared \cup {id} 
  BY DEF ClearTimer
<1>7. id \in Ids /\ id \in 1..nextId' - 1
  BY <1>1, <1>6, TimerAssumption DEF TypeOK, Ids
<1>8. TypeOK'
  BY <1>1, <1>5, <1>6, <1>7 DEF TypeOK
<1>9. Listed(timers)'
  <2>1. Distinct(timers)' /\ Ordered(timers)'
    BY <1>1, <1>3, <1>4 DEF Distinct, Ordered, Listed
  <2>2. Older(timers)'
    BY <1>1, <1>3, <1>4, <1>6 DEF Older, Listed
  <2>3. Hushed(timers)'
    BY <1>1, <1>3, <1>4, <1>6 DEF Hushed, Listed
  <2> QED BY <1>5, <2>1, <2>2, <2>3 DEF Listed
<1>10. Turn'
  <2>1. running # NoTimer /\ running.id = id => id \in selfCleared'
    BY DEF ClearTimer
  <2> QED BY <1>3, <1>4, <1>6, <2>1 DEF Inv, Turn
<1>11. Past'
  <2>1. last # NoTimer => NotBefore(last, timers')
    BY <1>1, <1>3, <1>4 DEF Inv, Past, NotBefore
  <2> QED BY <1>6, <1>7, <2>1 DEF Inv, Past
<1> QED BY <1>8, <1>9, <1>10, <1>11 DEF Inv

(* The steps that leave the timers alone. *)
LEMMA QuietStep ==
  ASSUME Inv,
         \/ QueueMicrotask \/ BeginScript \/ Return \/ BeginMicrotask \/ EndMicrotask
         \/ CheckpointDone \/ CheckpointAborted \/ UNCHANGED vars
  PROVE  Inv'
<1>1. TypeOK /\ Turn
  BY DEF Inv
<1>2. queued \in Nat /\ queued <= MaxQueued /\ executed \in Nat /\ executed <= MicrotaskLimit
      /\ MaxQueued \in Nat /\ MicrotaskLimit \in Nat
  BY <1>1, TimerAssumption DEF TypeOK
<1>3. clock \in Nat
  BY <1>1, TimerAssumption DEF TypeOK, Times
<1>4. CASE QueueMicrotask
  <2>1. queued' \in 0..MaxQueued
    BY <1>2, <1>4 DEF QueueMicrotask
  <2>2. TypeOK'
    BY <1>1, <1>4, <2>1 DEF TypeOK, QueueMicrotask, history
  <2> QED BY <1>1, <1>3, <1>4, <2>2, OtherStep DEF QueueMicrotask, Turn
<1>5. CASE BeginScript
  <2>1. TypeOK'
    BY <1>1, <1>5 DEF TypeOK, BeginScript, history
  <2> QED BY <1>1, <1>3, <1>5, <2>1, OtherStep DEF BeginScript, Turn
<1>6. CASE Return
  <2>1. executed' \in 0..MicrotaskLimit
    BY <1>2, <1>6 DEF Return
  <2>2. TypeOK'
    BY <1>1, <1>6, <2>1 DEF TypeOK, Return, history
  <2> QED BY <1>3, <1>6, <2>2, OtherStep DEF Return
<1>7. CASE BeginMicrotask
  <2>1. queued' \in 0..MaxQueued /\ executed' \in 0..MicrotaskLimit
    BY <1>2, <1>7 DEF BeginMicrotask
  <2>2. TypeOK'
    BY <1>1, <1>7, <2>1 DEF TypeOK, BeginMicrotask, history
  <2> QED BY <1>3, <1>7, <2>2, OtherStep DEF BeginMicrotask
<1>8. CASE EndMicrotask
  <2>1. TypeOK'
    BY <1>1, <1>8 DEF TypeOK, EndMicrotask, AfterTask, history
  <2> QED BY <1>3, <1>8, <2>1, OtherStep DEF EndMicrotask, AfterTask
<1>9. CASE CheckpointDone
  <2>1. TypeOK'
    BY <1>1, <1>9 DEF TypeOK, CheckpointDone, AfterCheckpoint, history
  <2> QED BY <1>3, <1>9, <2>1, OtherStep DEF CheckpointDone, AfterCheckpoint
<1>10. CASE CheckpointAborted
  <2>1. queued' \in 0..MaxQueued
    BY <1>2, <1>10 DEF CheckpointAborted
  <2>2. TypeOK'
    BY <1>1, <1>10, <2>1 DEF TypeOK, CheckpointAborted, AfterCheckpoint, history
  <2> QED BY <1>3, <1>10, <2>2, OtherStep DEF CheckpointAborted, AfterCheckpoint
<1>11. CASE UNCHANGED vars
  <2>1. TypeOK'
    BY <1>1, <1>11 DEF TypeOK, vars, history
  <2> QED BY <1>1, <1>3, <1>11, <2>1, OtherStep DEF vars, Turn
<1> QED BY <1>4, <1>5, <1>6, <1>7, <1>8, <1>9, <1>10, <1>11

LEMMA BeginRunStep ==
  ASSUME Inv, NEW target \in Times, BeginRun(target)
  PROVE  Inv'
<1>1. TypeOK /\ Turn /\ clock \in Nat /\ 0 \in 0..MaxIterations
  BY TimerAssumption DEF Inv, TypeOK, Times
<1>2. TypeOK'
  BY <1>1 DEF TypeOK, BeginRun, history
<1> QED BY <1>1, <1>2, OtherStep DEF BeginRun, Turn

(* run_all runs to the last target there is. *)
LEMMA RunAllStep ==
  ASSUME Inv, RunAll
  PROVE  Inv'
<1> DEFINE targets == {t.target : t \in Active} \cup {0}
           target == CHOOSE m \in targets : \A n \in targets : n <= m
<1>1. MaxClock \in Nat
  BY TimerAssumption
<1>2. targets \in SUBSET Times
  BY <1>1, Typed DEF Inv, Active, Elements, Times
<1>3. targets \in SUBSET Nat /\ targets # {} /\ \A m \in targets : m <= MaxClock
  BY <1>1, <1>2 DEF Times
<1>4. IsFiniteSet(targets)
  BY <1>1, <1>3, FS_BoundedSetOfNaturals
<1>5. \E m \in targets : \A n \in targets : n <= m
  BY <1>3, <1>4, Extremes
<1>6. target \in Times
  <2> HIDE DEF targets
  <2> QED BY <1>2, <1>5
<1>7. BeginRun(target)
  BY DEF RunAll
<1> QED BY <1>6, <1>7, BeginRunStep

LEMMA RunAbortedStep ==
  ASSUME Inv, RunAborted
  PROVE  Inv'
<1>1. TypeOK /\ Turn /\ 0 \in Times /\ 0 \in 0..MaxIterations /\ clock \in Times /\ goal \in Times
  BY TimerAssumption DEF Inv, TypeOK, Times
<1>2. clock' \in Times /\ clock' >= clock
  BY <1>1, Sums DEF RunAborted
<1>3. TypeOK'
  BY <1>1, <1>2 DEF TypeOK, RunAborted
<1>4. clock <= clock'
  BY <1>1, <1>2, TimerAssumption DEF Times
<1> QED BY <1>1, <1>3, <1>4, OtherStep DEF RunAborted, Turn, history

LEMMA RunDoneStep ==
  ASSUME Inv, RunDone
  PROVE  Inv'
<1>1. /\ TypeOK /\ Turn /\ Listed(timers)
      /\ 0 \in Times /\ 0 \in 0..MaxIterations /\ clock \in Times /\ goal \in Times
  BY TimerAssumption DEF Inv, TypeOK, Times
<1>2. clock' \in Times /\ clock' >= clock
  BY <1>1, Sums DEF RunDone
<1>3. Retained \in Seq(Timer) /\ \E f : IsSublist(Retained, timers, f)
  BY <1>1, RetainedFacts DEF TypeOK
<1>4. Listed(Retained) /\ \A t : NotBefore(t, timers) => NotBefore(t, Retained)
  BY <1>1, <1>3, SublistListed
<1>5. timers' = Retained /\ running = NoTimer
      /\ UNCHANGED <<nextId, queued, executed, running, last, cleared, selfCleared>>
  BY <1>1 DEF RunDone, Turn
<1> HIDE DEF Retained
<1>6. TypeOK'
  BY <1>1, <1>2, <1>3, <1>5 DEF TypeOK, RunDone
<1>7. Listed(timers)'
  BY <1>4, <1>5 DEF Listed, Distinct, Ordered, Older, Hushed
<1>8. Turn'
  BY <1>1, <1>5 DEF Turn, RunDone
<1>9. Past'
  <2>1. last # NoTimer => last.target <= clock'
    <3>1. last # NoTimer => last.target \in Nat
      BY <1>1, Typed DEF TypeOK
    <3>2. clock \in Nat /\ clock' \in Nat
      BY <1>1, <1>2, TimerAssumption DEF Times
    <3> QED BY <1>2, <3>1, <3>2 DEF Inv, Past
  <2>2. last # NoTimer => NotBefore(last, timers')
    BY <1>4, <1>5 DEF Inv, Past
  <2> QED BY <1>5, <2>1, <2>2 DEF Inv, Past
<1> QED BY <1>6, <1>7, <1>8, <1>9 DEF Inv

(* The timer called is the earliest of the list, and leaves it. *)
LEMMA CallTimerStep ==
  ASSUME Inv, CallTimer
  PROVE  Inv'
<1> DEFINE list == Retained
           e == Earliest(list)
           n == Len(list)
           g == [k \in 1..n - 1 |-> IF k < e THEN k ELSE k + 1]
<1>1. TypeOK /\ Turn /\ Listed(timers) /\ clock \in Times
  BY DEF Inv, TypeOK
<1>2. list \in Seq(Timer) /\ (\E f : IsSublist(list, timers, f)) /\ Elements(list) = Active
  BY <1>1, RetainedFacts DEF TypeOK
<1>3. Listed(list)
  BY <1>1, <1>2, SublistListed
<1>4. Due(list) # {} /\ timers' = Without(list, e) /\ running' = list[e]
  BY DEF CallTimer
<1>5. clock' = ClockAt(running') /\ last' = running' /\ iterations' = NextIteration
      /\ NextIteration <= MaxIterations /\ pc' = "callback" /\ pc = "select"
      /\ UNCHANGED <<nextId, queued, goal, executed, cleared, selfCleared>>
  BY DEF CallTimer
<1> HIDE DEF list, e
<1>6. e \in Due(list) /\ e \in 1..n /\ \A j \in Due(list) :
        list[e].target < list[j].target \/ (list[e].target = list[j].target /\ e <= j)
  BY <1>2, <1>4, EarliestFacts DEF e
<1>7. n \in Nat /\ e \in Nat /\ DOMAIN list = 1..n /\ \A k \in 1..n : list[k] \in Timer
  BY <1>2, <1>6
<1>8. timers' \in Seq(Timer) /\ DOMAIN timers' = 1..n - 1
      /\ \A k \in 1..n - 1 : timers'[k] = list[IF k < e THEN k ELSE k + 1]
  <2>1. /\ Without(list, e) \in Seq(Timer) /\ Len(Without(list, e)) = n - 1
        /\ \A k \in 1..n - 1 : Without(list, e)[k] = list[IF k < e THEN k ELSE k + 1]
    BY <1>2, <1>6, WithoutFacts
  <2> QED BY <1>4, <2>1
<1>9. \A k \in 1..n - 1 : g[k] \in 1..n /\ g[k] # e /\ timers'[k] = list[g[k]]
  BY <1>6, <1>7, <1>8
<1>10. IsSublist(timers', list, g)
  <2>1. g \in [DOMAIN timers' -> DOMAIN list]
    BY <1>7, <1>8, <1>9
  <2>2. \A k, l \in 1..n - 1 : k < l => g[k] < g[l]
    BY <1>7
  <2> HIDE DEF g
  <2> QED BY <1>8, <1>9, <2>1, <2>2 DEF IsSublist
<1> HIDE DEF g
<1>11. running' \in Timer /\ ~running'.cancelled
  <2>1. list[e] \in Timer /\ list[e] \in Active
    BY <1>2, <1>6, <1>7 DEF Elements
  <2> QED BY <1>4, <2>1 DEF Active
<1>12. clock' \in Times /\ clock' >= clock /\ clock' >= running'.target
  <2>1. running'.target \in Times
    BY <1>11 DEF Timer
  <2> QED BY <1>1, <1>5, <2>1, Sums DEF ClockAt
<1>13. TypeOK'
  <2>1. iterations' \in 0..MaxIterations
    BY <1>1, <1>5, TimerAssumption DEF NextIteration, TypeOK
  <2> QED BY <1>1, <1>5, <1>8, <1>11, <1>12, <2>1 DEF TypeOK
<1>14. Listed(timers)'
  <2>1. Listed(timers')
    <3>1. timers' \in Seq(Timer)
      BY <1>8
    <3> HIDE DEF Listed
    <3> QED BY <1>1, <1>3, <1>10, <3>1, SublistListed
  <2> QED BY <1>5, <2>1 DEF Listed, Distinct, Ordered, Older, Hushed
<1>15. Turn'
  <2>1. \A k \in 1..n - 1 : timers'[k].id # running'.id
    BY <1>3, <1>4, <1>6, <1>7, <1>9 DEF Listed, Distinct
  <2>2. running'.id \in cleared => running'.id \in selfCleared
    BY <1>3, <1>4, <1>6, <1>7, <1>11 DEF Listed, Hushed
  <2>3. running' # NoTimer
    BY <1>11, NoTimerAssumption
  <2> QED BY <1>5, <1>8, <1>11, <2>1, <2>2, <2>3 DEF Turn
<1>16. NotBefore(running', timers')
  <2> SUFFICES ASSUME NEW k \in 1..n - 1
               PROVE  /\ timers'[k].target >= running'.target
                      /\ timers'[k].target = running'.target /\ timers'[k].interval = OneShot
                         => timers'[k].id > running'.id
    BY <1>8 DEF NotBefore
  <2> DEFINE j == g[k]
  <2>1. j \in 1..n /\ j # e /\ timers'[k] = list[j]
    BY <1>9
  <2>2. /\ list[j].target \in Nat /\ list[e].target \in Nat /\ list[j].id \in Nat /\ list[e].id \in Nat
        /\ goal \in Nat /\ j \in Nat /\ e \in Nat
    BY <1>1, <1>6, <1>7, <2>1, Typed
  <2> HIDE DEF j
  <2>3. CASE j \in Due(list)
    <3>1. list[e].target <= list[j].target /\ (list[e].target = list[j].target => e < j)
      BY <1>6, <2>1, <2>2, <2>3
    <3>2. e < j /\ list[j].interval = OneShot => list[e].id < list[j].id
      BY <1>3, <1>6, <1>7, <2>1 DEF Listed, Ordered
    <3> QED BY <1>4, <2>1, <2>2, <3>1, <3>2
  <2>4. CASE j \notin Due(list)
    <3>1. list[e].target <= goal /\ ~(list[j].target <= goal)
      BY <1>6, <1>7, <2>1, <2>4 DEF Due
    <3>2. list[e].target < list[j].target
      BY <2>2, <3>1
    <3> QED BY <1>4, <2>1, <2>2, <3>2
  <2> QED BY <2>3, <2>4
<1>17. Past'
  <2>1. running'.id < nextId
    BY <1>3, <1>4, <1>6, <1>7 DEF Listed, Older
  <2>2. running'.target <= clock'
    BY <1>11, <1>12, <1>1, TimerAssumption, Typed DEF Times
  <2>3. cleared' \subseteq 1..nextId' - 1
    BY <1>5 DEF Inv, Past
  <2> QED BY <1>5, <1>16, <2>1, <2>2, <2>3 DEF Past
<1> QED BY <1>13, <1>14, <1>15, <1>17 DEF Inv

(* An interval goes back to the end of the list, with a later target. *)
LEMMA RescheduleStep ==
  ASSUME Inv, Reschedule
  PROVE  Inv'
<1> DEFINE n == Len(timers)
           again == [running EXCEPT !.target = Saturate(@ + running.interval)]
<1>1. TypeOK /\ Listed(timers) /\ n \in Nat /\ DOMAIN timers = 1..n /\ timers \in Seq(Timer)
  BY Typed DEF Inv
<1>2. /\ running \in Timer /\ last = running /\ ~running.cancelled /\ running # NoTimer
      /\ \A i \in 1..n : timers[i].id # running.id
      /\ running.id \in cleared => running.id \in selfCleared
      /\ running.id < nextId
  <2>1. running # NoTimer
    BY DEF Inv, Turn, Reschedule
  <2> QED BY <1>1, <2>1 DEF Inv, Turn, Past, TypeOK
<1>3. running' = NoTimer /\ pc' = "select"
      /\ UNCHANGED <<nextId, clock, queued, goal, iterations, executed, history>>
  BY DEF Reschedule
<1>4. CASE timers' = timers
  <2>1. TypeOK'
    BY <1>1, <1>3, <1>4 DEF TypeOK, history
  <2>2. Listed(timers)'
    BY <1>1, <1>3, <1>4 DEF Listed, Distinct, Ordered, Older, Hushed, history
  <2>3. Turn' /\ Past'
    BY <1>3, <1>4 DEF Inv, Turn, Past, NotBefore, history
  <2> QED BY <2>1, <2>2, <2>3 DEF Inv
<1>5. CASE running.interval # OneShot /\ timers' = Append(timers, again)
  <2>1. /\ again \in Timer /\ again.id = running.id /\ again.target >= running.target
        /\ again.interval # OneShot /\ ~again.cancelled
    <3>1. running.target \in Times /\ running.interval \in Times
      BY <1>2 DEF Timer
    <3>2. Saturate(running.target + running.interval) \in Times
          /\ Saturate(running.target + running.interval) >= running.target
      BY <3>1, Sums
    <3> QED BY <1>2, <1>5, <3>2 DEF Timer
  <2> HIDE DEF again
  <2>2. /\ timers' \in Seq(Timer) /\ DOMAIN timers' = 1..n + 1
        /\ \A i \in 1..n : timers'[i] = timers[i]
        /\ timers'[n + 1] = again
    <3>1. Append(timers, again) \in Seq(Timer) /\ Len(Append(timers, again)) = n + 1
      BY <1>1, <2>1
    <3>2. (\A i \in 1..n : Append(timers, again)[i] = timers[i]) /\ Append(timers, again)[n + 1] = again
      BY <1>1
    <3> QED BY <1>5, <3>1, <3>2
  <2>3. TypeOK'
    BY <1>1, <1>3, <2>2 DEF TypeOK, history
  <2>4. Distinct(timers)'
    BY <1>1, <1>2, <2>1, <2>2 DEF Distinct, Listed
  <2>5. Ordered(timers)'
    BY <1>1, <2>1, <2>2 DEF Ordered, Listed
  <2>6. Older(timers)'
    BY <1>1, <1>2, <1>3, <2>1, <2>2 DEF Older, Listed
  <2>7. Hushed(timers)'
    BY <1>1, <1>2, <1>3, <2>1, <2>2 DEF Hushed, Listed, history
  <2>8. Listed(timers)'
    BY <2>2, <2>4, <2>5, <2>6, <2>7 DEF Listed
  <2>9. Turn'
    BY <1>3 DEF Turn
  <2>10. NotBefore(running, timers')
    <3> SUFFICES ASSUME NEW i \in 1..n + 1, ~timers'[i].cancelled
                 PROVE  /\ timers'[i].target >= running.target
                        /\ timers'[i].target = running.target /\ timers'[i].interval = OneShot
                           /\ running.interval = OneShot => timers'[i].id > running.id
      BY <2>2 DEF NotBefore
    <3>1. CASE i \in 1..n
      BY <1>1, <1>2, <2>2, <3>1 DEF Inv, Past, NotBefore
    <3>2. CASE i = n + 1
      BY <2>1, <2>2, <3>2
    <3> QED BY <1>1, <3>1, <3>2
  <2>11. Past'
    BY <1>2, <1>3, <2>10 DEF Inv, Past, history
  <2> QED BY <2>3, <2>8, <2>9, <2>11 DEF Inv
<1> QED BY <1>4, <1>5 DEF Reschedule

-----------------------------------------------------------------------------
(* The theorems *)

LEMMA NextInv == Inv /\ [Next]_vars => Inv'
<1> SUFFICES ASSUME Inv, [Next]_vars PROVE Inv'
  OBVIOUS
<1>1. CASE Host
  <2>1. ASSUME NEW ms \in Times, AdvanceTime(ms) PROVE Inv'
    <3>1. Saturate(clock + ms) \in Times
      BY Sums DEF Inv, TypeOK
    <3> QED BY <2>1, <3>1, BeginRunStep DEF AdvanceTime
  <2> QED BY <1>1, <2>1, QuietStep, RunAllStep DEF Host
<1>2. CASE Script
  <2>1. ASSUME NEW delay \in Delays, SetTimeout(delay) PROVE Inv'
    <3>1. delay \in Times /\ OneShot \in Times
      BY TimerAssumption DEF Times, OneShot
    <3> QED BY <2>1, <3>1, SetTimerStep DEF SetTimeout
  <2>2. ASSUME NEW delay \in Delays, SetInterval(delay) PROVE Inv'
    <3>1. delay \in Times /\ 1 \in Times
      BY TimerAssumption DEF Times
    <3>2. Later(delay, 1) \in Times
      BY <3>1, Sums
    <3> QED BY <2>2, <3>2, SetTimerStep DEF SetInterval
  <2> QED BY <1>2, <2>1, <2>2, ClearTimerStep, QuietStep DEF Script
<1>3. CASE Loop
  BY <1>3, QuietStep, CallTimerStep, RescheduleStep, RunDoneStep, RunAbortedStep DEF Loop
<1>4. CASE UNCHANGED vars
  BY <1>4, QuietStep
<1> QED BY <1>1, <1>2, <1>3, <1>4 DEF Next

THEOREM Invariance == Spec => []Inv
  BY InitInv, NextInv, PTL DEF Spec

(* Type correctness (timer_queue.rs): for all delays, clocks and limits,   *)
(* however many timers are set.                                            *)
THEOREM TimerTypeCorrect == Spec => []TypeOK
<1>1. Inv => TypeOK
  BY DEF Inv
<1> QED BY <1>1, Invariance, PTL

(* No id is in the list twice, nor in the list while its callback runs     *)
(* (run_until, remove and push).                                           *)
THEOREM ScheduledOnceCorrect == Spec => []ScheduledOnce
<1>1. Inv => ScheduledOnce
  BY DEF Inv, Listed, Distinct, Turn, ScheduledOnce
<1> QED BY <1>1, Invariance, PTL

(* Timers fire by target, and timeouts with equal targets in the order     *)
(* they were set (run_until).                                              *)
THEOREM FiresInOrderCorrect == Spec => []FiresInOrder
<1>1. Inv => FiresInOrder
  BY DEF Inv, Past, NotBefore, FiresInOrder, Active, Elements
<1> QED BY <1>1, Invariance, PTL

(* A timer cleared outside its own turn never fires afterwards (clear_timer *)
(* and the retain of run_until).                                           *)
THEOREM ClearedStaysQuietCorrect == Spec => ClearedStaysQuiet
<1> DEFINE Quiet == running = NoTimer /\ running' # NoTimer => running'.id \notin cleared \ selfCleared
<1>1. Inv /\ Inv' /\ [Next]_vars => [Quiet]_vars
  <2> SUFFICES ASSUME Inv, Inv', Next, running = NoTimer, running' # NoTimer
               PROVE  running'.id \notin cleared \ selfCleared
    BY DEF Quiet
  <2>1. CallTimer
    BY DEF Next, Host, BeginScript, RunAll, AdvanceTime, BeginRun, Script, SetTimeout, SetInterval,
           SetTimer, ClearTimer, QueueMicrotask, Loop, Return, BeginMicrotask, EndMicrotask,
           CheckpointDone, CheckpointAborted, Reschedule, RunDone, RunAborted
  <2>2. cleared' = cleared /\ selfCleared' = selfCleared
    BY <2>1 DEF CallTimer
  <2> QED BY <2>2 DEF Inv, Turn
<1> QED BY <1>1, Invariance, PTL DEF Spec, ClearedStaysQuiet
=============================================================================
