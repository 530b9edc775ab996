---------------------------- MODULE ShapesProofs ----------------------------
(***************************************************************************)
(* The caches never mistake the properties of an object, however long the  *)
(* program runs, however many objects share its hidden classes and however *)
(* often the address of a map is used again, until a store goes through an *)
(* entry whose map was freed.                                              *)
(***************************************************************************)
EXTENDS Shapes, SequenceTheorems, WellFoundedInduction, TLAPS

-----------------------------------------------------------------------------
(* Counting *)

(* A set of numbers that is not empty has a least one. *)
LEMMA Least ==
  ASSUME NEW S \in SUBSET Nat, S # {}
  PROVE  \E m \in S : \A i \in S : m <= i
<1> DEFINE R == OpToRel(<, Nat)
<1>1. IsWellFoundedOn(R, Nat)
  BY NatLessThanWellFounded
<1>2. \A i, j \in Nat : i < j => <<i, j>> \in R
  BY DEF OpToRel
<1>3. S \subseteq Nat
  OBVIOUS
<1> HIDE DEF R
<1>4. PICK m \in S : \A i \in S : <<i, m>> \notin R
  BY <1>1, <1>3, WFMin
<1>5. ASSUME NEW i \in S PROVE m <= i
  <2>1. ~(i < m)
    BY <1>2, <1>4
  <2> QED BY <2>1
<1> QED BY <1>5

(* Steps from each number to the next reach every number. *)
LEMMA Induction ==
  ASSUME NEW last \in Nat, NEW S, 0 \in S, \A k \in 1..last : k - 1 \in S => k \in S
  PROVE  \A k \in 0..last : k \in S
<1> DEFINE missing == (0..last) \ S
<1> SUFFICES ASSUME missing # {} PROVE FALSE
  OBVIOUS
<1>1. missing \in SUBSET Nat
  OBVIOUS
<1>2. PICK m \in missing : \A i \in missing : m <= i
  BY <1>1, Least
<1>3. m \in 1..last /\ m - 1 \in 0..last
  BY <1>2
<1>4. m - 1 \notin missing
  BY <1>2, <1>3
<1> QED BY <1>2, <1>3, <1>4

(* The values a function takes when it is applied over and over. *)
Iterated(f, last, D, start, step) ==
  f \in [0..last -> D] /\ f[0] = start /\ \A k \in 1..last : f[k] = step[k][f[k - 1]]
LEMMA Iterates ==
  ASSUME NEW last \in Nat, NEW D, NEW start \in D, NEW step \in [1..last -> [D -> D]]
  PROVE  \E f : Iterated(f, last, D, start, step)
<1> DEFINE Up(f, n) == f \in [0..n -> D] /\ f[0] = start /\ \A k \in 1..n : f[k] = step[k][f[k - 1]]
           S == {n \in 0..last : \E f : Up(f, n)}
<1>1. 0 \in S
  <2> DEFINE f == [k \in 0..0 |-> start]
  <2>1. f \in [0..0 -> D] /\ f[0] = start /\ \A k \in 1..0 : f[k] = step[k][f[k - 1]]
    OBVIOUS
  <2>2. Up(f, 0) /\ 0 \in 0..last
    BY <2>1
  <2> QED BY <2>2
<1>2. ASSUME NEW n \in 1..last, n - 1 \in S PROVE n \in S
  <2>1. PICK f : Up(f, n - 1)
    BY <1>2
  <2> DEFINE g == [k \in 0..n |-> IF k = n THEN step[n][f[n - 1]] ELSE f[k]]
  <2>2. step[n] \in [D -> D] /\ f[n - 1] \in D
    BY <2>1
  <2>3. g \in [0..n -> D]
    BY <2>1, <2>2
  <2>4. g[0] = start
    BY <2>1
  <2>5. ASSUME NEW k \in 1..n PROVE g[k] = step[k][g[k - 1]]
    <3>1. g[k - 1] = f[k - 1]
      OBVIOUS
    <3>2. CASE k = n
      BY <3>1, <3>2
    <3>3. CASE k # n
      BY <2>1, <3>1, <3>3
    <3> QED BY <3>2, <3>3
  <2>6. Up(g, n)
    BY <2>3, <2>4, <2>5
  <2> HIDE DEF Up
  <2> QED BY <2>6
<1>3. last \in S
  <2> HIDE DEF S
  <2>1. \A k \in 0..last : k \in S
    BY <1>1, <1>2, Induction
  <2> QED BY <2>1
<1> QED BY <1>3 DEF Iterated

-----------------------------------------------------------------------------
(* The invariant *)

(* M says what is at the addresses, K which of them are known to be maps.  *)
(* The properties of M[m] have names of their own, a dictionary has none   *)
(* here, and a transition leads to a map with one name more.               *)
GoodMap(M, K, m) ==
  /\ \A i, j \in DOMAIN M[m].descriptors : M[m].descriptors[i] = M[m].descriptors[j] => i = j
  /\ M[m].dictionary => M[m].descriptors = <<>>
  /\ \A n \in Name : M[m].transitions[n] # Nobody =>
       /\ M[m].transitions[n] \in K
       /\ ~M[M[m].transitions[n]].dictionary
       /\ M[M[m].transitions[n]].descriptors = Append(M[m].descriptors, n)
Tree(M, K) ==
  /\ M \in [Address -> Map] /\ K \subseteq Address /\ RootMap \in K
  /\ \A m \in K : GoodMap(M, K, m)
  /\ M[RootMap].descriptors = <<>> /\ ~M[RootMap].dictionary

(* What the caches rely on: a map keeps its fields. *)
Grows(M, K, N, L) ==
  /\ K \subseteq L
  /\ \A m \in K : N[m].descriptors = M[m].descriptors /\ N[m].dictionary = M[m].dictionary

(* The object has a slot for each field of its map, and what it shows of   *)
(* the name n.                                                             *)
Fits(M, K, x) ==
  /\ x \in JSObject
  /\ x.map # Nobody => x.map \in K /\ Len(x.properties) = Len(M[x.map].descriptors)
Shows(M, x, n) ==
  IF M[x.map].dictionary THEN x.dictionary[n]
  ELSE IF HasField(M[x.map], n) THEN x.properties[FieldOf(M[x.map], n)]
  ELSE Undefined

(* An entry that is not among the dangling ones D is for a map that has    *)
(* the name in that field, that lacks the name, that leads to the target   *)
(* with the name.  A target is a map in any case.                          *)
FieldRight(M, K, e, n) ==
  /\ e.map \in K /\ e.field \in DOMAIN M[e.map].descriptors
  /\ M[e.map].descriptors[e.field] = n
FieldsRight(M, K, D, cache) ==
  /\ cache \in [Site -> FieldEntry \cup {Nobody}]
  /\ \A s \in Site : cache[s] # Nobody /\ <<"field", s>> \notin D => FieldRight(M, K, cache[s], s[2])
MethodRight(M, K, e, n) ==
  e.map \in K /\ ~M[e.map].dictionary /\ ~HasField(M[e.map], n)
MethodsRight(M, K, D, cache) ==
  /\ cache \in [Site -> MethodEntry \cup {Nobody}]
  /\ \A s \in Site : cache[s] # Nobody /\ <<"method", s>> \notin D => MethodRight(M, K, cache[s], s[2])
TransitionRight(M, K, e, n) ==
  /\ e.map \in K
  /\ ~M[e.map].dictionary /\ ~M[e.target].dictionary
  /\ M[e.target].descriptors = Append(M[e.map].descriptors, n)
TransitionsRight(M, K, D, cache) ==
  /\ cache \in [Site -> TransitionEntry \cup {Nobody}]
  /\ \A s \in Site : cache[s] # Nobody =>
       /\ cache[s].target \in K
       /\ <<"transition", s>> \notin D => TransitionRight(M, K, cache[s], s[2])

ObjectsRight(M, K, objs) ==
  objs \in [Object -> JSObject] /\ \A o \in Object : Fits(M, K, objs[o])
PoolRight ==
  /\ pool \in Seq(Object) /\ Len(pool) <= PoolSize
  /\ \A i \in DOMAIN pool : objects[pool[i]].map # Nobody
CachesRight(M, K, D, fields, methods, transitions, map) ==
  /\ FieldsRight(M, K, D, fields) /\ MethodsRight(M, K, D, methods)
  /\ TransitionsRight(M, K, D, transitions)
  /\ map \in K \cup {Nobody}
LiteralRight ==
  /\ literal \in [object : Object \cup {Nobody}, next : 1..Names + 1]
  /\ IF literal.object = Nobody THEN literal = NoLiteral ELSE objects[literal.object].map # Nobody
HistoryRight ==
  /\ written \in [Object -> [Name -> Value \cup {Undefined}]]
  /\ \A o \in Live, n \in Name : Shows(maps, objects[o], n) = written[o][n]

Sound ==
  /\ Tree(maps, held) /\ ObjectsRight(maps, held, objects) /\ PoolRight
  /\ CachesRight(maps, held, dangling, propertyCache, methodCache, transitionCache, boilerplate)
  /\ LiteralRight /\ HistoryRight /\ dangling \subseteq Entry

(* After a store that was misled only the types are left. *)
Inv == misled \in BOOLEAN /\ IF misled THEN TypeOK ELSE Sound

(* What a step leaves before anything is freed: K are the maps known then, *)
(* and an entry dangles if it did and was not written.                     *)
Kept == {e \in dangling : EntryOf(e)' = EntryOf(e)}
CachesAfter(K) ==
  CachesRight(maps', K, Kept, propertyCache', methodCache', transitionCache', boilerplate')
After(K) ==
  /\ Tree(maps', K) /\ ObjectsRight(maps', K, objects') /\ PoolRight'
  /\ CachesAfter(K) /\ LiteralRight' /\ HistoryRight'

-----------------------------------------------------------------------------
(* Maps *)

LEMMA Constants ==
  /\ Names \in Nat /\ MaxObjects \in Nat /\ Nobody \notin Nat
  /\ RootMap \in Address /\ Object \subseteq Nat /\ Name \subseteq Nat
  /\ Nobody \notin Object /\ Nobody \notin Address
BY ShapesAssumption DEF Object, Name

(* The types of the parts of a map. *)
LEMMA MapParts ==
  ASSUME NEW M, NEW K, Tree(M, K), NEW m \in K
  PROVE  /\ M[m] \in Map /\ m \in Address /\ M[m].descriptors \in Seq(Name)
         /\ Len(M[m].descriptors) \in Nat
         /\ M[m].transitions \in [Name -> Address \cup {Nobody}]
         /\ M[m].prototype \in Object \cup {Nobody} /\ M[m].dictionary \in BOOLEAN
         /\ GoodMap(M, K, m)
<1>1. M \in [Address -> Map] /\ m \in Address /\ GoodMap(M, K, m)
  BY DEF Tree
<1>2. M[m] \in Map
  BY <1>1
<1>3. /\ M[m].descriptors \in Seq(Name) /\ M[m].transitions \in [Name -> Address \cup {Nobody}]
      /\ M[m].prototype \in Object \cup {Nobody} /\ M[m].dictionary \in BOOLEAN
  BY <1>2 DEF Map
<1> QED BY <1>1, <1>2, <1>3

(* One more map, whose transitions lead where they should, at an address   *)
(* where none is known.                                                    *)
Addable(M, K, new) ==
  /\ new \in Map
  /\ \A i, j \in DOMAIN new.descriptors : new.descriptors[i] = new.descriptors[j] => i = j
  /\ new.dictionary => new.descriptors = <<>>
  /\ \A n \in Name : new.transitions[n] # Nobody =>
       /\ new.transitions[n] \in K /\ ~M[new.transitions[n]].dictionary
       /\ M[new.transitions[n]].descriptors = Append(new.descriptors, n)
LEMMA MapAdded ==
  ASSUME NEW M, NEW K, Tree(M, K), NEW a \in Address \ K, NEW new, Addable(M, K, new)
  PROVE  /\ Tree([M EXCEPT ![a] = new], K \cup {a})
         /\ Grows(M, K, [M EXCEPT ![a] = new], K \cup {a})
         /\ [M EXCEPT ![a] = new][a] = new
<1> DEFINE N == [M EXCEPT ![a] = new]
<1>1. M \in [Address -> Map] /\ K \subseteq Address /\ new \in Map
  BY DEF Tree, Addable
<1>2. N \in [Address -> Map] /\ N[a] = new /\ \A m \in K : N[m] = M[m]
  BY <1>1
<1> HIDE DEF N
<1>3. Grows(M, K, N, K \cup {a})
  BY <1>2 DEF Grows
<1>4. ASSUME NEW m \in K \cup {a} PROVE GoodMap(N, K \cup {a}, m)
  <2>1. CASE m \in K
    <3>1. GoodMap(M, K, m) /\ N[m] = M[m]
      BY <1>2, <2>1 DEF Tree
    <3> QED BY <1>2, <3>1 DEF GoodMap
  <2>2. CASE m = a
    BY <1>2, <2>2 DEF GoodMap, Addable
  <2> QED BY <2>1, <2>2
<1>5. N[RootMap].descriptors = <<>> /\ ~N[RootMap].dictionary /\ RootMap \in K
  BY <1>2 DEF Tree
<1>6. Tree(N, K \cup {a})
  BY <1>1, <1>2, <1>4, <1>5 DEF Tree
<1> QED BY <1>2, <1>3, <1>6 DEF N

(* The prototype of a map says nothing of its fields. *)
LEMMA PrototypeWritten ==
  ASSUME NEW M, NEW K, Tree(M, K), NEW m \in K, NEW p \in Object \cup {Nobody}
  PROVE  Tree([M EXCEPT ![m].prototype = p], K) /\ Grows(M, K, [M EXCEPT ![m].prototype = p], K)
<1> DEFINE N == [M EXCEPT ![m].prototype = p]
           changed == [M[m] EXCEPT !.prototype = p]
<1>1. M \in [Address -> Map] /\ M[m] \in Map /\ K \subseteq Address /\ m \in Address
  BY MapParts DEF Tree
<1>2. changed \in Map
  BY <1>1 DEF Map
<1>3. N = [M EXCEPT ![m] = changed]
  BY <1>1
<1>4. N \in [Address -> Map] /\ \A k \in Address : N[k] = IF k = m THEN changed ELSE M[k]
  <2> HIDE DEF N, changed
  <2> QED BY <1>1, <1>2, <1>3
<1>5. ASSUME NEW k \in K
      PROVE  /\ N[k].descriptors = M[k].descriptors /\ N[k].dictionary = M[k].dictionary
             /\ N[k].transitions = M[k].transitions
  <2>1. /\ changed.descriptors = M[m].descriptors /\ changed.dictionary = M[m].dictionary
        /\ changed.transitions = M[m].transitions
    BY <1>1 DEF Map
  <2> HIDE DEF N, changed
  <2> QED BY <1>1, <1>4, <2>1
<1> HIDE DEF N
<1>6. Grows(M, K, N, K)
  BY <1>5 DEF Grows
<1>7. ASSUME NEW k \in K PROVE GoodMap(N, K, k)
  <2>1. GoodMap(M, K, k)
    BY DEF Tree
  <2> QED BY <1>5, <2>1 DEF GoodMap
<1>8. RootMap \in K
  BY DEF Tree
<1>9. Tree(N, K)
  BY <1>1, <1>4, <1>5, <1>7, <1>8 DEF Tree
<1> QED BY <1>6, <1>9 DEF N

(* A transition to a map with one name more. *)
LEMMA TransitionWritten ==
  ASSUME NEW M, NEW K, Tree(M, K), NEW m \in K, NEW n \in Name, NEW t \in K,
         ~M[t].dictionary, M[t].descriptors = Append(M[m].descriptors, n)
  PROVE  /\ Tree([M EXCEPT ![m].transitions[n] = t], K)
         /\ Grows(M, K, [M EXCEPT ![m].transitions[n] = t], K)
<1> DEFINE N == [M EXCEPT ![m].transitions[n] = t]
           to == [M[m].transitions EXCEPT ![n] = t]
           changed == [M[m] EXCEPT !.transitions = to]
<1>1. /\ M \in [Address -> Map] /\ M[m] \in Map /\ t \in Address /\ m \in Address /\ K \subseteq Address
      /\ M[m].transitions \in [Name -> Address \cup {Nobody}]
  BY MapParts DEF Tree
<1>2. to \in [Name -> Address \cup {Nobody}] /\ \A x \in Name : to[x] = IF x = n THEN t ELSE M[m].transitions[x]
  BY <1>1
<1>3. /\ changed \in Map /\ changed.transitions = to
      /\ changed.descriptors = M[m].descriptors /\ changed.dictionary = M[m].dictionary
  <2> HIDE DEF to
  <2> QED BY <1>1, <1>2 DEF Map
<1>4. N = [M EXCEPT ![m] = changed]
  BY <1>1
<1>5. N \in [Address -> Map] /\ \A k \in Address : N[k] = IF k = m THEN changed ELSE M[k]
  <2> HIDE DEF N, changed
  <2> QED BY <1>1, <1>3, <1>4
<1> HIDE DEF N, changed, to
<1>6. ASSUME NEW k \in K
      PROVE  /\ N[k].descriptors = M[k].descriptors /\ N[k].dictionary = M[k].dictionary
             /\ N[k].transitions = IF k = m THEN to ELSE M[k].transitions
  BY <1>1, <1>3, <1>5
<1>7. Grows(M, K, N, K)
  BY <1>6 DEF Grows
<1>8. ASSUME NEW k \in K PROVE GoodMap(N, K, k)
  <2>1. GoodMap(M, K, k)
    BY DEF Tree
  <2>2. ASSUME NEW x \in Name, N[k].transitions[x] # Nobody
        PROVE  /\ N[k].transitions[x] \in K
               /\ ~N[N[k].transitions[x]].dictionary
               /\ N[N[k].transitions[x]].descriptors = Append(N[k].descriptors, x)
    <3>1. CASE k = m /\ x = n
      <4>1. N[k].transitions[x] = t
        BY <1>2, <1>6, <3>1
      <4> QED BY <1>6, <3>1, <4>1
    <3>2. CASE ~(k = m /\ x = n)
      <4>1. N[k].transitions[x] = M[k].transitions[x]
        BY <1>2, <1>6, <3>2
      <4> QED BY <1>6, <2>1, <2>2, <4>1 DEF GoodMap
    <3> QED BY <3>1, <3>2
  <2> QED BY <1>6, <2>1, <2>2 DEF GoodMap
<1>9. RootMap \in K
  BY DEF Tree
<1>10. Tree(N, K)
  BY <1>1, <1>5, <1>6, <1>8, <1>9 DEF Tree
<1> QED BY <1>7, <1>10 DEF N

(* transition_to_property, which finds or makes the map with n after m. *)
LEMMA TransitionTaken ==
  ASSUME Tree(maps, held), NEW m \in held, NEW n \in Name, NEW t \in Targets(m, n),
         ~maps[m].dictionary, ~HasField(maps[m], n)
  PROVE  LET N == WithTransition(m, n, t)
             K == held \cup {t}
         IN  /\ Tree(N, K) /\ Grows(maps, held, N, K) /\ t # m /\ t \in Address
             /\ ~N[t].dictionary /\ N[t].descriptors = Append(maps[m].descriptors, n)
<1> DEFINE N == WithTransition(m, n, t)
           K == held \cup {t}
           d == maps[m].descriptors
<1>1. /\ maps[m] \in Map /\ d \in Seq(Name) /\ GoodMap(maps, held, m) /\ maps \in [Address -> Map]
      /\ maps[m].transitions \in [Name -> Address \cup {Nobody}] /\ held \subseteq Address
      /\ maps[m].prototype \in Object \cup {Nobody} /\ maps[m].dictionary = FALSE
      /\ m \in Address
  BY MapParts DEF Tree
<1>2. CASE Target(m, n) # Nobody
  <2>1. N = maps /\ t = maps[m].transitions[n]
    BY <1>2 DEF WithTransition, Targets, Target
  <2>2. t \in held /\ ~maps[t].dictionary /\ maps[t].descriptors = Append(d, n)
    BY <1>1, <1>2, <2>1 DEF GoodMap, Target
  <2>3. t # m
    <3>1. Append(d, n) # d
      <4> HIDE DEF d
      <4> QED BY <1>1
    <3> QED BY <2>2, <3>1
  <2>4. K = held /\ Grows(maps, held, maps, held)
    BY <2>2 DEF Grows
  <2> QED BY <1>1, <2>1, <2>2, <2>3, <2>4
<1>3. CASE Target(m, n) = Nobody
  <2> DEFINE new == Extended(m, n)
             M == [maps EXCEPT ![t] = new]
             P == [M EXCEPT ![m].transitions[n] = t]
  <2>1. t \in Address \ held /\ t # m
    BY <1>3 DEF Targets, Available
  <2>2. /\ new \in Map /\ new.descriptors = Append(d, n) /\ ~new.dictionary
        /\ \A x \in Name : new.transitions[x] = Nobody
    <3>1. Append(d, n) \in Seq(Name) /\ [x \in Name |-> Nobody] \in [Name -> Address \cup {Nobody}]
      BY <1>1
    <3> DEFINE half == [maps[m] EXCEPT !.descriptors = Append(d, n)]
               none == [x \in Name |-> Nobody]
    <3>2. new = [half EXCEPT !.transitions = none]
      BY DEF Extended
    <3>4. half \in Map /\ half.descriptors = Append(d, n) /\ half.dictionary = FALSE
      <4> DEFINE r == maps[m]
                 names == Append(d, n)
      <4>1. r \in Map /\ names \in Seq(Name) /\ r.dictionary = FALSE
        BY <1>1, <3>1
      <4> HIDE DEF r, names
      <4>2. /\ [r EXCEPT !.descriptors = names] \in Map
            /\ [r EXCEPT !.descriptors = names].descriptors = names
            /\ [r EXCEPT !.descriptors = names].dictionary = FALSE
        BY <4>1 DEF Map
      <4> QED BY <4>2 DEF r, names
    <3>5. none \in [Name -> Address \cup {Nobody}] /\ \A x \in Name : none[x] = Nobody
      OBVIOUS
    <3> HIDE DEF new, half, none
    <3>6. new \in Map /\ new.transitions = none /\ new.descriptors = half.descriptors
          /\ new.dictionary = half.dictionary
      BY <3>2, <3>4, <3>5 DEF Map
    <3> QED BY <3>4, <3>5, <3>6
  <2>3. \A i, j \in DOMAIN new.descriptors : new.descriptors[i] = new.descriptors[j] => i = j
    <3>1. \A i, j \in DOMAIN d : d[i] = d[j] => i = j
      BY <1>1 DEF GoodMap
    <3>2. \A i \in DOMAIN d : d[i] # n
      BY DEF HasField, Elements
    <3> HIDE DEF d
    <3> QED BY <1>1, <2>2, <3>1, <3>2
  <2>4. Tree(M, K) /\ Grows(maps, held, M, K) /\ M[t] = new
    <3>1. Addable(maps, held, new)
      <4>1. new.dictionary => new.descriptors = <<>>
        BY <2>2
      <4>2. \A x \in Name : new.transitions[x] # Nobody => FALSE
        BY <2>2
      <4> HIDE DEF new, d
      <4> QED BY <2>2, <2>3, <4>1, <4>2 DEF Addable
    <3> HIDE DEF new
    <3> QED BY <2>1, <3>1, MapAdded
  <2>5. M[m] = maps[m] /\ M[t].descriptors = Append(M[m].descriptors, n) /\ ~M[t].dictionary
    <3>1. M[m] = maps[m]
      <4> HIDE DEF new
      <4> QED BY <1>1, <2>1
    <3> HIDE DEF M, new
    <3> QED BY <2>2, <2>4, <3>1
  <2>6. N = P
    <3>1. N = [maps EXCEPT ![m].transitions[n] = t, ![t] = new]
      BY <1>3 DEF WithTransition
    <3> DEFINE changed == [maps[m] EXCEPT !.transitions[n] = t]
    <3>2. [maps EXCEPT ![m].transitions[n] = t, ![t] = new]
            = [[maps EXCEPT ![m] = changed] EXCEPT ![t] = new]
      <4> HIDE DEF new
      <4> QED BY <1>1
    <3>3. P = [M EXCEPT ![m] = [M[m] EXCEPT !.transitions[n] = t]]
      <4>1. M \in [Address -> Map]
        BY <1>1, <2>2
      <4> HIDE DEF M
      <4> QED BY <1>1, <4>1
    <3>4. P = [M EXCEPT ![m] = changed]
      <4> HIDE DEF M, P
      <4> QED BY <2>5, <3>3
    <3>5. [[maps EXCEPT ![m] = changed] EXCEPT ![t] = new] = [M EXCEPT ![m] = changed]
      <4> HIDE DEF new, changed
      <4> QED BY <1>1, <2>1
    <3> HIDE DEF P, M, N, changed, new
    <3> QED BY <3>1, <3>2, <3>4, <3>5
  <2>7. Tree(P, K) /\ Grows(M, K, P, K)
    <3> HIDE DEF M, new
    <3> QED BY <2>4, <2>5, TransitionWritten
  <2> HIDE DEF P, M, N, new, d
  <2>8. P[t].descriptors = M[t].descriptors /\ P[t].dictionary = M[t].dictionary
    BY <2>7 DEF Grows
  <2>9. Grows(maps, held, P, K)
    BY <2>4, <2>7 DEF Grows
  <2>10. M[t].descriptors = Append(d, n) /\ ~M[t].dictionary
    BY <2>2, <2>4
  <2> QED BY <2>1, <2>6, <2>7, <2>8, <2>9, <2>10 DEF N, d
<1> QED BY <1>2, <1>3

(* The fields of a map, by their names. *)
LEMMA Fields ==
  ASSUME NEW M, NEW K, Tree(M, K), NEW m \in K
  PROVE  /\ \A i \in DOMAIN M[m].descriptors :
              HasField(M[m], M[m].descriptors[i]) /\ FieldOf(M[m], M[m].descriptors[i]) = i
         /\ \A n : HasField(M[m], n) =>
              FieldOf(M[m], n) \in DOMAIN M[m].descriptors /\ M[m].descriptors[FieldOf(M[m], n)] = n
<1> DEFINE d == M[m].descriptors
<1>1. \A i, j \in DOMAIN d : d[i] = d[j] => i = j
  BY MapParts DEF GoodMap
<1>2. \A n : HasField(M[m], n) <=> \E i \in DOMAIN d : d[i] = n
  BY DEF HasField, Elements
<1>3. \A n : HasField(M[m], n) => FieldOf(M[m], n) \in DOMAIN d /\ d[FieldOf(M[m], n)] = n
  <2> SUFFICES ASSUME NEW n, \E i \in DOMAIN d : d[i] = n
               PROVE  FieldOf(M[m], n) \in DOMAIN d /\ d[FieldOf(M[m], n)] = n
    BY <1>2
  <2> QED BY DEF FieldOf
<1> HIDE DEF d
<1>4. \A i \in DOMAIN d : HasField(M[m], d[i])
  BY <1>2
<1>5. \A i \in DOMAIN d : FieldOf(M[m], d[i]) = i
  BY <1>1, <1>3, <1>4
<1> QED BY <1>3, <1>4, <1>5 DEF d

-----------------------------------------------------------------------------
(* What stays true while maps are made *)

LEMMA GrowthKeeps ==
  ASSUME NEW M, NEW K, NEW N, NEW L, Tree(M, K), Tree(N, L), Grows(M, K, N, L)
  PROVE  /\ K \subseteq L
         /\ \A x : Fits(M, K, x) => Fits(N, L, x)
         /\ \A x, n : x.map \in K => Shows(N, x, n) = Shows(M, x, n)
         /\ \A e, n : FieldRight(M, K, e, n) => FieldRight(N, L, e, n)
         /\ \A e, n : MethodRight(M, K, e, n) => MethodRight(N, L, e, n)
         /\ \A e, n : e.target \in K /\ TransitionRight(M, K, e, n) => TransitionRight(N, L, e, n)
<1>1. K \subseteq L
  BY DEF Grows
<1>2. ASSUME NEW m \in K, NEW n
      PROVE  /\ N[m].descriptors = M[m].descriptors /\ N[m].dictionary = M[m].dictionary
             /\ HasField(N[m], n) = HasField(M[m], n) /\ FieldOf(N[m], n) = FieldOf(M[m], n)
  BY DEF Grows, HasField, FieldOf
<1>3. ASSUME NEW x, Fits(M, K, x) PROVE Fits(N, L, x)
  BY <1>1, <1>2, <1>3 DEF Fits
<1>4. ASSUME NEW x, NEW n, x.map \in K PROVE Shows(N, x, n) = Shows(M, x, n)
  BY <1>2, <1>4 DEF Shows
<1>5. ASSUME NEW e, NEW n, FieldRight(M, K, e, n) PROVE FieldRight(N, L, e, n)
  BY <1>1, <1>2, <1>5 DEF FieldRight
<1>6. ASSUME NEW e, NEW n, MethodRight(M, K, e, n) PROVE MethodRight(N, L, e, n)
  BY <1>1, <1>2, <1>6 DEF MethodRight
<1>7. ASSUME NEW e, NEW n, e.target \in K, TransitionRight(M, K, e, n) PROVE TransitionRight(N, L, e, n)
  BY <1>1, <1>2, <1>7 DEF TransitionRight
<1> QED BY <1>1, <1>3, <1>4, <1>5, <1>6, <1>7

(* The entries that dangled and were not written. *)
LEMMA KeptEntries ==
  ASSUME NEW s \in Site
  PROVE  /\ <<"field", s>> \in dangling /\ propertyCache'[s] = propertyCache[s] => <<"field", s>> \in Kept
         /\ <<"method", s>> \in dangling /\ methodCache'[s] = methodCache[s] => <<"method", s>> \in Kept
         /\ <<"transition", s>> \in dangling /\ transitionCache'[s] = transitionCache[s] =>
              <<"transition", s>> \in Kept
<1>1. EntryOf(<<"field", s>>) = propertyCache[s] /\ EntryOf(<<"field", s>>)' = propertyCache'[s]
  BY DEF EntryOf
<1>2. EntryOf(<<"method", s>>) = methodCache[s] /\ EntryOf(<<"method", s>>)' = methodCache'[s]
  BY DEF EntryOf
<1>3. EntryOf(<<"transition", s>>) = transitionCache[s] /\ EntryOf(<<"transition", s>>)' = transitionCache'[s]
  BY DEF EntryOf
<1> QED BY <1>1, <1>2, <1>3 DEF Kept

(* A cache stays right when every entry is the old one or right itself. *)
LEMMA FieldsWritten ==
  ASSUME Sound, NEW K, Tree(maps', K), Grows(maps, held, maps', K),
         propertyCache' \in [Site -> FieldEntry \cup {Nobody}],
         \A s \in Site : propertyCache'[s] = propertyCache[s] \/ FieldRight(maps', K, propertyCache'[s], s[2])
  PROVE  FieldsRight(maps', K, Kept, propertyCache')
<1> SUFFICES ASSUME NEW s \in Site, propertyCache'[s] # Nobody, <<"field", s>> \notin Kept
             PROVE  FieldRight(maps', K, propertyCache'[s], s[2])
  BY DEF FieldsRight
<1>1. CASE propertyCache'[s] = propertyCache[s]
  <2>1. <<"field", s>> \notin dangling
    BY <1>1, KeptEntries
  <2>2. FieldRight(maps, held, propertyCache[s], s[2])
    BY <1>1, <2>1 DEF Sound, CachesRight, FieldsRight
  <2>3. Tree(maps, held)
    BY DEF Sound
  <2> QED BY <1>1, <2>2, <2>3, GrowthKeeps
<1> QED BY <1>1

LEMMA MethodsWritten ==
  ASSUME Sound, NEW K, Tree(maps', K), Grows(maps, held, maps', K),
         methodCache' \in [Site -> MethodEntry \cup {Nobody}],
         \A s \in Site : methodCache'[s] = methodCache[s] \/ MethodRight(maps', K, methodCache'[s], s[2])
  PROVE  MethodsRight(maps', K, Kept, methodCache')
<1> SUFFICES ASSUME NEW s \in Site, methodCache'[s] # Nobody, <<"method", s>> \notin Kept
             PROVE  MethodRight(maps', K, methodCache'[s], s[2])
  BY DEF MethodsRight
<1>1. CASE methodCache'[s] = methodCache[s]
  <2>1. <<"method", s>> \notin dangling
    BY <1>1, KeptEntries
  <2>2. MethodRight(maps, held, methodCache[s], s[2])
    BY <1>1, <2>1 DEF Sound, CachesRight, MethodsRight
  <2>3. Tree(maps, held)
    BY DEF Sound
  <2> QED BY <1>1, <2>2, <2>3, GrowthKeeps
<1> QED BY <1>1

LEMMA TransitionsWritten ==
  ASSUME Sound, NEW K, Tree(maps', K), Grows(maps, held, maps', K),
         transitionCache' \in [Site -> TransitionEntry \cup {Nobody}],
         \A s \in Site :
           \/ transitionCache'[s] = transitionCache[s]
           \/ transitionCache'[s].target \in K /\ TransitionRight(maps', K, transitionCache'[s], s[2])
  PROVE  TransitionsRight(maps', K, Kept, transitionCache')
<1> SUFFICES ASSUME NEW s \in Site, transitionCache'[s] # Nobody
             PROVE  /\ transitionCache'[s].target \in K
                    /\ <<"transition", s>> \notin Kept => TransitionRight(maps', K, transitionCache'[s], s[2])
  BY DEF TransitionsRight
<1>1. CASE transitionCache'[s] = transitionCache[s]
  <2>1. transitionCache[s].target \in held
    BY <1>1 DEF Sound, CachesRight, TransitionsRight
  <2>2. ASSUME <<"transition", s>> \notin Kept PROVE TransitionRight(maps', K, transitionCache[s], s[2])
    <3>1. <<"transition", s>> \notin dangling
      BY <1>1, <2>2, KeptEntries
    <3>2. TransitionRight(maps, held, transitionCache[s], s[2])
      BY <1>1, <3>1 DEF Sound, CachesRight, TransitionsRight
    <3>3. Tree(maps, held)
      BY DEF Sound
    <3> QED BY <2>1, <3>2, <3>3, GrowthKeeps
  <2> QED BY <1>1, <2>1, <2>2 DEF Grows
<1> QED BY <1>1

-----------------------------------------------------------------------------
(* Objects *)

(* y is x with the value v in the slot i. *)
Overwrites(y, x, i, v) ==
  /\ y \in JSObject /\ y.map = x.map /\ Len(y.properties) = Len(x.properties)
  /\ \A j \in 1..Len(x.properties) : y.properties[j] = IF j = i THEN v ELSE x.properties[j]

(* A slot is overwritten. *)
LEMMA SlotGiven ==
  ASSUME NEW M, NEW K, Tree(M, K), NEW x, Fits(M, K, x), x.map # Nobody,
         NEW i \in DOMAIN M[x.map].descriptors, NEW v, NEW y, Overwrites(y, x, i, v)
  PROVE  /\ Fits(M, K, y)
         /\ \A k : Shows(M, y, k) = IF k = M[x.map].descriptors[i] THEN v ELSE Shows(M, x, k)
<1> DEFINE d == M[x.map].descriptors
<1>1. x.map \in K /\ d \in Seq(Name) /\ DOMAIN d = 1..Len(x.properties) /\ ~M[x.map].dictionary
  <2>1. x.map \in K /\ Len(x.properties) = Len(M[x.map].descriptors)
    BY DEF Fits
  <2>2. GoodMap(M, K, x.map) /\ M[x.map].descriptors \in Seq(Name)
    BY <2>1, MapParts
  <2> QED BY <2>1, <2>2 DEF GoodMap
<1>4. /\ y \in JSObject /\ y.map = x.map /\ Len(y.properties) = Len(x.properties)
      /\ \A j \in 1..Len(x.properties) : y.properties[j] = IF j = i THEN v ELSE x.properties[j]
  BY DEF Overwrites
<1>2. Fits(M, K, y)
  BY <1>1, <1>4 DEF Fits
<1>3. ASSUME NEW k PROVE Shows(M, y, k) = IF k = d[i] THEN v ELSE Shows(M, x, k)
  <2>1. CASE HasField(M[x.map], k)
    <3>1. FieldOf(M[x.map], k) \in DOMAIN d /\ d[FieldOf(M[x.map], k)] = k /\ FieldOf(M[x.map], d[i]) = i
      BY <1>1, <2>1, Fields
    <3> QED BY <1>1, <1>4, <2>1, <3>1 DEF Shows
  <2>2. CASE ~HasField(M[x.map], k)
    <3>1. HasField(M[x.map], d[i])
      BY <1>1, Fields
    <3> QED BY <1>1, <1>4, <2>2, <3>1 DEF Shows
  <2> QED BY <2>1, <2>2
<1> QED BY <1>2, <1>3

(* A slot is appended, and the map becomes one with one name more. *)
LEMMA SlotAdded ==
  ASSUME NEW M, NEW K, NEW N, NEW L, Tree(M, K), Tree(N, L), NEW x, Fits(M, K, x), x.map # Nobody,
         ~M[x.map].dictionary, NEW n \in Name, NEW v \in Value,
         NEW y \in JSObject, y.map \in L, ~N[y.map].dictionary,
         N[y.map].descriptors = Append(M[x.map].descriptors, n),
         y.properties = Append(x.properties, v)
  PROVE  /\ Fits(N, L, y) /\ ~HasField(M[x.map], n)
         /\ \A k : Shows(N, y, k) = IF k = n THEN v ELSE Shows(M, x, k)
<1> DEFINE d == M[x.map].descriptors
           e == N[y.map].descriptors
           l == Len(x.properties)
<1>1. x.map \in K /\ d \in Seq(Name) /\ Len(d) = l /\ l \in Nat
      /\ x.properties \in Seq(Value \cup {Undefined})
  <2>1. x.map \in K /\ Len(x.properties) = Len(M[x.map].descriptors) /\ x \in JSObject
    BY DEF Fits
  <2> QED BY <2>1, MapParts DEF JSObject
<1>2. /\ Len(e) = l + 1 /\ e[l + 1] = n /\ \A i \in 1..l : e[i] = d[i]
      /\ DOMAIN d = 1..l /\ DOMAIN e = 1..l + 1
  BY <1>1
<1>3. /\ Len(y.properties) = l + 1 /\ y.properties[l + 1] = v
      /\ \A i \in 1..l : y.properties[i] = x.properties[i]
  BY <1>1
<1> HIDE DEF d, e
<1>4. Fits(N, L, y)
  BY <1>2, <1>3 DEF Fits, e
<1>5. /\ HasField(N[y.map], n) /\ FieldOf(N[y.map], n) = l + 1
      /\ \A i \in 1..l : HasField(N[y.map], e[i]) /\ FieldOf(N[y.map], e[i]) = i
      /\ \A k : HasField(N[y.map], k) => FieldOf(N[y.map], k) \in 1..l + 1 /\ e[FieldOf(N[y.map], k)] = k
  <2>1. /\ \A i \in DOMAIN e : HasField(N[y.map], e[i]) /\ FieldOf(N[y.map], e[i]) = i
        /\ \A k : HasField(N[y.map], k) => FieldOf(N[y.map], k) \in DOMAIN e /\ e[FieldOf(N[y.map], k)] = k
    <3> DEFINE to == y.map
    <3>1. Tree(N, L) /\ to \in L
      OBVIOUS
    <3> HIDE DEF to
    <3>2. /\ \A i \in DOMAIN N[to].descriptors :
               HasField(N[to], N[to].descriptors[i]) /\ FieldOf(N[to], N[to].descriptors[i]) = i
          /\ \A k : HasField(N[to], k) =>
               FieldOf(N[to], k) \in DOMAIN N[to].descriptors /\ N[to].descriptors[FieldOf(N[to], k)] = k
      BY ONLY <3>1, Fields
    <3> QED BY <3>2 DEF e, to
  <2>2. l + 1 \in DOMAIN e /\ 1..l \subseteq DOMAIN e
    BY <1>1, <1>2
  <2> QED BY <1>2, <2>1, <2>2
<1>6. /\ \A i \in 1..l : HasField(M[x.map], d[i]) /\ FieldOf(M[x.map], d[i]) = i
      /\ \A k : HasField(M[x.map], k) => FieldOf(M[x.map], k) \in 1..l /\ d[FieldOf(M[x.map], k)] = k
  BY <1>1, <1>2, Fields DEF d
<1>7. ~HasField(M[x.map], n)
  <2> SUFFICES ASSUME HasField(M[x.map], n) PROVE FALSE
    OBVIOUS
  <2>1. PICK i \in 1..l : d[i] = n
    BY <1>6
  <2>2. e[i] = n
    BY <1>2, <2>1
  <2> QED BY <1>1, <1>5, <2>1, <2>2
<1>8. ASSUME NEW k PROVE Shows(N, y, k) = IF k = n THEN v ELSE Shows(M, x, k)
  <2>1. CASE k = n
    BY <1>3, <1>5, <2>1 DEF Shows
  <2>2. CASE k # n /\ HasField(M[x.map], k)
    <3>1. PICK i \in 1..l : d[i] = k /\ FieldOf(M[x.map], k) = i
      BY <1>6, <2>2
    <3>2. e[i] = k
      BY <1>2, <3>1
    <3>3. HasField(N[y.map], k) /\ FieldOf(N[y.map], k) = i
      BY <1>5, <3>2
    <3> QED BY <1>3, <2>2, <3>1, <3>3 DEF Shows
  <2>3. CASE k # n /\ ~HasField(M[x.map], k)
    <3>1. ~HasField(N[y.map], k)
      <4> SUFFICES ASSUME HasField(N[y.map], k) PROVE FALSE
        OBVIOUS
      <4>1. PICK i \in 1..l + 1 : e[i] = k
        BY <1>5
      <4>2. i \in 1..l
        BY <1>1, <1>2, <2>3, <4>1
      <4>3. HasField(M[x.map], d[i]) /\ d[i] = k
        BY <1>2, <1>6, <4>1, <4>2
      <4> QED BY <2>3, <4>3
    <3> QED BY <2>3, <3>1 DEF Shows
  <2> QED BY <2>1, <2>2, <2>3
<1> QED BY <1>4, <1>7, <1>8

(* y is x with n given the value v, after the maps M became N, of which L   *)
(* are known.                                                              *)
Given(M, x, N, L, y, n, v) ==
  /\ Fits(N, L, y) /\ y.map # Nobody
  /\ \A k \in Name : Shows(N, y, k) = IF k = n THEN v ELSE Shows(M, x, k)

LEMMA ObjectParts ==
  ASSUME Sound, NEW o \in Object, objects[o].map # Nobody
  PROVE  /\ objects[o] \in JSObject /\ Fits(maps, held, objects[o]) /\ objects[o].map \in held
         /\ Len(objects[o].properties) = Len(MapOf(o).descriptors)
         /\ objects[o].properties \in Seq(Value \cup {Undefined})
         /\ objects[o].dictionary \in [Name -> Value \cup {Undefined}]
         /\ MapOf(o) = maps[objects[o].map] /\ GoodMap(maps, held, objects[o].map)
         /\ \A n : Own(o, n) = Shows(maps, objects[o], n)
<1>1. /\ objects[o] \in JSObject /\ Fits(maps, held, objects[o]) /\ objects[o].map \in held
      /\ Len(objects[o].properties) = Len(MapOf(o).descriptors) /\ MapOf(o) = maps[objects[o].map]
  BY DEF Sound, ObjectsRight, Fits, MapOf
<1>2. /\ objects[o].properties \in Seq(Value \cup {Undefined})
      /\ objects[o].dictionary \in [Name -> Value \cup {Undefined}]
  BY <1>1 DEF JSObject
<1>3. MapOf(o).descriptors \in Seq(Name) /\ GoodMap(maps, held, objects[o].map)
  BY <1>1, MapParts DEF Sound
<1>4. ASSUME NEW n PROVE Own(o, n) = Shows(maps, objects[o], n)
  <2>1. HasField(MapOf(o), n) => FieldOf(MapOf(o), n) \in DOMAIN objects[o].properties
    <3>1. HasField(MapOf(o), n) => FieldOf(MapOf(o), n) \in DOMAIN MapOf(o).descriptors
      BY <1>1, Fields DEF Sound
    <3>2. DOMAIN MapOf(o).descriptors = DOMAIN objects[o].properties
      BY <1>1, <1>2, <1>3
    <3> QED BY <3>1, <3>2
  <2> QED BY <1>1, <2>1 DEF Own, Shows, SlotValue
<1> QED BY <1>1, <1>2, <1>3, <1>4

(* The object o becomes y, which shows what w says if it is alive. *)
Replaced(K, o, y, w) ==
  /\ Fits(maps', K, y) /\ objects' = [objects EXCEPT ![o] = y]
  /\ w \in [Name -> Value \cup {Undefined}] /\ written' = [written EXCEPT ![o] = w]
  /\ \A p \in Live' : p # o => p \in Live
  /\ o \in Live' => \A n \in Name : Shows(maps', y, n) = w[n]

(* The rest of the state when one object is replaced. *)
LEMMA ObjectReplaced ==
  ASSUME Sound, NEW K, Tree(maps', K), Grows(maps, held, maps', K),
         NEW o \in Object, NEW y, NEW w, Replaced(K, o, y, w)
  PROVE  ObjectsRight(maps', K, objects') /\ HistoryRight'
<1> USE DEF Replaced
<1>1. /\ objects \in [Object -> JSObject] /\ y \in JSObject
      /\ written \in [Object -> [Name -> Value \cup {Undefined}]]
  BY DEF Sound, ObjectsRight, HistoryRight, Fits
<1>2. ObjectsRight(maps', K, objects')
  <2>1. objects' \in [Object -> JSObject]
    BY <1>1
  <2>2. ASSUME NEW p \in Object PROVE Fits(maps', K, objects'[p])
    <3>1. CASE p = o
      BY <1>1, <3>1
    <3>2. CASE p # o
      <4>1. objects'[p] = objects[p] /\ Fits(maps, held, objects[p])
        BY <1>1, <3>2 DEF Sound, ObjectsRight
      <4> QED BY <4>1, GrowthKeeps DEF Sound
    <3> QED BY <3>1, <3>2
  <2> QED BY <2>1, <2>2 DEF ObjectsRight
<1>3. HistoryRight'
  <2>1. written' \in [Object -> [Name -> Value \cup {Undefined}]]
    BY <1>1
  <2>2. ASSUME NEW p \in Live', NEW n \in Name PROVE Shows(maps', objects'[p], n) = written'[p][n]
    <3>0. p \in Object
      BY DEF Live
    <3>1. CASE p = o
      BY <1>1, <3>1
    <3>2. CASE p # o
      <4>1. objects'[p] = objects[p] /\ written'[p] = written[p] /\ p \in Live
        BY <1>1, <3>0, <3>2
      <4>2. objects[p].map # Nobody
        BY <4>1 DEF Live
      <4>3. objects[p].map \in held
        BY <3>0, <4>2, ObjectParts
      <4>4. Shows(maps', objects[p], n) = Shows(maps, objects[p], n)
        BY <4>3, GrowthKeeps DEF Sound
      <4>5. Shows(maps, objects[p], n) = written[p][n]
        BY <4>1 DEF Sound, HistoryRight
      <4> QED BY <4>1, <4>4, <4>5
    <3> QED BY <3>1, <3>2
  <2> QED BY <2>1, <2>2 DEF HistoryRight
<1> QED BY <1>2, <1>3

(* Nothing else rests on an object that keeps having a map. *)
LEMMA OthersKept ==
  ASSUME Sound, \A o \in Object : objects[o].map # Nobody => objects'[o].map # Nobody
  PROVE  /\ UNCHANGED pool => PoolRight' /\ \A p \in Live' : objects[p].map # Nobody => p \in Live
         /\ UNCHANGED literal => LiteralRight'
<1>1. ASSUME UNCHANGED pool PROVE PoolRight'
  BY <1>1 DEF Sound, PoolRight
<1>2. ASSUME UNCHANGED pool, NEW p \in Live', objects[p].map # Nobody PROVE p \in Live
  BY <1>2 DEF Live, Pooled
<1>3. ASSUME UNCHANGED literal PROVE LiteralRight'
  <2>1. literal.object \in Object \cup {Nobody}
    BY DEF Sound, LiteralRight
  <2> QED BY <1>3, <2>1 DEF Sound, LiteralRight
<1> QED BY <1>1, <1>2, <1>3

(* The caches stay right while no entry is written. *)
LEMMA CachesKept ==
  ASSUME Sound, NEW K, Tree(maps', K), Grows(maps, held, maps', K)
  PROVE  /\ UNCHANGED propertyCache => FieldsRight(maps', K, Kept, propertyCache')
         /\ UNCHANGED methodCache => MethodsRight(maps', K, Kept, methodCache')
         /\ UNCHANGED transitionCache => TransitionsRight(maps', K, Kept, transitionCache')
         /\ UNCHANGED boilerplate => boilerplate' \in K \cup {Nobody}
         /\ UNCHANGED caches => CachesAfter(K)
<1>1. /\ propertyCache \in [Site -> FieldEntry \cup {Nobody}]
      /\ methodCache \in [Site -> MethodEntry \cup {Nobody}]
      /\ transitionCache \in [Site -> TransitionEntry \cup {Nobody}]
      /\ boilerplate \in held \cup {Nobody}
  BY DEF Sound, CachesRight, FieldsRight, MethodsRight, TransitionsRight
<1>2. UNCHANGED propertyCache => FieldsRight(maps', K, Kept, propertyCache')
  BY <1>1, FieldsWritten
<1>3. UNCHANGED methodCache => MethodsRight(maps', K, Kept, methodCache')
  BY <1>1, MethodsWritten
<1>4. UNCHANGED transitionCache => TransitionsRight(maps', K, Kept, transitionCache')
  BY <1>1, TransitionsWritten
<1>5. UNCHANGED boilerplate => boilerplate' \in K \cup {Nobody}
  BY <1>1 DEF Grows
<1> QED BY <1>2, <1>3, <1>4, <1>5 DEF CachesAfter, CachesRight, caches

LEMMA MapsKept ==
  ASSUME Sound, UNCHANGED maps
  PROVE  Tree(maps', held) /\ Grows(maps, held, maps', held)
BY DEF Sound, Grows

(* What is referenced is what the roots are and lead to, and all of it is  *)
(* known.                                                                  *)
LEMMA ReferencedMaps ==
  ASSUME NEW K, After(K)
  PROVE  /\ Referenced' \subseteq K /\ MapRoots' \subseteq Referenced'
         /\ \A m \in Referenced', n \in Name : maps'[m].transitions[n] \in Referenced' \cup {Nobody}
<1>1. Tree(maps', K) /\ K \in SUBSET Address
  BY DEF After, Tree
<1>2. MapRoots' \subseteq K
  <2>1. RootMap \in K
    BY <1>1 DEF Tree
  <2>2. \A o \in (Live \cup Pooled)' : o \in Object /\ objects'[o].map # Nobody
    BY DEF After, PoolRight, Live, Pooled, Elements
  <2>3. \A o \in (Live \cup Pooled)' : objects'[o].map \in K
    BY <2>2 DEF After, ObjectsRight, Fits
  <2>4. /\ \A s \in Site : transitionCache'[s] # Nobody => transitionCache'[s].target \in K
        /\ boilerplate' \in K \cup {Nobody}
    BY DEF After, CachesAfter, CachesRight, TransitionsRight
  <2> QED BY <2>1, <2>3, <2>4 DEF MapRoots
<1>3. Led(K)'
  BY <1>1 DEF Tree, GoodMap, Led
<1>4. \A m : m \in Referenced' <=>
        m \in Address /\ \A S \in SUBSET Address : Led(S)' /\ MapRoots' \subseteq S => m \in S
  BY DEF Referenced
<1>5. Referenced' \subseteq K
  BY <1>1, <1>2, <1>3, <1>4
<1>6. MapRoots' \subseteq Referenced'
  BY <1>1, <1>2, <1>4
<1>7. ASSUME NEW m \in Referenced', NEW n \in Name, maps'[m].transitions[n] # Nobody
      PROVE  maps'[m].transitions[n] \in Referenced'
  <2>1. maps'[m].transitions[n] \in Address
    BY <1>1, <1>3, <1>5, <1>7 DEF Led
  <2>2. ASSUME NEW S \in SUBSET Address, Led(S)', MapRoots' \subseteq S
        PROVE  maps'[m].transitions[n] \in S
    BY <1>4, <1>7, <2>2 DEF Led
  <2> QED BY <1>4, <2>1, <2>2
<1> QED BY <1>5, <1>6, <1>7

(* What is freed was not needed: of the maps known those stay that are     *)
(* referenced, and the entries for the others dangle.                      *)
LEMMA Settled ==
  ASSUME NEW K, After(K), Release, Dangle
  PROVE  Sound'
<1>1. /\ held' \subseteq K /\ MapRoots' \subseteq held'
      /\ \A m \in held', n \in Name : maps'[m].transitions[n] \in held' \cup {Nobody}
  BY ReferencedMaps DEF Release
<1>2. Tree(maps', held')
  <2>1. RootMap \in held'
    BY <1>1 DEF MapRoots
  <2> QED BY <1>1, <2>1 DEF After, Tree, GoodMap
<1>3. ObjectsRight(maps', held', objects')
  <2>1. ASSUME NEW o \in Object, objects'[o].map # Nobody PROVE objects'[o].map \in held'
    <3>1. o \in (Live \cup Pooled)'
      BY <2>1 DEF Live
    <3> QED BY <1>1, <3>1 DEF MapRoots
  <2> QED BY <2>1 DEF After, ObjectsRight, Fits
<1>4. ASSUME NEW s \in Site
      PROVE  /\ propertyCache'[s] # Nobody /\ <<"field", s>> \notin dangling' =>
                  propertyCache'[s].map \in held' /\ <<"field", s>> \notin Kept
             /\ methodCache'[s] # Nobody /\ <<"method", s>> \notin dangling' =>
                  methodCache'[s].map \in held' /\ <<"method", s>> \notin Kept
             /\ transitionCache'[s] # Nobody /\ <<"transition", s>> \notin dangling' =>
                  transitionCache'[s].map \in held' /\ <<"transition", s>> \notin Kept
  <2>1. \A e \in Entry : EntryOf(e)' # Nobody /\ e \notin dangling' => EntryOf(e)'.map \in held' /\ e \notin Kept
    BY DEF Dangle, Kept
  <2>2. EntryOf(<<"field", s>>)' = propertyCache'[s] /\ <<"field", s>> \in Entry
    BY DEF EntryOf, Entry
  <2>3. EntryOf(<<"method", s>>)' = methodCache'[s] /\ <<"method", s>> \in Entry
    BY DEF EntryOf, Entry
  <2>4. EntryOf(<<"transition", s>>)' = transitionCache'[s] /\ <<"transition", s>> \in Entry
    BY DEF EntryOf, Entry
  <2>5. propertyCache'[s] # Nobody /\ <<"field", s>> \notin dangling' =>
          propertyCache'[s].map \in held' /\ <<"field", s>> \notin Kept
    BY ONLY <2>1, <2>2
  <2>6. methodCache'[s] # Nobody /\ <<"method", s>> \notin dangling' =>
          methodCache'[s].map \in held' /\ <<"method", s>> \notin Kept
    BY ONLY <2>1, <2>3
  <2>7. transitionCache'[s] # Nobody /\ <<"transition", s>> \notin dangling' =>
          transitionCache'[s].map \in held' /\ <<"transition", s>> \notin Kept
    BY ONLY <2>1, <2>4
  <2> QED BY <2>5, <2>6, <2>7
<1>5. FieldsRight(maps', held', dangling', propertyCache')
  BY <1>4 DEF After, CachesAfter, CachesRight, FieldsRight, FieldRight
<1>6. MethodsRight(maps', held', dangling', methodCache')
  BY <1>4 DEF After, CachesAfter, CachesRight, MethodsRight, MethodRight
<1>7. TransitionsRight(maps', held', dangling', transitionCache')
  <2>1. ASSUME NEW s \in Site, transitionCache'[s] # Nobody
        PROVE  transitionCache'[s].target \in held'
    <3>1. transitionCache'[s].target \in K /\ K \subseteq Address
      BY <2>1 DEF After, CachesAfter, CachesRight, TransitionsRight, Tree
    <3>2. transitionCache'[s].target # Nobody
      BY <3>1, Constants
    <3> QED BY <1>1, <2>1, <3>2 DEF MapRoots
  <2> QED BY <1>4, <2>1 DEF After, CachesAfter, CachesRight, TransitionsRight, TransitionRight
<1>8. boilerplate' \in held' \cup {Nobody}
  BY <1>1 DEF MapRoots
<1>9. dangling' \subseteq Entry
  BY DEF Dangle
<1> QED BY <1>2, <1>3, <1>5, <1>6, <1>7, <1>8, <1>9 DEF After, Sound, CachesRight

-----------------------------------------------------------------------------
(* Writing *)

(* A value in place of a slot's. *)
LEMMA SlotStored ==
  ASSUME Sound, NEW o \in Object, objects[o].map # Nobody, NEW n \in Name, NEW v \in Value,
         NEW i \in DOMAIN MapOf(o).descriptors, MapOf(o).descriptors[i] = n,
         NEW y, Overwrites(y, objects[o], i, v)
  PROVE  Given(maps, objects[o], maps, held, y, n, v)
<1>1. Tree(maps, held) /\ Fits(maps, held, objects[o]) /\ MapOf(o) = maps[objects[o].map]
  BY ObjectParts DEF Sound
<1>2. Fits(maps, held, y) /\ \A k : Shows(maps, y, k) = IF k = n THEN v ELSE Shows(maps, objects[o], k)
  <2> DEFINE x == objects[o]
  <2>1. /\ x.map # Nobody /\ i \in DOMAIN maps[x.map].descriptors /\ maps[x.map].descriptors[i] = n
        /\ Overwrites(y, x, i, v) /\ Tree(maps, held) /\ Fits(maps, held, x)
    BY <1>1
  <2> HIDE DEF x
  <2>2. Fits(maps, held, y) /\ \A k : Shows(maps, y, k) = IF k = maps[x.map].descriptors[i] THEN v ELSE Shows(maps, x, k)
    BY <2>1, SlotGiven
  <2> QED BY <2>1, <2>2 DEF x
<1> QED BY <1>2 DEF Given, Overwrites

(* set_property: in the dictionary, in its slot, or in one more slot. *)
LEMMA PropertySet ==
  ASSUME Sound, NEW o \in Object, objects[o].map # Nobody,
         NEW n \in Name, NEW v \in Value, SetProperty(o, n, v)
  PROVE  \E K : \E y \in JSObject :
           /\ Tree(maps', K) /\ Grows(maps, held, maps', K)
           /\ objects' = [objects EXCEPT ![o] = y] /\ Given(maps, objects[o], maps', K, y, n, v)
           /\ y.map # objects[o].map =>
                /\ ~MapOf(o).dictionary /\ ~maps'[y.map].dictionary
                /\ maps'[y.map].descriptors = Append(MapOf(o).descriptors, n)
<1> DEFINE x == objects[o]
           m == x.map
           d == MapOf(o).descriptors
<1>1. /\ x \in JSObject /\ Fits(maps, held, x) /\ m \in held /\ Len(x.properties) = Len(d)
      /\ x.properties \in Seq(Value \cup {Undefined}) /\ x.dictionary \in [Name -> Value \cup {Undefined}]
      /\ MapOf(o) = maps[m] /\ GoodMap(maps, held, m) /\ Tree(maps, held) /\ d \in Seq(Name)
      /\ objects \in [Object -> JSObject] /\ m # Nobody
  BY ObjectParts, MapParts DEF Sound, ObjectsRight
<1>2. CASE MapOf(o).dictionary
  <2> DEFINE y == [x EXCEPT !.dictionary = [x.dictionary EXCEPT ![n] = v]]
  <2>1. objects' = [objects EXCEPT ![o] = y] /\ UNCHANGED maps
    BY <1>1, <1>2 DEF SetProperty
  <2>2. [x.dictionary EXCEPT ![n] = v] \in [Name -> Value \cup {Undefined}]
    BY <1>1
  <2>3. y \in JSObject /\ y.map = m /\ y.properties = x.properties
        /\ \A k \in Name : y.dictionary[k] = IF k = n THEN v ELSE x.dictionary[k]
    <3> HIDE DEF x
    <3> QED BY <1>1, <2>2 DEF JSObject
  <2>4. Given(maps, x, maps, held, y, n, v)
    <3>1. maps[m].dictionary
      BY <1>1, <1>2
    <3> HIDE DEF y, x
    <3>2. Fits(maps, held, y)
      BY <1>1, <2>3 DEF Fits
    <3>3. \A k \in Name : Shows(maps, y, k) = IF k = n THEN v ELSE Shows(maps, x, k)
      BY <2>3, <3>1 DEF Shows
    <3> QED BY <1>1, <2>3, <3>2, <3>3 DEF Given
  <2>5. y.map = m
    BY <2>3
  <2>6. Tree(maps', held) /\ Grows(maps, held, maps', held)
    BY <2>1, MapsKept
  <2> HIDE DEF y
  <2> QED BY <2>1, <2>3, <2>4, <2>5, <2>6
<1>3. CASE ~MapOf(o).dictionary /\ HasField(MapOf(o), n)
  <2> DEFINE i == FieldOf(MapOf(o), n)
             slots == Put(x.properties, i, v)
             y == [x EXCEPT !.properties = slots]
  <2>1. objects' = [objects EXCEPT ![o] = y] /\ UNCHANGED maps
    BY <1>1, <1>3 DEF SetProperty
  <2>2. i \in DOMAIN d /\ d[i] = n
    BY <1>1, <1>3, Fields
  <2>3. /\ slots = [j \in 1..Len(x.properties) |-> IF j = i THEN v ELSE x.properties[j]]
        /\ slots \in Seq(Value \cup {Undefined}) /\ Len(slots) = Len(x.properties)
    <3>1. i \in 1..Len(x.properties) /\ Len(x.properties) \in Nat
      BY <1>1, <2>2
    <3> HIDE DEF i, d, x
    <3>2. slots = [j \in 1..Len(x.properties) |-> IF j = i THEN v ELSE x.properties[j]]
      BY <3>1 DEF Put
    <3> HIDE DEF slots
    <3>3. slots \in [1..Len(x.properties) -> Value \cup {Undefined}]
      BY <1>1, <3>1, <3>2
    <3> QED BY <3>1, <3>2, <3>3
  <2>4. y \in JSObject /\ y.map = m /\ y.properties = slots
    <3> HIDE DEF slots, x
    <3> QED BY <1>1, <2>3 DEF JSObject
  <2>5. Overwrites(y, x, i, v)
    <3> HIDE DEF slots, y, i
    <3> QED BY <2>3, <2>4 DEF Overwrites
  <2>6. Given(maps, x, maps, held, y, n, v)
    <3> HIDE DEF y, i, slots
    <3> QED BY <1>1, <2>2, <2>4, <2>5, SlotStored
  <2>7. Tree(maps', held) /\ Grows(maps, held, maps', held)
    BY <2>1, MapsKept
  <2> HIDE DEF y
  <2> QED BY <2>1, <2>4, <2>6, <2>7
<1>4. CASE ~MapOf(o).dictionary /\ ~HasField(MapOf(o), n)
  <2>1. PICK t \in Targets(m, n) :
          /\ maps' = WithTransition(m, n, t)
          /\ objects' = [objects EXCEPT ![o].map = t, ![o].properties = Append(@, v)]
    BY <1>4 DEF SetProperty
  <2> DEFINE K == held \cup {t}
             slots == Append(x.properties, v)
             half == [x EXCEPT !.map = t]
             y == [half EXCEPT !.properties = slots]
  <2>2. objects' = [objects EXCEPT ![o] = y]
    BY <1>1, <2>1
  <2>3. /\ Tree(maps', K) /\ Grows(maps, held, maps', K) /\ t # m /\ t \in Address
        /\ ~maps'[t].dictionary /\ maps'[t].descriptors = Append(d, n)
    <3> DEFINE N == WithTransition(m, n, t)
    <3>1. ~maps[m].dictionary /\ ~HasField(maps[m], n) /\ m \in held /\ Tree(maps, held)
      BY <1>1, <1>4
    <3> HIDE DEF m
    <3>2. /\ Tree(N, K) /\ Grows(maps, held, N, K) /\ t # m /\ t \in Address
          /\ ~N[t].dictionary /\ N[t].descriptors = Append(maps[m].descriptors, n)
      BY <2>1, <3>1, TransitionTaken
    <3>3. maps' = N /\ d = maps[m].descriptors
      BY <1>1, <2>1 DEF m
    <3> HIDE DEF N, K, d
    <3> QED BY <3>2, <3>3
  <2>4. slots \in Seq(Value \cup {Undefined})
    BY <1>1
  <2>5. y \in JSObject /\ y.map = t /\ y.properties = slots
    <3> HIDE DEF slots, x
    <3>1. half \in JSObject /\ half.map = t
      BY <1>1, <2>3 DEF JSObject
    <3> HIDE DEF half
    <3> QED BY <2>4, <3>1 DEF JSObject
  <2>6. Fits(maps', K, y) /\ \A k : Shows(maps', y, k) = IF k = n THEN v ELSE Shows(maps, x, k)
    <3> HIDE DEF y, half, x
    <3>1. /\ y \in JSObject /\ y.map \in K /\ ~maps'[y.map].dictionary
          /\ maps'[y.map].descriptors = Append(maps[x.map].descriptors, n)
          /\ y.properties = Append(x.properties, v)
          /\ ~maps[x.map].dictionary /\ x.map # Nobody
      BY <1>1, <1>4, <2>3, <2>5
    <3> HIDE DEF K
    <3> QED BY <1>1, <2>3, <3>1, SlotAdded
  <2>7. Given(maps, x, maps', K, y, n, v)
    <3>1. t # Nobody
      BY <2>3, Constants
    <3> HIDE DEF y, K
    <3> QED BY <2>5, <2>6, <3>1 DEF Given
  <2> HIDE DEF y, K
  <2> QED BY <1>4, <2>2, <2>3, <2>5, <2>7
<1> QED BY <1>2, <1>3, <1>4

(* The name that the instruction with this cache is for. *)
LEMMA Sites ==
  /\ \A n \in Loads : LoadSite(n) \in Site /\ LoadSite(n)[2] = n /\ n \in Name
  /\ \A n \in Stores : StoreSite(n) \in Site /\ StoreSite(n)[2] = n /\ n \in Name
  /\ \A n \in 1..LiteralSize : InitSite(n) \in Site /\ InitSite(n)[2] = n /\ n \in Name
  /\ \A s \in Site : s[2] \in Name
<1>1. Loads \subseteq Name /\ Stores \subseteq Name /\ 1..LiteralSize \subseteq Name
  BY ShapesAssumption DEF Name
<1> QED BY <1>1 DEF Site, LoadSite, StoreSite, InitSite

(* A store through a field entry that does not dangle. *)
LEMMA FieldStored ==
  ASSUME Sound, NEW o \in Object, objects[o].map # Nobody,
         NEW s \in Site, NEW n \in Name, s[2] = n, NEW v \in Value,
         StoreField(s, o, n, v), <<"field", s>> \notin dangling
  PROVE  \E y : objects' = [objects EXCEPT ![o] = y] /\ Given(maps, objects[o], maps, held, y, n, v)
<1> DEFINE x == objects[o]
           m == x.map
           d == MapOf(o).descriptors
           i == propertyCache[s].field
           slots == [x.properties EXCEPT ![i] = v]
           y == [x EXCEPT !.properties = slots]
<1>1. /\ x \in JSObject /\ m \in held /\ Len(x.properties) = Len(d)
      /\ x.properties \in Seq(Value \cup {Undefined})
      /\ MapOf(o) = maps[m] /\ d \in Seq(Name) /\ objects \in [Object -> JSObject] /\ m # Nobody
  BY ObjectParts, MapParts DEF Sound, ObjectsRight
<1>2. objects' = [objects EXCEPT ![o] = y]
  BY <1>1 DEF StoreField
<1>3. i \in DOMAIN d /\ d[i] = n
  <2>1. propertyCache[s] # Nobody /\ propertyCache[s].map = m
    BY DEF StoreField, FieldHit, Matches
  <2>2. FieldRight(maps, held, propertyCache[s], n)
    BY <2>1 DEF Sound, CachesRight, FieldsRight
  <2> QED BY <1>1, <2>1, <2>2 DEF FieldRight
<1>4. /\ slots \in Seq(Value \cup {Undefined}) /\ Len(slots) = Len(x.properties)
      /\ \A j \in 1..Len(x.properties) : slots[j] = IF j = i THEN v ELSE x.properties[j]
  <2>1. i \in 1..Len(x.properties) /\ Len(x.properties) \in Nat
    BY <1>1, <1>3
  <2> HIDE DEF i, d, x
  <2> QED BY <1>1, <2>1
<1>5. y \in JSObject /\ y.map = m /\ y.properties = slots
  <2> HIDE DEF slots, x
  <2> QED BY <1>1, <1>4 DEF JSObject
<1>6. Overwrites(y, x, i, v)
  <2> HIDE DEF slots, y, i
  <2> QED BY <1>4, <1>5 DEF Overwrites
<1>7. Given(maps, x, maps, held, y, n, v)
  <2> HIDE DEF y, i, slots
  <2> QED BY <1>1, <1>3, <1>5, <1>6, SlotStored
<1> HIDE DEF y
<1> QED BY <1>2, <1>7

(* A store through a transition entry that does not dangle. *)
LEMMA TransitionStored ==
  ASSUME Sound, NEW o \in Object, objects[o].map # Nobody,
         NEW s \in Site, NEW n \in Name, s[2] = n, NEW v \in Value,
         StoreTransition(s, o, n, v), <<"transition", s>> \notin dangling
  PROVE  \E y : objects' = [objects EXCEPT ![o] = y] /\ Given(maps, objects[o], maps, held, y, n, v)
<1> DEFINE x == objects[o]
           m == x.map
           t == transitionCache[s].target
           slots == Append(x.properties, v)
           half == [x EXCEPT !.map = t]
           y == [half EXCEPT !.properties = slots]
<1>1. /\ x \in JSObject /\ Fits(maps, held, x) /\ m \in held /\ Tree(maps, held)
      /\ x.properties \in Seq(Value \cup {Undefined})
      /\ objects \in [Object -> JSObject] /\ m # Nobody
  BY ObjectParts DEF Sound, ObjectsRight
<1>2. objects' = [objects EXCEPT ![o] = y]
  BY <1>1 DEF StoreTransition
<1>3. /\ t \in held /\ ~maps[m].dictionary /\ ~maps[t].dictionary
      /\ maps[t].descriptors = Append(maps[m].descriptors, n)
  <2>1. transitionCache[s] # Nobody /\ transitionCache[s].map = m
    BY DEF StoreTransition, Matches
  <2>2. t \in held /\ TransitionRight(maps, held, transitionCache[s], n)
    BY <2>1 DEF Sound, CachesRight, TransitionsRight
  <2> QED BY <2>1, <2>2 DEF TransitionRight
<1>4. t \in Address /\ t # Nobody
  BY <1>1, <1>3, MapParts, Constants
<1>5. slots \in Seq(Value \cup {Undefined})
  BY <1>1
<1>6. y \in JSObject /\ y.map = t /\ y.properties = slots
  <2> HIDE DEF t, slots, x
  <2>1. half \in JSObject /\ half.map = t
    BY <1>1, <1>4 DEF JSObject
  <2> HIDE DEF half
  <2> QED BY <1>5, <2>1 DEF JSObject
<1>7. Fits(maps, held, y) /\ \A k : Shows(maps, y, k) = IF k = n THEN v ELSE Shows(maps, x, k)
  <2> HIDE DEF y, t, half
  <2>1. /\ y \in JSObject /\ y.map \in held /\ ~maps[y.map].dictionary
        /\ maps[y.map].descriptors = Append(maps[x.map].descriptors, n)
        /\ y.properties = Append(x.properties, v)
        /\ ~maps[x.map].dictionary /\ x.map # Nobody
    BY <1>1, <1>3, <1>6
  <2> HIDE DEF x
  <2> QED BY <1>1, <2>1, SlotAdded
<1>8. Given(maps, x, maps, held, y, n, v)
  <2> HIDE DEF y, t
  <2> QED BY <1>4, <1>6, <1>7 DEF Given
<1> HIDE DEF y
<1> QED BY <1>2, <1>8

(* A store that misses remembers what it did. *)
LEMMA SlowStored ==
  ASSUME Sound, NEW o \in Object, objects[o].map # Nobody,
         NEW s \in Site, NEW n \in Name, s[2] = n, NEW v \in Value, StoreSlow(s, o, n, v)
  PROVE  \E K, y :
           /\ Tree(maps', K) /\ Grows(maps, held, maps', K)
           /\ objects' = [objects EXCEPT ![o] = y] /\ Given(maps, objects[o], maps', K, y, n, v)
           /\ FieldsRight(maps', K, Kept, propertyCache')
           /\ TransitionsRight(maps', K, Kept, transitionCache')
<1> DEFINE x == objects[o]
           m == x.map
           d == MapOf(o).descriptors
<1>1. /\ x \in JSObject /\ m \in held /\ MapOf(o) = maps[m] /\ Tree(maps, held)
      /\ objects \in [Object -> JSObject] /\ m # Nobody
      /\ propertyCache \in [Site -> FieldEntry \cup {Nobody}]
      /\ transitionCache \in [Site -> TransitionEntry \cup {Nobody}]
  BY ObjectParts DEF Sound, ObjectsRight, CachesRight, FieldsRight, TransitionsRight
<1>2. SetProperty(o, n, v) /\ Remember(s, o, n)
  BY DEF StoreSlow
<1>3. PICK K : \E y \in JSObject :
        /\ Tree(maps', K) /\ Grows(maps, held, maps', K)
        /\ objects' = [objects EXCEPT ![o] = y] /\ Given(maps, x, maps', K, y, n, v)
        /\ y.map # m =>
             /\ ~MapOf(o).dictionary /\ ~maps'[y.map].dictionary
             /\ maps'[y.map].descriptors = Append(d, n)
  BY <1>2, PropertySet
<1>4. PICK y \in JSObject :
        /\ Tree(maps', K) /\ Grows(maps, held, maps', K)
        /\ objects' = [objects EXCEPT ![o] = y] /\ Given(maps, x, maps', K, y, n, v)
        /\ y.map # m =>
             /\ ~MapOf(o).dictionary /\ ~maps'[y.map].dictionary
             /\ maps'[y.map].descriptors = Append(d, n)
  BY <1>3
<1>5. objects'[o] = y /\ y.map \in K /\ y.map \in Address /\ y.map # Nobody
  <2>1. objects'[o] = y
    BY <1>1, <1>4
  <2>2. y.map \in K /\ y.map # Nobody
    BY <1>4 DEF Given, Fits
  <2> QED BY <1>4, <2>1, <2>2 DEF Tree
<1>6. m \in K /\ m \in Address /\ maps'[m].descriptors = d /\ maps'[m].dictionary = MapOf(o).dictionary
  BY <1>1, <1>4 DEF Grows, Tree
<1>7. CASE y.map # m
  <2> DEFINE e == [map |-> m, target |-> y.map]
  <2>1. transitionCache' = [transitionCache EXCEPT ![s] = e] /\ UNCHANGED propertyCache
    BY <1>2, <1>5, <1>7 DEF Remember
  <2>2. e \in TransitionEntry /\ e.map = m /\ e.target = y.map
    BY <1>5, <1>6 DEF TransitionEntry
  <2>3. TransitionRight(maps', K, e, n)
    BY <1>4, <1>6, <1>7, <2>2 DEF TransitionRight
  <2> HIDE DEF e
  <2>4. /\ transitionCache' \in [Site -> TransitionEntry \cup {Nobody}]
        /\ \A r \in Site : transitionCache'[r] = IF r = s THEN e ELSE transitionCache[r]
    BY <1>1, <2>1, <2>2
  <2>5. TransitionsRight(maps', K, Kept, transitionCache')
    <3>1. \A r \in Site :
            \/ transitionCache'[r] = transitionCache[r]
            \/ transitionCache'[r].target \in K /\ TransitionRight(maps', K, transitionCache'[r], r[2])
      BY <1>5, <2>2, <2>3, <2>4
    <3> QED BY <1>4, <2>4, <3>1, TransitionsWritten
  <2>6. FieldsRight(maps', K, Kept, propertyCache')
    BY <1>4, <2>1, CachesKept
  <2> QED BY <1>4, <2>5, <2>6
<1>8. CASE y.map = m
  <2> DEFINE N == maps'[m]
             e == IF ~N.dictionary /\ HasField(N, n) THEN [map |-> m, field |-> FieldOf(N, n)]
                  ELSE propertyCache[s]
  <2>1. propertyCache' = [propertyCache EXCEPT ![s] = e] /\ UNCHANGED transitionCache
    BY <1>2, <1>5, <1>8 DEF Remember
  <2>2. /\ e \in FieldEntry \cup {Nobody}
        /\ e = propertyCache[s] \/ FieldRight(maps', K, e, n)
    <3>1. CASE ~N.dictionary /\ HasField(N, n)
      <4>1. FieldOf(N, n) \in DOMAIN N.descriptors /\ N.descriptors[FieldOf(N, n)] = n
        BY <1>4, <1>6, <3>1, Fields
      <4>2. FieldOf(N, n) \in Nat \ {0}
        <5>1. N.descriptors \in Seq(Name)
          BY <1>4, <1>6, MapParts
        <5> HIDE DEF N
        <5> QED BY <4>1, <5>1
      <4>3. e = [map |-> m, field |-> FieldOf(N, n)]
        BY <3>1
      <4>4. e \in FieldEntry /\ e.map = m /\ e.field = FieldOf(N, n)
        <5> HIDE DEF e, N
        <5> QED BY <1>6, <4>2, <4>3 DEF FieldEntry
      <4> HIDE DEF e, m
      <4> QED BY <1>6, <4>1, <4>4 DEF FieldRight
    <3>2. CASE ~(~N.dictionary /\ HasField(N, n))
      BY <1>1, <3>2
    <3> QED BY <3>1, <3>2
  <2> HIDE DEF e
  <2>3. /\ propertyCache' \in [Site -> FieldEntry \cup {Nobody}]
        /\ \A r \in Site : propertyCache'[r] = IF r = s THEN e ELSE propertyCache[r]
    BY <1>1, <2>1, <2>2
  <2>4. FieldsRight(maps', K, Kept, propertyCache')
    <3>1. \A r \in Site :
            propertyCache'[r] = propertyCache[r] \/ FieldRight(maps', K, propertyCache'[r], r[2])
      BY <2>2, <2>3
    <3> QED BY <1>4, <2>3, <3>1, FieldsWritten
  <2>5. TransitionsRight(maps', K, Kept, transitionCache')
    BY <1>4, <2>1, CachesKept
  <2> QED BY <1>4, <2>4, <2>5
<1> QED BY <1>7, <1>8

(* StaNamedProperty stores the value under its name and no other, unless   *)
(* it is misled, and leaves its caches right.                              *)
LEMMA NamedStored ==
  ASSUME Sound, NEW o \in Object, objects[o].map # Nobody,
         NEW s \in Site, NEW n \in Name, s[2] = n, NEW v \in Value,
         ~Misleads(s, o),
         StoreField(s, o, n, v) \/ StoreTransition(s, o, n, v) \/ StoreSlow(s, o, n, v)
  PROVE  \E K, y :
           /\ Tree(maps', K) /\ Grows(maps, held, maps', K)
           /\ objects' = [objects EXCEPT ![o] = y] /\ Given(maps, objects[o], maps', K, y, n, v)
           /\ FieldsRight(maps', K, Kept, propertyCache')
           /\ TransitionsRight(maps', K, Kept, transitionCache')
<1>1. CASE StoreField(s, o, n, v)
  <2>1. <<"field", s>> \notin dangling
    BY <1>1 DEF StoreField, Misleads
  <2>2. UNCHANGED <<maps, propertyCache, transitionCache>>
    BY <1>1 DEF StoreField
  <2>3. PICK y : objects' = [objects EXCEPT ![o] = y] /\ Given(maps, objects[o], maps, held, y, n, v)
    BY <1>1, <2>1, FieldStored
  <2>4. Tree(maps', held) /\ Grows(maps, held, maps', held)
    BY <2>2, MapsKept
  <2>5. /\ FieldsRight(maps', held, Kept, propertyCache')
        /\ TransitionsRight(maps', held, Kept, transitionCache')
    BY <2>2, <2>4, CachesKept
  <2> QED BY <2>2, <2>3, <2>4, <2>5
<1>2. CASE StoreTransition(s, o, n, v)
  <2>1. <<"transition", s>> \notin dangling
    BY <1>2 DEF StoreTransition, Misleads
  <2>2. UNCHANGED <<maps, propertyCache, transitionCache>>
    BY <1>2 DEF StoreTransition
  <2>3. PICK y : objects' = [objects EXCEPT ![o] = y] /\ Given(maps, objects[o], maps, held, y, n, v)
    BY <1>2, <2>1, TransitionStored
  <2>4. Tree(maps', held) /\ Grows(maps, held, maps', held)
    BY <2>2, MapsKept
  <2>5. /\ FieldsRight(maps', held, Kept, propertyCache')
        /\ TransitionsRight(maps', held, Kept, transitionCache')
    BY <2>2, <2>4, CachesKept
  <2> QED BY <2>2, <2>3, <2>4, <2>5
<1>3. CASE StoreSlow(s, o, n, v)
  BY <1>3, SlowStored
<1> QED BY <1>1, <1>2, <1>3

-----------------------------------------------------------------------------
(* Steps that write *)

(* A step that mixes up nothing, and one that was misled, after which only *)
(* the types are as they were.                                             *)
Lands == misled' = FALSE /\ \E K : After(K)
Strays ==
  /\ misled' = TRUE
  /\ maps' \in [Address -> Map] /\ objects' \in [Object -> JSObject]
  /\ pool' \in Seq(Object) /\ Len(pool') <= PoolSize
  /\ propertyCache' \in [Site -> FieldEntry \cup {Nobody}]
  /\ methodCache' \in [Site -> MethodEntry \cup {Nobody}]
  /\ transitionCache' \in [Site -> TransitionEntry \cup {Nobody}]
  /\ boilerplate' \in Address \cup {Nobody}
  /\ literal' \in [object : Object \cup {Nobody}, next : 1..Names + 1]
  /\ written' \in [Object -> [Name -> Value \cup {Undefined}]]

(* An object with a value under a name, and the objects beside it. *)
LEMMA ValueWritten ==
  ASSUME Sound, NEW K, Tree(maps', K), Grows(maps, held, maps', K),
         NEW o \in Object, objects[o].map # Nobody,
         NEW n \in Name, NEW v \in Value \cup {Undefined}, NEW y,
         objects' = [objects EXCEPT ![o] = y], Given(maps, objects[o], maps', K, y, n, v),
         Wrote(o, n, v), UNCHANGED pool
  PROVE  /\ ObjectsRight(maps', K, objects') /\ HistoryRight' /\ PoolRight'
         /\ UNCHANGED literal => LiteralRight'
         /\ \A p \in Object : objects[p].map # Nobody => objects'[p].map # Nobody
<1> DEFINE w == [written[o] EXCEPT ![n] = v]
<1>1. /\ objects \in [Object -> JSObject] /\ written \in [Object -> [Name -> Value \cup {Undefined}]]
      /\ Fits(maps', K, y) /\ y.map # Nobody
      /\ \A k \in Name : Shows(maps', y, k) = IF k = n THEN v ELSE Shows(maps, objects[o], k)
  BY DEF Sound, ObjectsRight, HistoryRight, Given
<1>2. w \in [Name -> Value \cup {Undefined}] /\ \A k \in Name : w[k] = IF k = n THEN v ELSE written[o][k]
  BY <1>1
<1>3. written' = [written EXCEPT ![o] = w]
  BY <1>1 DEF Wrote
<1>4. \A p \in Object : objects[p].map # Nobody => objects'[p].map # Nobody
  BY <1>1
<1>5. ASSUME NEW p \in Live', p # o PROVE p \in Live
  <2>1. objects[p].map # Nobody
    BY <1>1, <1>5 DEF Live
  <2> QED BY <1>4, <2>1, OthersKept
<1>6. ASSUME o \in Live', NEW k \in Name PROVE Shows(maps', y, k) = w[k]
  <2>1. o \in Live
    BY <1>4, <1>6, OthersKept
  <2>2. Shows(maps, objects[o], k) = written[o][k]
    BY <2>1 DEF Sound, HistoryRight
  <2> QED BY <1>1, <1>2, <2>2
<1> HIDE DEF w
<1>7. ObjectsRight(maps', K, objects') /\ HistoryRight'
  BY <1>1, <1>2, <1>3, <1>5, <1>6, ObjectReplaced DEF Replaced
<1> QED BY <1>4, <1>7, OthersKept

LEMMA LiveMapped ==
  \A o \in Live : o \in Object /\ objects[o].map # Nobody
BY DEF Live

LEMMA StoredValues ==
  ASSUME NEW n, NEW v, <<n, v>> \in Stored
  PROVE  n \in Name /\ v \in Value
BY ShapesAssumption DEF Name, Value

(* StaNamedProperty, with the bookkeeping of its site. *)
LEMMA StoreAtStep ==
  ASSUME Sound, NEW o \in Object, objects[o].map # Nobody,
         NEW s \in Site, NEW n \in Name, s[2] = n, NEW v \in Value,
         StoreAt(s, o, n, v), ~Misleads(s, o)
  PROVE  \E K :
           /\ Tree(maps', K) /\ ObjectsRight(maps', K, objects') /\ HistoryRight' /\ PoolRight'
           /\ CachesAfter(K)
           /\ UNCHANGED literal => LiteralRight'
           /\ \A p \in Object : objects[p].map # Nobody => objects'[p].map # Nobody
<1>1. /\ StoreField(s, o, n, v) \/ StoreTransition(s, o, n, v) \/ StoreSlow(s, o, n, v)
      /\ Wrote(o, n, v) /\ UNCHANGED <<pool, methodCache, boilerplate>>
  BY DEF StoreAt
<1>2. PICK K, y :
        /\ Tree(maps', K) /\ Grows(maps, held, maps', K)
        /\ objects' = [objects EXCEPT ![o] = y] /\ Given(maps, objects[o], maps', K, y, n, v)
        /\ FieldsRight(maps', K, Kept, propertyCache')
        /\ TransitionsRight(maps', K, Kept, transitionCache')
  BY <1>1, NamedStored
<1>3. /\ ObjectsRight(maps', K, objects') /\ HistoryRight' /\ PoolRight'
      /\ UNCHANGED literal => LiteralRight'
      /\ \A p \in Object : objects[p].map # Nobody => objects'[p].map # Nobody
  BY <1>1, <1>2, ValueWritten
<1>4. MethodsRight(maps', K, Kept, methodCache') /\ boilerplate' \in K \cup {Nobody}
  BY <1>1, <1>2, CachesKept
<1>5. CachesAfter(K)
  BY <1>2, <1>4 DEF CachesAfter, CachesRight
<1> QED BY <1>2, <1>3, <1>5

(* The types after a store through an entry that dangles. *)
LEMMA StoreMisled ==
  ASSUME Sound, NEW o \in Object, objects[o].map # Nobody,
         NEW s \in Site, NEW n \in Name, NEW v \in Value,
         StoreAt(s, o, n, v), Misleads(s, o),
         literal' \in [object : Object \cup {Nobody}, next : 1..Names + 1]
  PROVE  Strays
<1> DEFINE x == objects[o]
<1>1. /\ x \in JSObject /\ x.properties \in Seq(Value \cup {Undefined})
      /\ objects \in [Object -> JSObject] /\ maps \in [Address -> Map] /\ held \subseteq Address
      /\ written \in [Object -> [Name -> Value \cup {Undefined}]]
      /\ pool \in Seq(Object) /\ Len(pool) <= PoolSize
      /\ propertyCache \in [Site -> FieldEntry \cup {Nobody}]
      /\ methodCache \in [Site -> MethodEntry \cup {Nobody}]
      /\ transitionCache \in [Site -> TransitionEntry \cup {Nobody}]
      /\ boilerplate \in Address \cup {Nobody}
  BY ObjectParts
     DEF Sound, Tree, ObjectsRight, HistoryRight, PoolRight, CachesRight, FieldsRight, MethodsRight,
         TransitionsRight
<1>2. misled' = TRUE /\ Wrote(o, n, v) /\ UNCHANGED <<pool, methodCache, boilerplate>>
  <2>1. Misleads(s, o) = TRUE
    BY DEF Misleads
  <2> QED BY <2>1 DEF StoreAt
<1>3. written' \in [Object -> [Name -> Value \cup {Undefined}]]
  <2> DEFINE w == [written[o] EXCEPT ![n] = v]
  <2>1. w \in [Name -> Value \cup {Undefined}] /\ written' = [written EXCEPT ![o] = w]
    BY <1>1, <1>2 DEF Wrote
  <2> HIDE DEF w
  <2> QED BY <1>1, <2>1
<1>4. /\ objects' \in [Object -> JSObject]
      /\ UNCHANGED <<maps, propertyCache, transitionCache>>
  <2>1. CASE FieldHit(s, o)
    <3> DEFINE i == propertyCache[s].field
               slots == [x.properties EXCEPT ![i] = v]
               y == [x EXCEPT !.properties = slots]
    <3>1. StoreField(s, o, n, v)
      BY <2>1 DEF StoreAt, StoreTransition, StoreSlow
    <3>2. objects' = [objects EXCEPT ![o] = y] /\ UNCHANGED <<maps, propertyCache, transitionCache>>
      BY <1>1, <3>1 DEF StoreField
    <3>3. slots \in Seq(Value \cup {Undefined})
      <4>1. i \in 1..Len(x.properties) /\ Len(x.properties) \in Nat
        BY <1>1, <2>1 DEF FieldHit
      <4> HIDE DEF i, x
      <4> QED BY <1>1, <4>1
    <3>4. y \in JSObject
      <4> HIDE DEF slots, x
      <4> QED BY <1>1, <3>3 DEF JSObject
    <3> HIDE DEF y
    <3> QED BY <1>1, <3>2, <3>4
  <2>2. CASE ~FieldHit(s, o)
    <3> DEFINE t == transitionCache[s].target
               slots == Append(x.properties, v)
               half == [x EXCEPT !.map = t]
               y == [half EXCEPT !.properties = slots]
    <3>1. transitionCache[s] # Nobody /\ Matches(transitionCache[s], objects[o].map)
      BY <2>2 DEF Misleads, Matches
    <3>2. StoreTransition(s, o, n, v)
      BY <2>2, <3>1 DEF StoreAt, StoreField, StoreSlow
    <3>3. objects' = [objects EXCEPT ![o] = y] /\ UNCHANGED <<maps, propertyCache, transitionCache>>
      BY <1>1, <3>2 DEF StoreTransition
    <3>4. t \in Address
      BY <1>1, <3>1 DEF TransitionEntry
    <3>5. slots \in Seq(Value \cup {Undefined})
      BY <1>1
    <3>6. y \in JSObject
      <4> HIDE DEF t, slots, x
      <4>1. half \in JSObject
        BY <1>1, <3>4 DEF JSObject
      <4> HIDE DEF half
      <4> QED BY <3>5, <4>1 DEF JSObject
    <3> HIDE DEF y
    <3> QED BY <1>1, <3>3, <3>6
  <2> QED BY <2>1, <2>2
<1> QED BY <1>1, <1>2, <1>3, <1>4 DEF Strays

LEMMA StoreStep ==
  ASSUME Sound, NEW n \in Stores, NEW o \in Live, NEW v \in Value, Store(n, o, v)
  PROVE  Lands \/ Strays
<1> DEFINE s == StoreSite(n)
<1>1. StoreAt(s, o, n, v) /\ UNCHANGED literal
  BY DEF Store
<1>2. s \in Site /\ s[2] = n /\ n \in Name /\ o \in Object /\ objects[o].map # Nobody
  BY Sites, LiveMapped
<1> HIDE DEF s
<1>3. CASE Misleads(s, o)
  BY <1>1, <1>2, <1>3, StoreMisled DEF Sound, LiteralRight
<1>4. CASE ~Misleads(s, o)
  <2>1. misled' = FALSE
    BY <1>1, <1>4 DEF StoreAt, Misleads
  <2>2. \E K : After(K)
    BY <1>1, <1>2, <1>4, StoreAtStep DEF After
  <2> QED BY <2>1, <2>2 DEF Lands
<1> QED BY <1>3, <1>4

LEMMA InitLiteralStep ==
  ASSUME Sound, NEW v \in Value, InitLiteral(v)
  PROVE  Lands \/ Strays
<1> DEFINE o == literal.object
           n == literal.next
           s == InitSite(n)
<1>1. /\ literal # NoLiteral /\ n <= LiteralSize /\ StoreAt(s, o, n, v)
      /\ literal' = [literal EXCEPT !.next = n + 1]
  BY DEF InitLiteral
<1>2. /\ literal \in [object : Object \cup {Nobody}, next : 1..Names + 1]
      /\ o \in Object /\ objects[o].map # Nobody
  BY <1>1 DEF Sound, LiteralRight
<1>3. Names \in Nat /\ LiteralSize \in 0..Names
  BY ShapesAssumption
<1>4. n \in 1..LiteralSize
  <2>1. n \in 1..Names + 1
    BY <1>2
  <2> QED BY <1>1, <1>3, <2>1
<1>5. s \in Site /\ s[2] = n /\ n \in Name
  BY <1>4, Sites
<1>6. literal' \in [object : Object \cup {Nobody}, next : 1..Names + 1] /\ literal'.object = o
  <2>1. n + 1 \in 1..Names + 1
    BY <1>3, <1>4
  <2> QED BY <1>1, <1>2, <2>1
<1> HIDE DEF s, o, n
<1>7. CASE Misleads(s, o)
  BY <1>1, <1>2, <1>5, <1>6, <1>7, StoreMisled
<1>8. CASE ~Misleads(s, o)
  <2>1. misled' = FALSE
    BY <1>1, <1>8 DEF StoreAt, Misleads
  <2>2. PICK K :
          /\ Tree(maps', K) /\ ObjectsRight(maps', K, objects') /\ HistoryRight' /\ PoolRight'
          /\ CachesAfter(K)
          /\ \A p \in Object : objects[p].map # Nobody => objects'[p].map # Nobody
    BY <1>1, <1>2, <1>5, <1>8, StoreAtStep
  <2>3. LiteralRight'
    <3>1. o # Nobody
      BY <1>2, Constants
    <3> QED BY <1>2, <1>6, <2>2, <3>1 DEF LiteralRight
  <2> QED BY <2>1, <2>2, <2>3 DEF Lands, After
<1> QED BY <1>7, <1>8

-----------------------------------------------------------------------------
(* Steps that set, delete and load properties *)
LEMMA KeyedStoreStep ==
  ASSUME Sound, misled = FALSE, NEW n \in Keyed, NEW o \in Live, NEW v \in Value, KeyedStore(n, o, v)
  PROVE  Lands
<1>1. /\ SetProperty(o, n, v) /\ Wrote(o, n, v) /\ UNCHANGED <<pool, caches, literal, misled>>
      /\ n \in Name
  BY StoredValues DEF KeyedStore
<1>2. o \in Object /\ objects[o].map # Nobody
  BY LiveMapped
<1>3. PICK K : \E y \in JSObject :
        /\ Tree(maps', K) /\ Grows(maps, held, maps', K)
        /\ objects' = [objects EXCEPT ![o] = y] /\ Given(maps, objects[o], maps', K, y, n, v)
  BY <1>1, <1>2, PropertySet
<1>4. ObjectsRight(maps', K, objects') /\ HistoryRight' /\ PoolRight' /\ LiteralRight'
  BY <1>1, <1>2, <1>3, ValueWritten
<1>5. CachesAfter(K)
  BY <1>1, <1>3, CachesKept
<1> QED BY <1>1, <1>3, <1>4, <1>5 DEF Lands, After

(* A map made where none was. *)
LEMMA MapMade ==
  ASSUME Sound, NEW a \in Available, NEW new, Addable(maps, held, new), maps' = [maps EXCEPT ![a] = new]
  PROVE  /\ Tree(maps', held \cup {a}) /\ Grows(maps, held, maps', held \cup {a})
         /\ maps'[a] = new /\ a \in Address /\ a # Nobody
<1>1. a \in Address \ held /\ a # Nobody /\ Tree(maps, held)
  BY Constants DEF Available, Sound
<1>2. /\ Tree([maps EXCEPT ![a] = new], held \cup {a})
      /\ Grows(maps, held, [maps EXCEPT ![a] = new], held \cup {a})
      /\ [maps EXCEPT ![a] = new][a] = new
  BY <1>1, MapAdded
<1> QED BY <1>1, <1>2

(* A property deleted from the dictionary. *)
LEMMA EntryDeleted ==
  ASSUME Sound, NEW n \in Name, NEW o \in Live, Delete(n, o), MapOf(o).dictionary
  PROVE  /\ UNCHANGED maps
         /\ \E y : /\ objects' = [objects EXCEPT ![o] = y]
                   /\ Given(maps, objects[o], maps, held, y, n, Undefined)
<1> DEFINE x == objects[o]
           entries == [x.dictionary EXCEPT ![n] = Undefined]
           y == [x EXCEPT !.dictionary = entries]
<1>1. /\ x.map # Nobody /\ x \in JSObject /\ Fits(maps, held, x) /\ MapOf(o) = maps[x.map]
      /\ x.dictionary \in [Name -> Value \cup {Undefined}] /\ objects \in [Object -> JSObject]
  BY LiveMapped, ObjectParts DEF Sound, ObjectsRight
<1>2. objects' = [objects EXCEPT ![o] = y] /\ UNCHANGED maps
  BY <1>1 DEF Delete
<1>3. /\ entries \in [Name -> Value \cup {Undefined}]
      /\ \A k \in Name : entries[k] = IF k = n THEN Undefined ELSE x.dictionary[k]
  BY <1>1
<1>4. y \in JSObject /\ y.map = x.map /\ y.properties = x.properties /\ y.dictionary = entries
  <2> HIDE DEF x, entries
  <2> QED BY <1>1, <1>3 DEF JSObject
<1>5. Given(maps, x, maps, held, y, n, Undefined)
  <2>1. maps[x.map].dictionary
    BY <1>1
  <2> HIDE DEF y, x, entries
  <2>2. Fits(maps, held, y)
    BY <1>1, <1>4 DEF Fits
  <2>3. \A k \in Name : Shows(maps, y, k) = IF k = n THEN Undefined ELSE Shows(maps, x, k)
    BY <1>3, <1>4, <2>1 DEF Shows
  <2> QED BY <1>1, <1>4, <2>2, <2>3 DEF Given
<1> HIDE DEF y
<1> QED BY <1>2, <1>5

(* A property deleted, and the object made a dictionary. *)
LEMMA SlotDeleted ==
  ASSUME Sound, NEW n \in Name, NEW o \in Live, Delete(n, o), ~MapOf(o).dictionary
  PROVE  \E K, y :
           /\ Tree(maps', K) /\ Grows(maps, held, maps', K)
           /\ objects' = [objects EXCEPT ![o] = y]
           /\ Given(maps, objects[o], maps', K, y, n, Undefined)
<1> DEFINE x == objects[o]
           new == NewMap(PrototypeOf(o), TRUE)
           entries == [k \in Name |-> IF k = n THEN Undefined ELSE Own(o, k)]
<1>1. /\ o \in Object /\ x.map # Nobody /\ x.map \in held /\ Tree(maps, held) /\ MapOf(o) = maps[x.map]
      /\ \A k : Own(o, k) = Shows(maps, x, k)
  BY LiveMapped, ObjectParts DEF Sound
<1>2. PICK a \in Available :
        /\ maps' = [maps EXCEPT ![a] = new]
        /\ objects' = [objects EXCEPT ![o] = [map |-> a, properties |-> <<>>, dictionary |-> entries]]
  BY DEF Delete
<1> DEFINE K == held \cup {a}
           y == [map |-> a, properties |-> <<>>, dictionary |-> entries]
<1>3. a \in Address \ held /\ a # Nobody
  BY Constants DEF Available
<1>4. new \in Map /\ new.descriptors = <<>> /\ new.dictionary /\ \A k \in Name : new.transitions[k] = Nobody
  <2>1. PrototypeOf(o) \in Object \cup {Nobody}
    BY <1>1, MapParts DEF PrototypeOf
  <2> QED BY <2>1 DEF NewMap, Map
<1>5. Tree(maps', K) /\ Grows(maps, held, maps', K) /\ maps'[a] = new
  <2>1. \A i, j \in DOMAIN new.descriptors : new.descriptors[i] = new.descriptors[j] => i = j
    <3> HIDE DEF new
    <3> QED BY <1>4
  <2>2. \A k \in Name : new.transitions[k] # Nobody => FALSE
    BY <1>4
  <2> HIDE DEF new
  <2>3. Addable(maps, held, new)
    BY <1>4, <2>1, <2>2 DEF Addable
  <2> QED BY <1>2, <2>3, MapMade
<1>6. entries \in [Name -> Value \cup {Undefined}]
  <2>1. \A k \in Name : Own(o, k) \in Value \cup {Undefined}
    BY <1>1 DEF Sound, HistoryRight
  <2> QED BY <2>1
<1>7. y \in JSObject /\ y.map = a /\ Len(y.properties) = 0 /\ y.dictionary = entries
  <2> HIDE DEF entries
  <2> QED BY <1>3, <1>6 DEF JSObject
<1>8. Given(maps, x, maps', K, y, n, Undefined)
  <2>1. Fits(maps', K, y)
    <3> HIDE DEF y, new
    <3> QED BY <1>4, <1>5, <1>7 DEF Fits
  <2>2. \A k \in Name : Shows(maps', y, k) = entries[k]
    <3> HIDE DEF y, new, entries
    <3> QED BY <1>4, <1>5, <1>7 DEF Shows
  <2>3. \A k \in Name : entries[k] = IF k = n THEN Undefined ELSE Shows(maps, x, k)
    BY <1>1
  <2> HIDE DEF y, entries, x, K
  <2> QED BY <1>3, <1>7, <2>1, <2>2, <2>3 DEF Given
<1>9. objects' = [objects EXCEPT ![o] = y]
  BY <1>2
<1> HIDE DEF y, K
<1> QED BY <1>5, <1>8, <1>9

LEMMA DeleteStep ==
  ASSUME Sound, misled = FALSE, NEW n \in Deletes, NEW o \in Live, Delete(n, o)
  PROVE  Lands
<1>1. n \in Name /\ Wrote(o, n, Undefined) /\ UNCHANGED <<pool, caches, literal, misled>>
  BY ShapesAssumption DEF Delete, Name
<1>2. PICK K, y :
        /\ Tree(maps', K) /\ Grows(maps, held, maps', K)
        /\ objects' = [objects EXCEPT ![o] = y]
        /\ Given(maps, objects[o], maps', K, y, n, Undefined)
  <2>1. CASE MapOf(o).dictionary
    <3>1. UNCHANGED maps
      BY <1>1, <2>1, EntryDeleted
    <3>2. PICK y : /\ objects' = [objects EXCEPT ![o] = y]
                   /\ Given(maps, objects[o], maps, held, y, n, Undefined)
      BY <1>1, <2>1, EntryDeleted
    <3>3. Tree(maps', held) /\ Grows(maps, held, maps', held)
      BY <3>1, MapsKept
    <3> QED BY <3>1, <3>2, <3>3
  <2>2. CASE ~MapOf(o).dictionary
    BY <1>1, <2>2, SlotDeleted
  <2> QED BY <2>1, <2>2
<1>3. ObjectsRight(maps', K, objects') /\ HistoryRight' /\ PoolRight' /\ LiteralRight'
  BY <1>1, <1>2, LiveMapped, ValueWritten
<1>4. CachesAfter(K)
  BY <1>1, <1>2, CachesKept
<1> QED BY <1>1, <1>2, <1>3, <1>4 DEF Lands, After

(* LdaNamedProperty writes an entry only for what the map says. *)
LEMMA LoadStep ==
  ASSUME Sound, misled = FALSE, NEW n \in Loads, NEW o \in Live, Load(n, o)
  PROVE  Lands
<1> DEFINE s == LoadSite(n)
           m == objects[o].map
           value == Lookup(o, n)
           field == IF FieldOf(MapOf(o), n) \in DOMAIN objects[o].properties
                    THEN [map |-> m, field |-> FieldOf(MapOf(o), n)] ELSE propertyCache[s]
           method == IF ~MapOf(o).dictionary /\ value \in Functions
                     THEN [map |-> m, method |-> value] ELSE methodCache[s]
<1>1. /\ UNCHANGED <<maps, objects, pool, transitionCache, boilerplate, literal, written, misled>>
      /\ \/ /\ ~MapOf(o).dictionary /\ HasField(MapOf(o), n)
            /\ propertyCache' = [propertyCache EXCEPT ![s] = field] /\ UNCHANGED methodCache
         \/ /\ ~(~MapOf(o).dictionary /\ HasField(MapOf(o), n))
            /\ methodCache' = [methodCache EXCEPT ![s] = method] /\ UNCHANGED propertyCache
  BY DEF Load
<1>2. /\ s \in Site /\ s[2] = n /\ n \in Name
      /\ o \in Object /\ m # Nobody /\ m \in held /\ MapOf(o) = maps[m] /\ Tree(maps, held)
      /\ m \in Address
  <2>1. /\ s \in Site /\ s[2] = n /\ n \in Name
    BY Sites
  <2>2. o \in Object /\ m # Nobody /\ m \in held /\ MapOf(o) = maps[m] /\ Tree(maps, held)
    BY LiveMapped, ObjectParts DEF Sound
  <2> QED BY <2>1, <2>2, MapParts
<1>3. /\ Tree(maps', held) /\ Grows(maps, held, maps', held)
      /\ ObjectsRight(maps', held, objects') /\ PoolRight' /\ LiteralRight' /\ HistoryRight'
  BY <1>1, MapsKept DEF Sound, ObjectsRight, PoolRight, LiteralRight, HistoryRight, Live, Pooled
<1>4. /\ propertyCache \in [Site -> FieldEntry \cup {Nobody}]
      /\ methodCache \in [Site -> MethodEntry \cup {Nobody}]
  BY DEF Sound, CachesRight, FieldsRight, MethodsRight
<1>5. CASE /\ ~MapOf(o).dictionary /\ HasField(MapOf(o), n)
           /\ propertyCache' = [propertyCache EXCEPT ![s] = field] /\ UNCHANGED methodCache
  <2>1. FieldOf(maps[m], n) \in DOMAIN maps[m].descriptors /\ maps[m].descriptors[FieldOf(maps[m], n)] = n
        /\ FieldOf(maps[m], n) \in Nat \ {0}
    <3>1. FieldOf(maps[m], n) \in DOMAIN maps[m].descriptors /\ maps[m].descriptors[FieldOf(maps[m], n)] = n
      BY <1>2, <1>5, Fields
    <3>2. maps[m].descriptors \in Seq(Name)
      BY <1>2, MapParts
    <3> HIDE DEF m
    <3> QED BY <3>1, <3>2
  <2>2. /\ field \in FieldEntry \cup {Nobody}
        /\ \/ field = propertyCache[s]
           \/ field.map = m /\ field.field = FieldOf(maps[m], n)
    BY <1>2, <1>4, <2>1 DEF FieldEntry
  <2> HIDE DEF field, s, m
  <2>3. /\ propertyCache' \in [Site -> FieldEntry \cup {Nobody}]
        /\ \A r \in Site : propertyCache'[r] = IF r = s THEN field ELSE propertyCache[r]
    BY <1>2, <1>4, <1>5, <2>2
  <2>4. FieldsRight(maps', held, Kept, propertyCache')
    <3>1. field = propertyCache[s] \/ FieldRight(maps', held, field, n)
      BY <1>1, <1>2, <2>1, <2>2 DEF FieldRight
    <3>2. \A r \in Site :
            propertyCache'[r] = propertyCache[r] \/ FieldRight(maps', held, propertyCache'[r], r[2])
      BY <1>2, <2>3, <3>1
    <3> QED BY <1>3, <2>3, <3>2, FieldsWritten
  <2>5. CachesAfter(held)
    BY <1>1, <1>3, <1>5, <2>4, CachesKept DEF CachesAfter, CachesRight
  <2> QED BY <1>1, <1>3, <2>5 DEF Lands, After
<1>6. CASE /\ ~(~MapOf(o).dictionary /\ HasField(MapOf(o), n))
           /\ methodCache' = [methodCache EXCEPT ![s] = method] /\ UNCHANGED propertyCache
  <2>1. /\ method \in MethodEntry \cup {Nobody}
        /\ \/ method = methodCache[s]
           \/ method.map = m /\ ~maps[m].dictionary /\ ~HasField(maps[m], n)
    <3> HIDE DEF value
    <3> QED BY <1>2, <1>4, <1>6 DEF MethodEntry
  <2> HIDE DEF method, s, m
  <2>2. /\ methodCache' \in [Site -> MethodEntry \cup {Nobody}]
        /\ \A r \in Site : methodCache'[r] = IF r = s THEN method ELSE methodCache[r]
    BY <1>2, <1>4, <1>6, <2>1
  <2>3. MethodsRight(maps', held, Kept, methodCache')
    <3>1. method = methodCache[s] \/ MethodRight(maps', held, method, n)
      BY <1>1, <1>2, <2>1 DEF MethodRight
    <3>2. \A r \in Site :
            methodCache'[r] = methodCache[r] \/ MethodRight(maps', held, methodCache'[r], r[2])
      BY <1>2, <2>2, <3>1
    <3> QED BY <1>3, <2>2, <3>2, MethodsWritten
  <2>4. CachesAfter(held)
    BY <1>1, <1>3, <1>6, <2>3, CachesKept DEF CachesAfter, CachesRight
  <2> QED BY <1>1, <1>3, <2>4 DEF Lands, After
<1> QED BY <1>1, <1>5, <1>6

-----------------------------------------------------------------------------
(* Steps that make objects and drop them *)

LEMMA NewObjectType ==
  ASSUME Sound, CanMake
  PROVE  NewObject \in Object
<1>1. CASE pool # <<>>
  <2>1. pool \in Seq(Object)
    BY DEF Sound, PoolRight
  <2> QED BY <1>1, <2>1 DEF NewObject
<1>2. CASE pool = <<>>
  <2>1. Free \in SUBSET Nat /\ Free # {}
    BY <1>2, Constants DEF CanMake, Free
  <2>2. \E o \in Free : \A p \in Free : o <= p
    BY <2>1, Least
  <2>3. NewObject \in Free
    BY <1>2, <2>2 DEF NewObject
  <2> QED BY <2>3 DEF Free
<1> QED BY <1>1, <1>2

(* A new object shows nothing, whatever it was before. *)
LEMMA ObjectMade ==
  ASSUME Sound, CanMake, NEW K, Tree(maps', K), Grows(maps, held, maps', K),
         NEW y, Make(NewObject, y),
         Fits(maps', K, y), y.map # Nobody, \A n \in Name : Shows(maps', y, n) = Undefined
  PROVE  /\ ObjectsRight(maps', K, objects') /\ HistoryRight' /\ PoolRight' /\ objects'[NewObject].map # Nobody
         /\ UNCHANGED literal => LiteralRight'
<1> DEFINE o == NewObject
<1>1. /\ o \in Object /\ objects \in [Object -> JSObject]
      /\ pool \in Seq(Object) /\ Len(pool) <= PoolSize /\ PoolSize \in Nat
      /\ \A i \in DOMAIN pool : objects[pool[i]].map # Nobody
  BY NewObjectType, ShapesAssumption DEF Sound, ObjectsRight, PoolRight
<1>2. /\ objects' = [objects EXCEPT ![o] = y] /\ written' = [written EXCEPT ![o] = NoProperties]
      /\ pool' = IF pool # <<>> THEN SubSeq(pool, 1, Len(pool) - 1) ELSE pool
  BY DEF Make
<1>3. pool = <<>> \/ o = pool[Len(pool)]
  BY DEF NewObject
<1> HIDE DEF o
<1>4. \A p \in Object : objects'[p] = IF p = o THEN y ELSE objects[p]
  BY <1>1, <1>2
<1>5. /\ pool' \in Seq(Object) /\ Len(pool') <= PoolSize
      /\ \A i \in DOMAIN pool' : i \in DOMAIN pool /\ pool'[i] = pool[i]
      /\ \A i \in DOMAIN pool : i \in DOMAIN pool' \/ (i = Len(pool) /\ pool # <<>>)
  <2>1. CASE pool = <<>>
    BY <1>1, <1>2, <2>1
  <2>2. CASE pool # <<>>
    <3> DEFINE l == Len(pool) - 1
    <3>1. l \in Nat /\ l + 1 = Len(pool)
      BY <1>1, <2>2
    <3>2. pool' = SubSeq(pool, 1, l)
      BY <1>2, <2>2
    <3>3. /\ pool' \in Seq(Object) /\ Len(pool') = l /\ DOMAIN pool' = 1..l
          /\ \A i \in 1..l : pool'[i] = pool[i]
      <4> HIDE DEF l
      <4> QED BY <1>1, <3>1, <3>2
    <3> HIDE DEF l
    <3> QED BY <1>1, <3>1, <3>3
  <2> QED BY <2>1, <2>2
<1>6. PoolRight'
  <2>1. ASSUME NEW i \in DOMAIN pool' PROVE objects'[pool'[i]].map # Nobody
    <3>1. pool[i] \in Object /\ pool'[i] = pool[i] /\ objects[pool[i]].map # Nobody
      BY <1>1, <1>5
    <3> QED BY <1>4, <3>1
  <2> QED BY <1>5, <2>1 DEF PoolRight
<1>7. ASSUME NEW p \in Live', p # o PROVE p \in Live
  <2>1. p \in Object /\ objects[p].map # Nobody /\ \A i \in DOMAIN pool' : pool'[i] # p
    BY <1>4, <1>7 DEF Live, Pooled, Elements
  <2>2. \A i \in DOMAIN pool : pool[i] # p
    BY <1>3, <1>5, <1>7, <2>1
  <2> QED BY <2>1, <2>2 DEF Live, Pooled, Elements
<1>8. /\ NoProperties \in [Name -> Value \cup {Undefined}] /\ \A n \in Name : NoProperties[n] = Undefined
  BY DEF NoProperties
<1>9. ObjectsRight(maps', K, objects') /\ HistoryRight'
  <2>1. \A n \in Name : Shows(maps', y, n) = NoProperties[n]
    BY <1>8
  <2> QED BY <1>1, <1>2, <1>7, <1>8, <2>1, ObjectReplaced DEF o, Replaced
<1>10. \A p \in Object : objects[p].map # Nobody => objects'[p].map # Nobody
  BY <1>4
<1> QED BY <1>1, <1>4, <1>6, <1>9, <1>10, OthersKept DEF o

(* A reset object with a map that has no names. *)
LEMMA FreshFits ==
  ASSUME NEW M, NEW K, Tree(M, K), NEW m \in K, M[m].descriptors = <<>>, NEW o
  PROVE  /\ Fits(M, K, Fresh(o, m)) /\ Fresh(o, m).map # Nobody
         /\ \A n \in Name : Shows(M, Fresh(o, m), n) = Undefined
<1> DEFINE y == Fresh(o, m)
<1>1. m \in Address /\ m # Nobody
  BY MapParts, Constants
<1>2. y \in JSObject /\ y.map = m /\ y.properties = <<>> /\ y.dictionary = NoProperties
  <2>1. NoProperties \in [Name -> Value \cup {Undefined}] /\ <<>> \in Seq(Value \cup {Undefined})
    BY DEF NoProperties
  <2> QED BY <1>1, <2>1 DEF Fresh, Blank, JSObject
<1> HIDE DEF y
<1>3. Fits(M, K, y)
  BY <1>2 DEF Fits
<1>4. \A n : ~HasField(M[m], n)
  BY DEF HasField, Elements
<1>5. \A n \in Name : Shows(M, y, n) = Undefined
  BY <1>2, <1>4 DEF Shows, NoProperties
<1> QED BY <1>1, <1>2, <1>3, <1>5 DEF y

LEMMA CreateStep ==
  ASSUME Sound, misled = FALSE, Create
  PROVE  Lands
<1>1. /\ CanMake /\ Make(NewObject, Fresh(NewObject, RootMap))
      /\ UNCHANGED <<maps, caches, literal, misled>>
  BY DEF Create
<1>2. Tree(maps', held) /\ Grows(maps, held, maps', held)
  BY <1>1, MapsKept
<1>3. RootMap \in held /\ maps'[RootMap].descriptors = <<>>
  BY <1>2 DEF Tree
<1>4. ObjectsRight(maps', held, objects') /\ HistoryRight' /\ PoolRight' /\ LiteralRight'
  BY <1>1, <1>2, <1>3, FreshFits, ObjectMade
<1>5. CachesAfter(held)
  BY <1>1, <1>2, CachesKept
<1> QED BY <1>1, <1>2, <1>4, <1>5 DEF Lands, After

LEMMA CreateFromStep ==
  ASSUME Sound, misled = FALSE, NEW p \in Live, CreateFrom(p)
  PROVE  Lands
<1> DEFINE new == NewMap(p, FALSE)
<1>1. CanMake /\ UNCHANGED <<caches, literal, misled>>
  BY DEF CreateFrom
<1>2. PICK a \in Available : maps' = [maps EXCEPT ![a] = new] /\ Make(NewObject, Fresh(NewObject, a))
  BY DEF CreateFrom
<1> DEFINE K == held \cup {a}
<1>3. new \in Map /\ new.descriptors = <<>> /\ \A k \in Name : new.transitions[k] = Nobody
  BY LiveMapped DEF NewMap, Map
<1>4. Tree(maps', K) /\ Grows(maps, held, maps', K) /\ maps'[a] = new /\ a \in K
  <2>1. \A k \in Name : new.transitions[k] # Nobody => FALSE
    BY <1>3
  <2> HIDE DEF new
  <2>2. \A i, j \in DOMAIN new.descriptors : new.descriptors[i] = new.descriptors[j] => i = j
    BY <1>3
  <2>3. Addable(maps, held, new)
    BY <1>3, <2>1, <2>2 DEF Addable
  <2> QED BY <1>2, <2>3, MapMade
<1>5. ObjectsRight(maps', K, objects') /\ HistoryRight' /\ PoolRight' /\ LiteralRight'
  <2> HIDE DEF new, K
  <2>1. maps'[a].descriptors = <<>>
    BY <1>3, <1>4
  <2> DEFINE y == Fresh(NewObject, a)
  <2>2. Fits(maps', K, y) /\ y.map # Nobody /\ \A n \in Name : Shows(maps', y, n) = Undefined
    BY <1>4, <2>1, FreshFits
  <2>3. Make(NewObject, y)
    BY <1>2
  <2> HIDE DEF y
  <2> QED BY <1>1, <1>4, <2>2, <2>3, ObjectMade
<1> HIDE DEF K
<1>6. CachesAfter(K)
  BY <1>1, <1>4, CachesKept
<1> QED BY <1>1, <1>4, <1>5, <1>6 DEF Lands, After

LEMMA EndLiteralStep ==
  ASSUME Sound, misled = FALSE, EndLiteral
  PROVE  Lands
<1>1. literal' = NoLiteral /\ UNCHANGED <<maps, objects, pool, caches, written, misled>>
  BY DEF EndLiteral
<1>2. LiteralRight'
  BY <1>1, Constants DEF LiteralRight, NoLiteral
<1>3. Tree(maps', held) /\ Grows(maps, held, maps', held)
  BY <1>1, MapsKept
<1>4. CachesAfter(held)
  BY <1>1, <1>3, CachesKept
<1>5. ObjectsRight(maps', held, objects') /\ PoolRight' /\ HistoryRight'
  BY <1>1 DEF Sound, ObjectsRight, PoolRight, HistoryRight, Live, Pooled
<1> QED BY <1>1, <1>2, <1>3, <1>4, <1>5 DEF Lands, After

(* A dropped object is recycled as it is, or freed. *)
LEMMA DropStep ==
  ASSUME Sound, misled = FALSE, NEW o \in Live, Drop(o)
  PROVE  Lands
<1>1. /\ o # literal.object /\ o \in Object /\ objects[o].map # Nobody
      /\ \A i \in DOMAIN pool : pool[i] # o
      /\ written' = [written EXCEPT ![o] = NoProperties] /\ UNCHANGED <<maps, caches, literal, misled>>
  BY DEF Drop, Live, Pooled, Elements
<1>2. /\ objects \in [Object -> JSObject] /\ pool \in Seq(Object) /\ Len(pool) <= PoolSize
      /\ \A i \in DOMAIN pool : objects[pool[i]].map # Nobody
      /\ NoProperties \in [Name -> Value \cup {Undefined}] /\ PoolSize \in Nat
  BY ShapesAssumption DEF Sound, ObjectsRight, PoolRight, NoProperties
<1>3. Tree(maps', held) /\ Grows(maps, held, maps', held) /\ CachesAfter(held)
  BY <1>1, MapsKept, CachesKept
<1>4. CASE Len(pool) < PoolSize /\ pool' = Append(pool, o) /\ UNCHANGED objects
  <2>1. /\ pool' \in Seq(Object) /\ Len(pool') = Len(pool) + 1 /\ Len(pool) \in Nat
        /\ pool'[Len(pool) + 1] = o /\ \A i \in DOMAIN pool : i \in DOMAIN pool' /\ pool'[i] = pool[i]
        /\ \A i \in DOMAIN pool' : i \in DOMAIN pool \/ i = Len(pool) + 1
    BY <1>1, <1>2, <1>4
  <2>2. PoolRight'
    BY <1>1, <1>2, <1>4, <2>1 DEF PoolRight
  <2>3. o \notin Live' /\ \A p \in Live' : p \in Live
    <3>1. Len(pool) + 1 \in DOMAIN pool'
      BY <2>1
    <3> QED BY <1>4, <2>1, <3>1 DEF Live, Pooled, Elements
  <2>4. objects' = [objects EXCEPT ![o] = objects[o]] /\ Fits(maps', held, objects[o])
    BY <1>1, <1>2, <1>4 DEF Sound, ObjectsRight
  <2>5. ObjectsRight(maps', held, objects') /\ HistoryRight'
    BY <1>1, <1>2, <1>3, <2>3, <2>4, ObjectReplaced DEF Replaced
  <2>6. LiteralRight'
    BY <1>1, <1>4, OthersKept
  <2> QED BY <1>1, <1>3, <2>2, <2>5, <2>6 DEF Lands, After
<1>5. CASE objects' = [objects EXCEPT ![o] = Blank] /\ UNCHANGED pool
  <2>1. Blank.map = Nobody /\ Blank \in JSObject
    BY <1>2 DEF Blank, JSObject
  <2>2. \A p \in Object : objects'[p] = IF p = o THEN Blank ELSE objects[p]
    BY <1>2, <1>5
  <2>3. Fits(maps', held, Blank)
    BY <2>1 DEF Fits
  <2>4. o \notin Live' /\ \A p \in Live' : p \in Live
    BY <1>1, <1>5, <2>1, <2>2 DEF Live, Pooled
  <2>5. ObjectsRight(maps', held, objects') /\ HistoryRight'
    BY <1>1, <1>2, <1>3, <1>5, <2>3, <2>4, ObjectReplaced DEF Replaced
  <2>6. PoolRight'
    <3>1. \A i \in DOMAIN pool : pool[i] \in Object
      BY <1>2
    <3> QED BY <1>1, <1>2, <1>5, <2>2, <3>1 DEF PoolRight
  <2>7. LiteralRight'
    BY <1>1, <2>2 DEF Sound, LiteralRight
  <2> QED BY <1>1, <1>3, <2>5, <2>6, <2>7 DEF Lands, After
<1> QED BY <1>4, <1>5 DEF Drop

-----------------------------------------------------------------------------
(* Literals and prototypes *)

(* A literal that finds all its transitions finds its names in order. *)
LEMMA ResolvedMap ==
  ASSUME Tree(maps, held)
  PROVE  /\ Resolved \in held \cup {Nobody}
         /\ Resolved # Nobody =>
              /\ Len(maps[Resolved].descriptors) = Scanned
              /\ \A i \in 1..Scanned : maps[Resolved].descriptors[i] = i
<1> DEFINE D == held \cup {Nobody}
           Go(x, k) == IF x = Nobody THEN Nobody ELSE Target(x, k)
           step == [k \in 1..Scanned |-> [x \in D |-> Go(x, k)]]
           Walk(f) == f = [k \in 0..Scanned |-> IF k = 0 THEN RootMap ELSE Go(f[k - 1], k)]
           end == CHOOSE f : Walk(f)
           Right(k) == /\ end[k] \in D
                       /\ end[k] # Nobody =>
                            /\ Len(maps[end[k]].descriptors) = k
                            /\ \A i \in 1..k : maps[end[k]].descriptors[i] = i
<1>1. /\ Scanned \in Nat /\ 1..Scanned \subseteq Name
      /\ RootMap \in held /\ maps[RootMap].descriptors = <<>>
      /\ \A a \in held : a # Nobody
  <2>1. Scanned \in Nat /\ 1..Scanned \subseteq Name
    BY ShapesAssumption DEF Name
  <2> QED BY <2>1, MapParts, Constants DEF Tree
<1>2. ASSUME NEW x \in held, NEW k \in Name, Target(x, k) # Nobody
      PROVE  /\ Target(x, k) \in held
             /\ maps[Target(x, k)].descriptors = Append(maps[x].descriptors, k)
  BY <1>2, MapParts DEF GoodMap, Target
<1>3. \A k \in 1..Scanned, x \in D : Go(x, k) \in D
  BY <1>1, <1>2
<1>4. \E f : Walk(f)
  <2>1. step \in [1..Scanned -> [D -> D]]
    BY <1>3
  <2>2. RootMap \in D
    BY <1>1
  <2> HIDE DEF D, step
  <2>3. PICK f : Iterated(f, Scanned, D, RootMap, step)
    <3>1. Scanned \in Nat
      BY <1>1
    <3> QED BY <2>1, <2>2, <3>1, Iterates
  <2>4. ASSUME NEW k \in 1..Scanned PROVE f[k] = Go(f[k - 1], k)
    <3>1. f[k - 1] \in D
      BY <1>1, <2>3 DEF Iterated
    <3>2. step[k][f[k - 1]] = Go(f[k - 1], k)
      <4> HIDE DEF Go
      <4> QED BY <3>1 DEF step
    <3> QED BY <2>3, <3>2 DEF Iterated
  <2>5. Walk(f)
    <3> HIDE DEF Go
    <3>1. \A k \in 0..Scanned : f[k] = IF k = 0 THEN RootMap ELSE Go(f[k - 1], k)
      BY <1>1, <2>3, <2>4 DEF Iterated
    <3> QED BY <2>3, <3>1 DEF Iterated
  <2> HIDE DEF Walk
  <2> QED BY <2>5
<1>5. Walk(end)
  <2> HIDE DEF Walk
  <2> QED BY <1>4
<1>6. Resolved = end[Scanned]
  BY DEF Resolved
<1>7. end[0] = RootMap /\ \A k \in 1..Scanned : end[k] = Go(end[k - 1], k)
  <2> HIDE DEF end, Go
  <2> QED BY <1>1, <1>5
<1> HIDE DEF end, Walk
<1>8. Right(0)
  BY <1>1, <1>7
<1>9. ASSUME NEW k \in 1..Scanned, Right(k - 1) PROVE Right(k)
  <2>1. CASE end[k - 1] = Nobody
    BY <1>7, <2>1
  <2>2. CASE end[k - 1] # Nobody
    <3> DEFINE x == end[k - 1]
               d == maps[x].descriptors
    <3>1. x \in held /\ Len(d) = k - 1 /\ \A i \in 1..k - 1 : d[i] = i
      BY <1>9, <2>2
    <3>2. d \in Seq(Name) /\ k \in Name
      BY <1>1, <3>1, MapParts
    <3>3. end[k] = Target(x, k)
      BY <1>7, <2>2
    <3>4. CASE end[k] # Nobody
      <4>1. end[k] \in held /\ maps[end[k]].descriptors = Append(d, k)
        BY <1>2, <3>1, <3>2, <3>3, <3>4
      <4>2. Len(Append(d, k)) = k /\ \A i \in 1..k : Append(d, k)[i] = i
        <5> HIDE DEF d
        <5> QED BY <1>1, <3>1, <3>2
      <4> QED BY <4>1, <4>2
    <3> QED BY <3>4
  <2> QED BY <2>1, <2>2
<1>10. Right(Scanned)
  <2> DEFINE S == {k \in 0..Scanned : Right(k)}
  <2> HIDE DEF Right
  <2>1. 0 \in S /\ \A k \in 1..Scanned : k - 1 \in S => k \in S
    BY <1>1, <1>8, <1>9
  <2> HIDE DEF S
  <2>2. Scanned \in S
    <3>1. Scanned \in Nat /\ Scanned \in 0..Scanned
      BY <1>1
    <3>2. \A k \in 0..Scanned : k \in S
      BY <2>1, <3>1, Induction
    <3> QED BY <3>1, <3>2
  <2> QED BY <2>2 DEF S
<1> QED BY <1>6, <1>10

(* An object with an undefined slot for each field. *)
LEMMA SizedFits ==
  ASSUME Sound, NEW m \in held
  PROVE  /\ Fits(maps, held, Sized(m)) /\ Sized(m).map # Nobody
         /\ \A n \in Name : Shows(maps, Sized(m), n) = Undefined
<1> DEFINE d == maps[m].descriptors
           slots == [i \in 1..Len(d) |-> Undefined]
           empty == [map |-> m, properties |-> <<>>, dictionary |-> NoProperties]
           y == [empty EXCEPT !.properties = slots]
<1>1. m \in Address /\ m # Nobody /\ d \in Seq(Name) /\ DOMAIN d = 1..Len(d) /\ Len(d) \in Nat
  BY MapParts, Constants DEF Sound
<1>2. Sized(m) = y
  <2>1. Fresh(NewObject, m) = empty
    BY DEF Fresh, Blank
  <2> HIDE DEF empty
  <2> QED BY <2>1 DEF Sized
<1>3. slots \in Seq(Value \cup {Undefined}) /\ Len(slots) = Len(d) /\ \A i \in 1..Len(d) : slots[i] = Undefined
  <2> HIDE DEF d
  <2> QED BY <1>1
<1>4. y \in JSObject /\ y.map = m /\ y.properties = slots /\ y.dictionary = NoProperties
  <2>1. NoProperties \in [Name -> Value \cup {Undefined}]
    BY DEF NoProperties
  <2> HIDE DEF slots
  <2> QED BY <1>1, <1>3, <2>1 DEF JSObject
<1> HIDE DEF y, slots
<1>5. Fits(maps, held, y)
  BY <1>3, <1>4 DEF Fits
<1>6. ASSUME NEW n \in Name PROVE Shows(maps, y, n) = Undefined
  <2>1. HasField(maps[m], n) => FieldOf(maps[m], n) \in DOMAIN d
    BY Fields DEF Sound
  <2>2. NoProperties[n] = Undefined
    BY DEF NoProperties
  <2> QED BY <1>1, <1>3, <1>4, <2>1, <2>2 DEF Shows
<1> QED BY <1>1, <1>2, <1>4, <1>5, <1>6

LEMMA BeginLiteralStep ==
  ASSUME Sound, misled = FALSE, BeginLiteral
  PROVE  Lands
<1> DEFINE o == NewObject
<1>1. /\ CanMake /\ literal' = [object |-> o, next |-> 1]
      /\ UNCHANGED <<maps, methodCache, transitionCache, misled>>
  BY DEF BeginLiteral
<1>2. Tree(maps, held) /\ Tree(maps', held) /\ Grows(maps, held, maps', held)
  BY <1>1, MapsKept DEF Sound
<1>3. propertyCache \in [Site -> FieldEntry \cup {Nobody}] /\ boilerplate \in held \cup {Nobody}
  BY DEF Sound, CachesRight, FieldsRight
<1>4. ASSUME NEW m \in held, Make(o, Sized(m)) \/ (m = RootMap /\ Make(o, Fresh(o, m)))
      PROVE  ObjectsRight(maps', held, objects') /\ HistoryRight' /\ PoolRight' /\ objects'[o].map # Nobody
  <2>1. CASE Make(o, Sized(m))
    BY <1>1, <1>2, <2>1, SizedFits, ObjectMade
  <2>2. CASE m = RootMap /\ Make(o, Fresh(o, m))
    <3>1. maps[RootMap].descriptors = <<>>
      BY <1>2 DEF Tree
    <3>2. /\ Fits(maps, held, Fresh(o, m)) /\ Fresh(o, m).map # Nobody
          /\ \A n \in Name : Shows(maps, Fresh(o, m), n) = Undefined
      BY <1>2, <2>2, <3>1, FreshFits
    <3> QED BY <1>1, <1>2, <2>2, <3>2, ObjectMade
  <2> QED BY <1>4, <2>1, <2>2
<1>5. \E m \in held :
         /\ Make(o, Sized(m)) \/ (m = RootMap /\ Make(o, Fresh(o, m)))
         /\ FieldsRight(maps', held, Kept, propertyCache') /\ boilerplate' \in held \cup {Nobody}
  <2>1. CASE boilerplate # Nobody
    <3>1. FieldsRight(maps', held, Kept, propertyCache')
      BY <1>2, <2>1, CachesKept DEF BeginLiteral
    <3> QED BY <1>3, <2>1, <3>1 DEF BeginLiteral
  <2>2. CASE boilerplate = Nobody /\ Scanned > 0 /\ Resolved # Nobody
    <3> DEFINE r == Resolved
               entry(s) == IF s[1] = "init" /\ s[2] <= Scanned
                           THEN [map |-> r, field |-> s[2]] ELSE propertyCache[s]
    <3>1. /\ Make(o, Sized(r)) /\ boilerplate' = r
          /\ propertyCache' = [s \in Site |-> entry(s)]
      BY <2>2 DEF BeginLiteral
    <3>2. /\ r \in held /\ r \in Address /\ maps[r].descriptors \in Seq(Name)
          /\ Len(maps[r].descriptors) = Scanned /\ Scanned \in Nat
          /\ \A i \in 1..Scanned : maps[r].descriptors[i] = i
      <4>1. r \in held
        BY <1>2, <2>2, ResolvedMap
      <4>2. Scanned \in Nat
        BY ShapesAssumption
      <4> QED BY <1>2, <2>2, <4>1, <4>2, ResolvedMap, MapParts
    <3>3. ASSUME NEW s \in Site, s[1] = "init", s[2] <= Scanned
          PROVE  s[2] \in 1..Scanned
      <4>1. s[2] \in 1..LiteralSize /\ LiteralSize \in Nat
        BY <3>3, ShapesAssumption DEF Site
      <4> QED BY <3>2, <3>3, <4>1
    <3> HIDE DEF r
    <3>4. ASSUME NEW s \in Site
          PROVE  /\ entry(s) \in FieldEntry \cup {Nobody}
                 /\ \/ entry(s) = propertyCache[s]
                    \/ entry(s).map = r /\ entry(s).field = s[2] /\ s[2] \in 1..Scanned
      <4>1. propertyCache[s] \in FieldEntry \cup {Nobody}
        BY <1>3
      <4>2. CASE s[1] = "init" /\ s[2] <= Scanned
        <5>1. s[2] \in 1..Scanned /\ s[2] \in Nat \ {0}
          BY <3>2, <3>3, <4>2
        <5>2. entry(s) = [map |-> r, field |-> s[2]]
          BY <4>2
        <5> QED BY <3>2, <5>1, <5>2 DEF FieldEntry
      <4>3. CASE ~(s[1] = "init" /\ s[2] <= Scanned)
        BY <4>1, <4>3
      <4> QED BY <4>2, <4>3
    <3> HIDE DEF entry
    <3>5. FieldsRight(maps', held, Kept, propertyCache')
      <4>1. /\ propertyCache' \in [Site -> FieldEntry \cup {Nobody}]
            /\ \A s \in Site : propertyCache'[s] = entry(s)
        BY <3>1, <3>4
      <4>2. \A i \in 1..Scanned : i \in DOMAIN maps[r].descriptors
        BY <3>2
      <4>3. ASSUME NEW s \in Site
            PROVE  propertyCache'[s] = propertyCache[s] \/ FieldRight(maps', held, propertyCache'[s], s[2])
        <5>1. CASE entry(s) = propertyCache[s]
          BY <4>1, <5>1
        <5>2. CASE entry(s).map = r /\ entry(s).field = s[2] /\ s[2] \in 1..Scanned
          BY <1>1, <3>2, <4>1, <4>2, <5>2 DEF FieldRight
        <5> QED BY <3>4, <5>1, <5>2
      <4> QED BY <1>2, <4>1, <4>3, FieldsWritten
    <3> QED BY <3>1, <3>2, <3>5
  <2>3. CASE boilerplate = Nobody /\ ~(Scanned > 0 /\ Resolved # Nobody)
    <3>1. Make(o, Fresh(o, RootMap)) /\ UNCHANGED <<propertyCache, boilerplate>>
      BY <2>3 DEF BeginLiteral
    <3>2. FieldsRight(maps', held, Kept, propertyCache')
      BY <1>2, <3>1, CachesKept
    <3>3. RootMap \in held
      BY <1>2 DEF Tree
    <3> QED BY <1>3, <3>1, <3>2, <3>3
  <2> QED BY <2>1, <2>2, <2>3
<1>6. ObjectsRight(maps', held, objects') /\ HistoryRight' /\ PoolRight' /\ objects'[o].map # Nobody
  BY <1>4, <1>5
<1>7. CachesAfter(held)
  BY <1>1, <1>2, <1>5, CachesKept DEF CachesAfter, CachesRight
<1>8. LiteralRight'
  <2>1. o \in Object /\ o # Nobody /\ 1 \in 1..Names + 1
    BY <1>1, NewObjectType, Constants
  <2> HIDE DEF o
  <2> QED BY <1>1, <1>6, <2>1 DEF LiteralRight
<1> QED BY <1>1, <1>2, <1>6, <1>7, <1>8 DEF Lands, After

(* Another prototype in a map that any number of objects share. *)
LEMMA PrototypeInPlace ==
  ASSUME Sound, misled = FALSE, NEW o \in Live, NEW p \in Object \cup {Nobody},
         maps' = [maps EXCEPT ![objects[o].map].prototype = p],
         UNCHANGED <<objects, pool, caches, literal, written, misled>>
  PROVE  Lands
<1>1. o \in Object /\ objects[o].map # Nobody /\ objects[o].map \in held
  BY LiveMapped, ObjectParts
<1>2. Tree(maps', held) /\ Grows(maps, held, maps', held)
  BY <1>1, PrototypeWritten DEF Sound
<1>3. /\ objects \in [Object -> JSObject] /\ Fits(maps', held, objects[o])
      /\ written \in [Object -> [Name -> Value \cup {Undefined}]]
  BY <1>1, <1>2, GrowthKeeps DEF Sound, ObjectsRight, HistoryRight
<1>4. Live' = Live
  BY DEF Live, Pooled
<1> DEFINE y == objects[o]
           w == written[o]
<1>5. \A n \in Name : Shows(maps', y, n) = w[n]
  BY <1>1, <1>2, GrowthKeeps DEF Sound, HistoryRight
<1>6. /\ objects' = [objects EXCEPT ![o] = y] /\ Fits(maps', held, y)
      /\ written' = [written EXCEPT ![o] = w] /\ w \in [Name -> Value \cup {Undefined}]
  BY <1>1, <1>3
<1>7. ObjectsRight(maps', held, objects') /\ HistoryRight'
  <2> HIDE DEF y, w
  <2>1. \A q \in Live' : q # o => q \in Live
    BY <1>4
  <2>2. Replaced(held, o, y, w)
    BY <1>5, <1>6, <2>1 DEF Replaced
  <2> QED BY <1>1, <1>2, <2>2, ObjectReplaced
<1>8. CachesAfter(held) /\ PoolRight' /\ LiteralRight'
  BY <1>2, CachesKept, OthersKept
<1> QED BY <1>2, <1>7, <1>8 DEF Lands, After

LEMMA SetPrototypeStep ==
  ASSUME Sound, misled = FALSE, NEW o \in Live, NEW p \in Object \cup {Nobody}, SetPrototypeOf(o, p)
  PROVE  Lands
<1>1. CASE ~Shared(o)
  BY <1>1, PrototypeInPlace DEF SetPrototypeOf
<1>2. CASE Shared(o)
  <2> DEFINE x == objects[o]
             m == x.map
             new == [maps[m] EXCEPT !.prototype = p]
  <2>1. /\ o \in Object /\ m # Nobody /\ x \in JSObject /\ Fits(maps, held, x) /\ m \in held
        /\ MapOf(o) = maps[m] /\ Tree(maps, held) /\ objects \in [Object -> JSObject]
        /\ written \in [Object -> [Name -> Value \cup {Undefined}]]
        /\ \A n \in Name : Shows(maps, x, n) = written[o][n]
    BY LiveMapped, ObjectParts DEF Sound, ObjectsRight, HistoryRight
  <2>2. UNCHANGED <<pool, caches, literal, written, misled>>
    BY DEF SetPrototypeOf
  <2>3. PICK a \in Available : maps' = [maps EXCEPT ![a] = new] /\ objects' = [objects EXCEPT ![o].map = a]
    BY <1>2, <2>1 DEF SetPrototypeOf
  <2> DEFINE K == held \cup {a}
             y == [x EXCEPT !.map = a]
  <2>4. /\ new \in Map /\ new.descriptors = maps[m].descriptors /\ new.dictionary = maps[m].dictionary
        /\ new.transitions = maps[m].transitions
    <3>1. maps[m] \in Map
      BY <2>1, MapParts
    <3> DEFINE r == maps[m]
    <3> HIDE DEF r
    <3>2. /\ [r EXCEPT !.prototype = p] \in Map
          /\ [r EXCEPT !.prototype = p].descriptors = r.descriptors
          /\ [r EXCEPT !.prototype = p].dictionary = r.dictionary
          /\ [r EXCEPT !.prototype = p].transitions = r.transitions
      BY <3>1 DEF r, Map
    <3> QED BY <3>2 DEF r
  <2>5. Tree(maps', K) /\ Grows(maps, held, maps', K) /\ maps'[a] = new /\ a \in Address /\ a # Nobody
    <3>1. GoodMap(maps, held, m)
      BY <2>1, MapParts
    <3> HIDE DEF new, m
    <3>2. \A i, j \in DOMAIN new.descriptors : new.descriptors[i] = new.descriptors[j] => i = j
      BY <2>4, <3>1 DEF GoodMap
    <3>3. new.dictionary => new.descriptors = <<>>
      BY <2>4, <3>1 DEF GoodMap
    <3>4. \A n \in Name : new.transitions[n] # Nobody =>
            /\ new.transitions[n] \in held /\ ~maps[new.transitions[n]].dictionary
            /\ maps[new.transitions[n]].descriptors = Append(new.descriptors, n)
      BY <2>4, <3>1 DEF GoodMap
    <3>5. Addable(maps, held, new)
      BY <2>4, <3>2, <3>3, <3>4 DEF Addable
    <3> QED BY <2>3, <3>5, MapMade
  <2>6. objects' = [objects EXCEPT ![o] = y]
    BY <2>1, <2>3
  <2>7. y \in JSObject /\ y.map = a /\ y.properties = x.properties /\ y.dictionary = x.dictionary
    <3> HIDE DEF x
    <3> QED BY <2>1, <2>5 DEF JSObject
  <2>8. Fits(maps', K, y) /\ \A n \in Name : Shows(maps', y, n) = Shows(maps, x, n)
    <3> HIDE DEF y, x, new
    <3>1. Len(x.properties) = Len(maps[m].descriptors)
      BY <2>1 DEF Fits
    <3>2. Fits(maps', K, y)
      BY <2>4, <2>5, <2>7, <3>1 DEF Fits
    <3>3. \A n : HasField(new, n) = HasField(maps[m], n) /\ FieldOf(new, n) = FieldOf(maps[m], n)
      BY <2>4 DEF HasField, FieldOf
    <3> QED BY <2>4, <2>5, <2>7, <3>2, <3>3 DEF Shows
  <2> HIDE DEF y, new, K
  <2>9. \A q \in Object : objects[q].map # Nobody => objects'[q].map # Nobody
    BY <2>1, <2>5, <2>6, <2>7
  <2>10. \A q \in Live' : q # o => q \in Live
    BY <2>1, <2>2, <2>6, <2>9, OthersKept DEF Live, Pooled
  <2>11. ObjectsRight(maps', K, objects') /\ HistoryRight'
    <3> DEFINE w == written[o]
    <3>1. w \in [Name -> Value \cup {Undefined}] /\ written' = [written EXCEPT ![o] = w]
      BY <2>1, <2>2
    <3>2. \A n \in Name : Shows(maps', y, n) = w[n]
      BY <2>1, <2>8
    <3> HIDE DEF w
    <3>3. Replaced(K, o, y, w)
      BY <2>6, <2>8, <2>10, <3>1, <3>2 DEF Replaced
    <3> QED BY <2>1, <2>5, <3>3, ObjectReplaced
  <2>12. CachesAfter(K) /\ PoolRight' /\ LiteralRight'
    BY <2>2, <2>5, <2>9, CachesKept, OthersKept
  <2> QED BY <2>2, <2>5, <2>11, <2>12 DEF Lands, After
<1> QED BY <1>1, <1>2

-----------------------------------------------------------------------------
(* The invariant holds *)

LEMMA InitRight ==
  ASSUME Init
  PROVE  Inv
<1> DEFINE root == NewMap(Nobody, FALSE)
<1>1. /\ root \in Map /\ root.descriptors = <<>> /\ root.dictionary = FALSE
      /\ \A n \in Name : root.transitions[n] = Nobody
  BY DEF NewMap, Map
<1>2. Tree(maps, held)
  <2>1. maps = [a \in Address |-> root] /\ held = {RootMap}
    BY DEF Init
  <2> HIDE DEF root
  <2>2. maps \in [Address -> Map] /\ maps[RootMap] = root /\ held \subseteq Address
    BY <1>1, <2>1, Constants
  <2>3. \A i, j \in DOMAIN root.descriptors : root.descriptors[i] = root.descriptors[j] => i = j
    BY <1>1
  <2>4. GoodMap(maps, held, RootMap)
    BY <1>1, <2>2, <2>3 DEF GoodMap
  <2> QED BY <1>1, <2>1, <2>2, <2>4 DEF Tree
<1>3. Blank \in JSObject /\ Blank.map = Nobody
  BY DEF Blank, JSObject, NoProperties
<1>4. \A o \in Object : objects[o] = Blank
  BY DEF Init
<1>5. ObjectsRight(maps, held, objects)
  <2>1. objects \in [Object -> JSObject]
    BY <1>3 DEF Init
  <2> QED BY <1>3, <1>4, <2>1 DEF ObjectsRight, Fits
<1>6. PoolRight
  <2>1. pool = <<>> /\ PoolSize \in Nat
    BY ShapesAssumption DEF Init
  <2> QED BY <2>1 DEF PoolRight
<1>7. CachesRight(maps, held, dangling, propertyCache, methodCache, transitionCache, boilerplate)
  BY DEF Init, CachesRight, FieldsRight, MethodsRight, TransitionsRight
<1>8. LiteralRight
  BY Constants DEF Init, LiteralRight, NoLiteral
<1>9. HistoryRight
  <2>1. Live = {}
    BY <1>3, <1>4 DEF Live
  <2>2. NoProperties \in [Name -> Value \cup {Undefined}]
    BY DEF NoProperties
  <2>3. written \in [Object -> [Name -> Value \cup {Undefined}]]
    BY <2>2 DEF Init
  <2> QED BY <2>1, <2>3 DEF HistoryRight
<1>10. dangling \subseteq Entry /\ misled = FALSE
  BY DEF Init
<1> QED BY <1>2, <1>5, <1>6, <1>7, <1>8, <1>9, <1>10 DEF Inv, Sound

LEMMA StepRight ==
  ASSUME Sound, misled = FALSE, Step
  PROVE  Lands \/ Strays
<1>1. CASE Create \/ BeginLiteral \/ EndLiteral
  BY <1>1, CreateStep, BeginLiteralStep, EndLiteralStep
<1>2. CASE \E v \in Value : InitLiteral(v)
  BY <1>2, InitLiteralStep
<1>3. ASSUME NEW o \in Live, CreateFrom(o) \/ Drop(o) PROVE Lands
  BY <1>3, CreateFromStep, DropStep
<1>4. ASSUME NEW o \in Live, NEW n \in Loads, Load(n, o) PROVE Lands
  BY <1>4, LoadStep
<1>5. ASSUME NEW o \in Live, NEW n \in Stores, NEW v \in Value, Store(n, o, v) PROVE Lands \/ Strays
  BY <1>5, StoreStep
<1>6. ASSUME NEW o \in Live, NEW n \in Keyed, NEW v \in Value, KeyedStore(n, o, v) PROVE Lands
  BY <1>6, KeyedStoreStep
<1>7. ASSUME NEW o \in Live, NEW n \in Deletes, Delete(n, o) PROVE Lands
  BY <1>7, DeleteStep
<1>8. ASSUME NEW o \in Live, NEW p \in (Live \ {o}) \cup {Nobody}, SetPrototypeOf(o, p) \/ AssignProto(o, p)
      PROVE  Lands
  <2>1. p \in Object \cup {Nobody}
    BY LiveMapped
  <2>2. CASE SetPrototypeOf(o, p)
    BY <2>1, <2>2, SetPrototypeStep
  <2>3. CASE AssignProto(o, p)
    BY <2>1, <2>3, PrototypeInPlace DEF AssignProto
  <2> QED BY <1>8, <2>2, <2>3
<1> QED BY <1>1, <1>2, <1>3, <1>4, <1>5, <1>6, <1>7, <1>8 DEF Step

LEMMA NextRight ==
  ASSUME Inv, [Next]_vars
  PROVE  Inv'
<1>1. CASE Next
  <2>1. Sound /\ misled = FALSE /\ Step /\ Release /\ Dangle
    BY <1>1 DEF Next, Inv
  <2>2. CASE Lands
    <3>1. PICK K : After(K)
      BY <2>2 DEF Lands
    <3>2. Sound'
      BY <2>1, <3>1, Settled
    <3> QED BY <2>2, <3>2 DEF Lands, Inv
  <2>3. CASE Strays
    <3>1. held' \subseteq Address
      BY <2>1 DEF Release, Referenced
    <3>2. dangling' \subseteq Entry
      BY <2>1 DEF Dangle
    <3>3. TypeOK'
      BY <2>3, <3>1, <3>2 DEF Strays, TypeOK
    <3> QED BY <2>3, <3>3 DEF Strays, Inv
  <2> QED BY <2>1, <2>2, <2>3, StepRight
<1>2. CASE UNCHANGED vars
  <2>1. Sound' <=> Sound
    BY <1>2 DEF Sound, PoolRight, LiteralRight, HistoryRight, Live, Pooled, vars, caches
  <2>2. TypeOK' <=> TypeOK
    BY <1>2 DEF TypeOK, Target, MapOf, Live, Pooled, vars, caches
  <2> QED BY <1>2, <2>1, <2>2 DEF Inv, vars
<1> QED BY <1>1, <1>2

(* Of the transition tree, the objects and the caches, for any number of   *)
(* names, objects, addresses and instructions: until a store is misled,    *)
(* every entry that does not dangle says what is so of its map.            *)
THEOREM ShapesInvariance == Spec => []Inv
<1>1. Init => Inv
  BY InitRight
<1>2. Inv /\ [Next]_vars => Inv'
  BY NextRight
<1> QED BY <1>1, <1>2, PTL DEF Spec

(* Every variable keeps its type, and until a store is misled a transition *)
(* leads to a map that is held and has one name more, and an object has a  *)
(* slot for each field of its map.                                         *)
THEOREM ShapesTypeCorrect == Spec => []TypeOK
<1>1. Inv => TypeOK
  <2> SUFFICES ASSUME Sound, misled \in BOOLEAN PROVE TypeOK
    BY DEF Inv
  <2>1. maps \in [Address -> Map] /\ held \subseteq Address /\ Tree(maps, held)
    BY DEF Sound, Tree
  <2>2. ASSUME NEW m \in held, NEW n \in Name, Target(m, n) # Nobody
        PROVE  /\ Target(m, n) \in held
               /\ maps[Target(m, n)].descriptors = Append(maps[m].descriptors, n)
    BY <2>1, <2>2 DEF Tree, GoodMap, Target
  <2>3. objects \in [Object -> JSObject] /\ \A o \in Live : Len(objects[o].properties) = Len(MapOf(o).descriptors)
    BY LiveMapped, ObjectParts DEF Sound, ObjectsRight
  <2>4. boilerplate \in Address \cup {Nobody}
    BY <2>1 DEF Sound, CachesRight
  <2> QED BY <2>1, <2>2, <2>3, <2>4
          DEF TypeOK, Sound, PoolRight, CachesRight, FieldsRight, MethodsRight, TransitionsRight,
              LiteralRight, HistoryRight
<1> QED BY <1>1, ShapesInvariance, PTL

(* Stores, deletions, literals and recycling leave every object with       *)
(* exactly the properties it was given, wherever its maps are, until a     *)
(* store goes through an entry whose map was freed.                        *)
THEOREM StoresLandCorrect == Spec => []StoresLand
<1>1. Inv => StoresLand
  BY LiveMapped, ObjectParts DEF Inv, Sound, HistoryRight, StoresLand
<1> QED BY <1>1, ShapesInvariance, PTL

(* The walk up the prototypes starts at the object itself. *)
LEMMA ChainStarts ==
  ASSUME NEW o
  PROVE  Chain(o)[0] = o
<1> DEFINE Up(x) == IF x = Nobody THEN Nobody ELSE PrototypeOf(x)
           Walk(f, n) == f = [k \in 0..n |-> IF k = 0 THEN o ELSE Up(f[k - 1])]
           up == CHOOSE f : Walk(f, MaxObjects)
           S == {n \in 0..MaxObjects : \E f : Walk(f, n)}
<1>0. MaxObjects \in Nat
  BY Constants
<1>1. 0 \in S
  <2> DEFINE f == [k \in 0..0 |-> o]
  <2>1. f = [k \in 0..0 |-> IF k = 0 THEN o ELSE Up(f[k - 1])]
    BY SMT
  <2>2. Walk(f, 0)
    BY <2>1
  <2> HIDE DEF Walk
  <2> QED BY <1>0, <2>2
<1>2. ASSUME NEW n \in 1..MaxObjects, n - 1 \in S PROVE n \in S
  <2>1. PICK f : Walk(f, n - 1)
    BY <1>2
  <2> DEFINE g == [k \in 0..n |-> IF k = n THEN Up(f[n - 1]) ELSE f[k]]
  <2> HIDE DEF Up
  <2>2. ASSUME NEW k \in 0..n PROVE g[k] = IF k = 0 THEN o ELSE Up(g[k - 1])
    <3>1. CASE k = n
      BY <3>1
    <3>2. CASE k # n
      <4>1. k \in 0..n - 1
        BY <3>2
      <4>2. f[k] = IF k = 0 THEN o ELSE Up(f[k - 1])
        BY <2>1, <4>1
      <4>3. g[k] = f[k] /\ k # 0 => g[k - 1] = f[k - 1]
        BY <3>2, <4>1
      <4>4. g[k] = f[k]
        BY <3>2
      <4> QED BY <4>2, <4>3, <4>4
    <3> QED BY <3>1, <3>2
  <2>3. g = [k \in 0..n |-> g[k]]
    OBVIOUS
  <2>4. Walk(g, n)
    <3> HIDE DEF g
    <3> QED BY <2>2, <2>3
  <2> HIDE DEF Walk
  <2> QED BY <2>4
<1>3. Walk(up, MaxObjects)
  <2> HIDE DEF S
  <2>1. \A k \in 0..MaxObjects : k \in S
    BY <1>0, <1>1, <1>2, Induction
  <2>2. MaxObjects \in S
    BY <1>0, <2>1
  <2> HIDE DEF Walk
  <2> QED BY <2>2 DEF S
<1>4. Chain(o) = up
  BY DEF Chain
<1>5. up[0] = o
  <2> HIDE DEF up, Up
  <2> QED BY <1>0, <1>3
<1> QED BY <1>4, <1>5

(* Whatever its caches saw before, a load of a name the object has gives   *)
(* the value last stored in that object under that name, unless the map of *)
(* the very entry it hits was freed since the entry was written, or a      *)
(* store has gone through such an entry before.                            *)
THEOREM OwnLoadsCorrect == Spec => []OwnLoadsRight
<1>1. Inv => OwnLoadsRight
  <2> SUFFICES ASSUME Sound, NEW o \in Live, NEW n \in Loads, written[o][n] # Undefined, ~Misread(n, o)
               PROVE  Loaded(n, o) = written[o][n]
    BY DEF OwnLoadsRight, Inv
  <2> DEFINE s == LoadSite(n)
             x == objects[o]
             m == x.map
  <2>1. /\ s \in Site /\ s[2] = n /\ n \in Name
        /\ o \in Object /\ m \in held /\ MapOf(o) = maps[m] /\ Tree(maps, held) /\ GoodMap(maps, held, m)
        /\ Own(o, n) = Shows(maps, x, n) /\ Shows(maps, x, n) = written[o][n]
    BY Sites, LiveMapped, ObjectParts DEF Sound, HistoryRight
  <2>2. CASE FieldHit(s, o)
    <3> DEFINE i == propertyCache[s].field
    <3>1. /\ i \in DOMAIN maps[m].descriptors /\ maps[m].descriptors[i] = n
          /\ i \in DOMAIN x.properties
      <4>1. propertyCache[s] # Nobody /\ propertyCache[s].map = m /\ i \in DOMAIN x.properties
        BY <2>2 DEF FieldHit, Matches
      <4>2. <<"field", s>> \notin dangling
        BY <2>2 DEF Misread
      <4>3. FieldRight(maps, held, propertyCache[s], s[2])
        BY <2>1, <4>1, <4>2 DEF Sound, CachesRight, FieldsRight
      <4> QED BY <2>1, <4>1, <4>3 DEF FieldRight
    <3>2. HasField(maps[m], n) /\ FieldOf(maps[m], n) = i
      BY <2>1, <3>1, Fields
    <3>3. ~maps[m].dictionary
      <4>1. maps[m].descriptors # <<>>
        <5> HIDE DEF i, m
        <5> QED BY <3>1
      <4> QED BY <2>1, <4>1 DEF GoodMap
    <3>4. Shows(maps, x, n) = x.properties[i]
      BY <3>2, <3>3 DEF Shows
    <3>5. Loaded(n, o) = x.properties[i]
      BY <2>2, <3>1 DEF Loaded, SlotValue
    <3> QED BY <2>1, <3>4, <3>5
  <2>3. CASE ~FieldHit(s, o) /\ MethodHit(s, o)
    <3>1. methodCache[s] # Nobody /\ methodCache[s].map = m
      BY <2>3 DEF MethodHit, Matches
    <3>2. <<"method", s>> \notin dangling
      BY <2>3 DEF Misread
    <3>3. ~maps[m].dictionary /\ ~HasField(maps[m], n)
      BY <2>1, <3>1, <3>2 DEF Sound, CachesRight, MethodsRight, MethodRight
    <3>4. Shows(maps, x, n) = Undefined
      BY <3>3 DEF Shows
    <3> QED BY <2>1, <3>4
  <2>4. CASE ~FieldHit(s, o) /\ ~MethodHit(s, o)
    <3>1. Loaded(n, o) = Lookup(o, n)
      BY <2>4 DEF Loaded
    <3> DEFINE holders == {k \in 0..MaxObjects : Chain(o)[k] # Nobody /\ Own(Chain(o)[k], n) # Undefined}
               first == CHOOSE k \in holders : \A j \in holders : k <= j
    <3>2. 0 \in holders
      BY <2>1, ChainStarts, Constants
    <3>3. \A k \in holders : k \in Nat
      BY Constants
    <3> HIDE DEF holders
    <3>4. \A j \in holders : 0 <= j
      BY <3>3
    <3>5. first \in holders /\ \A j \in holders : first <= j
      BY <3>2, <3>4
    <3>6. first = 0
      <4> HIDE DEF first
      <4> QED BY <3>2, <3>3, <3>5
    <3>7. Lookup(o, n) = Own(Chain(o)[first], n)
      BY <3>2 DEF Lookup, holders
    <3> QED BY <2>1, <3>1, <3>6, <3>7, ChainStarts
  <2> QED BY <2>2, <2>3, <2>4
<1> QED BY <1>1, ShapesInvariance, PTL

=============================================================================
