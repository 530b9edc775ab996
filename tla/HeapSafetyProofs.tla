-------------------------- MODULE HeapSafetyProofs --------------------------
(***************************************************************************)
(* No object a client can name through a global root or through the        *)
(* references of a nursery object is ever lost, moved without its name, or *)
(* freed: for every size of the heap and every interleaving of the clients *)
(* with both collectors.                                                   *)
(***************************************************************************)
EXTENDS HeapProofs

(* The id leads to an object of these spaces, and to which. *)
Lies(semi, space, id) ==
  /\ id.space = "New" => id.generation = semi.generation
  /\ InSlotOf(semi, space, id)
What(semi, space, id) ==
  (IF id.space = "New" THEN semi.slots[id.index] ELSE space.slots[id.index]).payload
Leads(semi, space, ids, payloads) ==
  /\ \A id \in ids : Lies(semi, space, id)
  /\ {What(semi, space, id) : id \in ids} = payloads

(* Part of the old space, or all of the heap, may already be swept. *)
Sweeping == (pc = "mark" /\ cursor > 1) \/ pc \in {"join", "sweepNew"}

(* The global roots lead to the objects rooted, in ToSpace once updated. *)
RootsFollow ==
  Leads(IF pc \in {"oldReferences", "flip"} THEN to ELSE from, old, globalRoots, rooted)

(* The references of FromSpace, of what a sweep spares, lead where they should. *)
EdgesFollow ==
  \A i : Occupied(from.slots, i) /\ (Sweeping => from.slots[i].color # "White") =>
    Leads(from, old, from.slots[i].refs, edges[from.slots[i].payload])

(* A copy refers to FromSpace before its scan, to ToSpace after it, and    *)
(* while it is scanned in part to each.                                    *)
CopyId(j) == [space |-> "New", index |-> j, generation |-> to.generation]
HalfScanned(payloads) ==
  /\ \A r \in todo : Lies(from, old, r)
  /\ \A r \in updated : Lies(to, old, r)
  /\ {What(from, old, r) : r \in todo} \cup {What(to, old, r) : r \in updated} = payloads
CopiesFollow ==
  Scavenging => \A j : Occupied(to.slots, j) =>
    /\ CopyId(j) \in Elements(worklist) =>
         Leads(from, old, to.slots[j].refs, edges[to.slots[j].payload])
    /\ CopyId(j) = current => HalfScanned(edges[to.slots[j].payload])
    /\ CopyId(j) \notin Waiting =>
         Leads(to, old, to.slots[j].refs, edges[to.slots[j].payload])

(* The forwarding map leads from each object evacuated to its copy. *)
MapFollows ==
  \A x \in DOMAIN forwarding :
    /\ x.space = "New" /\ Lies(from, old, x) /\ Lies(to, old, forwarding[x])
    /\ What(to, old, forwarding[x]) = What(from, old, x)

(* Each copy waits for its scan once, and none is left after the scan. *)
ScanOnce ==
  /\ pc \in {"evacuate", "scan"} =>
       /\ \A id \in Waiting : Lies(to, old, id)
       /\ \A i, j \in 1..Len(worklist) : worklist[i] = worklist[j] => i = j
       /\ current \notin Elements(worklist)
  /\ pc \in {"handles", "oldReferences", "flip"} => Waiting = {}
  /\ ~Scavenging => DOMAIN forwarding = {}

RootsMoved ==
  /\ pc = "evacuate" =>
       \A r \in globalRoots : r.space = "New" => r \in todo \cup DOMAIN forwarding
  /\ pc \in {"scan", "handles"} =>
       \A r \in globalRoots : r.space = "New" => r \in DOMAIN forwarding

(* No two slots hold the same object, but those of an object and its copy. *)
Distinct(slots) ==
  \A i, j : Occupied(slots, i) /\ Occupied(slots, j) /\ slots[i].payload = slots[j].payload => i = j
Absent(slots, p) == \A i : Occupied(slots, i) => slots[i].payload # p
Numbered(slots) == \A i : Occupied(slots, i) => slots[i].payload \in 1..allocated
OneEach ==
  /\ Distinct(from.slots) /\ Distinct(to.slots) /\ Distinct(old.slots)
  /\ \A j : Occupied(to.slots, j) => Absent(old.slots, to.slots[j].payload)
  /\ \A i : Occupied(from.slots, i) /\ NurseryId(i) \notin DOMAIN forwarding =>
       Absent(to.slots, from.slots[i].payload) /\ Absent(old.slots, from.slots[i].payload)
  /\ Numbered(from.slots) /\ Numbered(to.slots) /\ Numbered(old.slots)

EdgesKnown ==
  /\ edges \in [Payloads -> SUBSET Payloads]
  /\ \A p \in Payloads : p > allocated => edges[p] = {}

(* A sweep spares what the roots, and the objects it spares, refer to. *)
Spared(id) ==
  /\ Lies(from, old, id)
  /\ id.space = "New" => from.slots[id.index].color # "White"
  /\ id.space = "Old" /\ Marking /\ id.index >= cursor => old.slots[id.index].color # "White"
  /\ id.space = "Old" /\ pc = "join" => old.slots[id.index].color # "White"
SweepSpares ==
  /\ Sweeping =>
       /\ \A id \in globalRoots : Spared(id)
       /\ \A i : Occupied(from.slots, i) /\ from.slots[i].color # "White" =>
            \A r \in from.slots[i].refs : Spared(r)
       /\ pc = "mark" => MarkDone
  /\ pc = "join" => \A i \in dead : i >= cursor => old.slots[i].color = "White"
  /\ pc = "markConcurrent" => cursor = 1

(* Clients find the objects they rooted, and nursery objects theirs, only  *)
(* because every step of a collection in progress keeps its promise: what  *)
(* is rooted, copied, half scanned, forwarded or spared leads where it led *)
(* before, each copy is scanned once, and no object lies in two slots.     *)
Follow ==
  /\ RootsFollow /\ EdgesFollow /\ CopiesFollow /\ MapFollows /\ ScanOnce /\ RootsMoved
  /\ OneEach /\ EdgesKnown /\ SweepSpares

Base == Inv /\ Room /\ Tricolor

-----------------------------------------------------------------------------
(* Slots that stay, and slots that are added *)

(* Every object of s lies in the same slot of t. *)
Stays(s, t) == \A i : Occupied(s, i) => Occupied(t, i) /\ t[i].payload = s[i].payload

(* t is s with an object in the slot k, which was empty. *)
Added(s, t, k, object) ==
  /\ ~Occupied(s, k)
  /\ \A i : Occupied(t, i) <=> i = k \/ Occupied(s, i)
  /\ \A i : Occupied(s, i) => t[i] = s[i]
  /\ t[k] = object

LEMMA StaysSame == ASSUME NEW s PROVE Stays(s, s)
  BY DEF Stays

LEMMA AddedStays ==
  ASSUME NEW s, NEW t, NEW k, NEW object, Added(s, t, k, object)
  PROVE  Stays(s, t) /\ Occupied(t, k)
  BY DEF Added, Stays

LEMMA LeadsStays ==
  ASSUME NEW semi, NEW space, NEW semi2, NEW space2, semi2.generation = semi.generation,
         Stays(semi.slots, semi2.slots), Stays(space.slots, space2.slots),
         NEW ids, NEW payloads, Leads(semi, space, ids, payloads)
  PROVE  Leads(semi2, space2, ids, payloads)
<1>1. \A id : Lies(semi, space, id) =>
        Lies(semi2, space2, id) /\ What(semi2, space2, id) = What(semi, space, id)
  BY DEF Stays, Lies, InSlotOf, What
<1>2. \A id \in ids : Lies(semi2, space2, id) /\ What(semi2, space2, id) = What(semi, space, id)
  BY <1>1 DEF Leads
<1> QED BY <1>2 DEF Leads

LEMMA LiesStays ==
  ASSUME NEW semi, NEW space, NEW semi2, NEW space2, semi2.generation = semi.generation,
         Stays(semi.slots, semi2.slots), Stays(space.slots, space2.slots)
  PROVE  \A id : Lies(semi, space, id) =>
           Lies(semi2, space2, id) /\ What(semi2, space2, id) = What(semi, space, id)
  BY DEF Stays, Lies, InSlotOf, What

LEMMA LeadsNone == ASSUME NEW semi, NEW space PROVE Leads(semi, space, {}, {})
  BY DEF Leads

LEMMA LeadsAdd ==
  ASSUME NEW semi, NEW space, NEW ids, NEW payloads, Leads(semi, space, ids, payloads),
         NEW x, Lies(semi, space, x)
  PROVE  Leads(semi, space, ids \cup {x}, payloads \cup {What(semi, space, x)})
  BY DEF Leads

LEMMA LeadsDrop ==
  ASSUME NEW semi, NEW space, NEW ids, NEW payloads, Leads(semi, space, ids, payloads),
         NEW x \in ids, \A y \in ids : What(semi, space, y) = What(semi, space, x) => y = x
  PROVE  Leads(semi, space, ids \ {x}, payloads \ {What(semi, space, x)})
  BY DEF Leads

(* Two ids of one object are the same id. *)
LEMMA OneId ==
  ASSUME NEW semi, NEW space, Distinct(semi.slots), Distinct(space.slots),
         \A i : Occupied(semi.slots, i) => Absent(space.slots, semi.slots[i].payload),
         NEW x \in HeapId, NEW y \in HeapId, Lies(semi, space, x), Lies(semi, space, y),
         What(semi, space, x) = What(semi, space, y)
  PROVE  x = y
<1>1. CASE x.space = "New" /\ y.space = "New"
  <2>1. x.index = y.index /\ x.generation = y.generation
    BY <1>1 DEF Lies, InSlotOf, What, Distinct
  <2> QED BY <1>1, <2>1 DEF HeapId
<1>2. CASE x.space = "Old" /\ y.space = "Old"
  <2>1. x.index = y.index
    BY <1>2 DEF Lies, InSlotOf, What, Distinct
  <2> QED BY <1>2, <2>1 DEF HeapId
<1>3. CASE x.space # y.space
  BY <1>3 DEF Lies, InSlotOf, What, Absent, HeapId
<1> QED BY <1>1, <1>2, <1>3 DEF HeapId

(* SemiSpace::place and OldSpace::place take an empty slot and no other. *)
LEMMA SemiAdded ==
  ASSUME NEW semi, SemiSpaceOK(semi), NEW object \in HeapObject
  PROVE  /\ Added(semi.slots, PlaceSemi(semi, object).slots, NextSemiId(semi).index, object)
         /\ PlaceSemi(semi, object).generation = semi.generation
<1>1. semi.slots \in Seq(Slot) /\ Len(semi.slots) \in Nat
  BY DEF SemiSpaceOK
<1>2. PlaceSemi(semi, object) = [slots |-> Append(semi.slots, object), generation |-> semi.generation]
  BY SemiRecord DEF SemiSpaceOK, PlaceSemi
<1>3. object \in Slot /\ object # NoObject
  BY SlotAssumption DEF Slot
<1>4. /\ Len(Append(semi.slots, object)) = Len(semi.slots) + 1
      /\ \A i \in 1..Len(semi.slots) : Append(semi.slots, object)[i] = semi.slots[i]
      /\ Append(semi.slots, object)[Len(semi.slots) + 1] = object
  BY <1>1, <1>3, AppendProperties
<1> QED BY <1>1, <1>2, <1>3, <1>4 DEF Added, Occupied, NextSemiId

LEMMA OldAdded ==
  ASSUME OldType(old), FreeOK(old), NEW object \in HeapObject
  PROVE  /\ Added(old.slots, PlaceOld(object).slots, NextOldIndex, object)
         /\ NextOldId.index = NextOldIndex /\ NextOldId.space = "Old"
<1>1. object \in Slot /\ object # NoObject
  BY SlotAssumption DEF Slot
<1>2. old.slots \in Seq(Slot) /\ old.freeList \in Seq(Index) /\ Len(old.slots) \in Nat
  BY DEF OldType
<1>3. CASE old.freeList = <<>>
  <2>1. PlaceOld(object).slots = Append(old.slots, object) /\ NextOldIndex = Len(old.slots) + 1
    BY <1>3 DEF PlaceOld, OldType, NextOldIndex
  <2>2. /\ Len(Append(old.slots, object)) = Len(old.slots) + 1
        /\ \A i \in 1..Len(old.slots) : Append(old.slots, object)[i] = old.slots[i]
        /\ Append(old.slots, object)[Len(old.slots) + 1] = object
    BY <1>1, <1>2, AppendProperties
  <2> QED BY <1>1, <1>2, <2>1, <2>2 DEF Added, Occupied, NextOldId
<1>4. CASE old.freeList # <<>>
  <2>1. NextOldIndex \in 1..Len(old.slots) /\ old.slots[NextOldIndex] = NoObject
    <3>1. NextOldIndex \in Elements(old.freeList)
      BY <1>2, <1>4, EmptySeq, ElementsAt DEF NextOldIndex
    <3>2. DOMAIN old.slots = 1..Len(old.slots)
      BY <1>2
    <3> QED BY <3>1, <3>2 DEF FreeOK
  <2>2. PlaceOld(object).slots = [old.slots EXCEPT ![NextOldIndex] = object]
    BY <1>4 DEF PlaceOld
  <2> DEFINE s == [old.slots EXCEPT ![NextOldIndex] = object]
  <2>3. /\ Len(s) = Len(old.slots)
        /\ \A i \in 1..Len(old.slots) : s[i] = IF i = NextOldIndex THEN object ELSE old.slots[i]
    BY <1>1, <1>2, <2>1, SetSlot
  <2> HIDE DEF s
  <2>4. Added(old.slots, s, NextOldIndex, object)
    BY <1>1, <2>1, <2>3 DEF Added, Occupied
  <2> QED BY <2>2, <2>4 DEF NextOldId, s
<1> QED BY <1>3, <1>4

-----------------------------------------------------------------------------
(* One slot for each object *)

LEMMA DistinctAdded ==
  ASSUME NEW s, NEW t, NEW k, NEW object, Added(s, t, k, object), Distinct(s),
         Absent(s, object.payload)
  PROVE  Distinct(t)
  BY DEF Added, Distinct, Absent

LEMMA AbsentAdded ==
  ASSUME NEW s, NEW t, NEW k, NEW object, Added(s, t, k, object), NEW p, Absent(s, p),
         object.payload # p
  PROVE  Absent(t, p)
  BY DEF Added, Absent

LEMMA FewerSlots ==
  ASSUME NEW s, NEW t, Stays(t, s)
  PROVE  /\ Distinct(s) => Distinct(t)
         /\ \A p : Absent(s, p) => Absent(t, p)
  BY DEF Stays, Distinct, Absent

(* Painting, relinking and freeing objects adds none. *)
LEMMA FewerOneEach ==
  ASSUME OneEach, Stays(from'.slots, from.slots), Stays(to'.slots, to.slots),
         Stays(old'.slots, old.slots), from'.generation = from.generation,
         UNCHANGED <<forwarding, allocated>>
  PROVE  OneEach'
<1>1. Distinct(from'.slots) /\ Distinct(to'.slots) /\ Distinct(old'.slots)
  BY FewerSlots DEF OneEach
<1>2. /\ \A p : Absent(to.slots, p) => Absent(to'.slots, p)
      /\ \A p : Absent(old.slots, p) => Absent(old'.slots, p)
  BY FewerSlots
<1>2a. \A j : Occupied(to'.slots, j) => Absent(old'.slots, to'.slots[j].payload)
  <2> SUFFICES ASSUME NEW j, Occupied(to'.slots, j) PROVE Absent(old'.slots, to'.slots[j].payload)
    OBVIOUS
  <2>1. Occupied(to.slots, j) /\ to.slots[j].payload = to'.slots[j].payload
    BY DEF Stays
  <2>2. Absent(old.slots, to.slots[j].payload)
    BY <2>1 DEF OneEach
  <2> QED BY <1>2, <2>1, <2>2
<1>3. \A i : Occupied(from'.slots, i) /\ NurseryId(i)' \notin DOMAIN forwarding' =>
        Absent(to'.slots, from'.slots[i].payload) /\ Absent(old'.slots, from'.slots[i].payload)
  <2> SUFFICES ASSUME NEW i, Occupied(from'.slots, i), NurseryId(i)' \notin DOMAIN forwarding'
               PROVE  /\ Absent(to'.slots, from'.slots[i].payload)
                      /\ Absent(old'.slots, from'.slots[i].payload)
    OBVIOUS
  <2>1. Occupied(from.slots, i) /\ from.slots[i].payload = from'.slots[i].payload
    BY DEF Stays
  <2>2. NurseryId(i) \notin DOMAIN forwarding
    BY DEF NurseryId
  <2>3. Absent(to.slots, from.slots[i].payload) /\ Absent(old.slots, from.slots[i].payload)
    BY <2>1, <2>2 DEF OneEach
  <2> QED BY <1>2, <2>1, <2>3
<1>4. Numbered(from.slots)' /\ Numbered(to.slots)' /\ Numbered(old.slots)'
  BY DEF OneEach, Numbered, Stays
<1> QED BY <1>1, <1>2a, <1>3, <1>4 DEF OneEach

(* A new object is in no other slot. *)
LEMMA NewOneEach ==
  ASSUME Base, OneEach, ~Scavenging, DOMAIN forwarding = {}, UNCHANGED <<to, forwarding>>,
         allocated' = allocated + 1, NEW k, NEW object, object.payload = allocated',
         \/ Added(from.slots, from'.slots, k, object) /\ UNCHANGED old
         \/ Added(old.slots, old'.slots, k, object) /\ UNCHANGED from
  PROVE  OneEach'
<1>1. allocated \in Nat /\ to.slots = <<>>
  BY DEF Base, Inv, TypeOK, Room
<1>2. \A j : ~Occupied(to.slots, j)
  BY <1>1 DEF Occupied
<1>3. Absent(from.slots, object.payload) /\ Absent(old.slots, object.payload)
  BY <1>1 DEF OneEach, Numbered, Absent
<1>4. /\ object.payload \in 1..allocated'
      /\ \A slots : Numbered(slots) => Numbered(slots)'
  BY <1>1 DEF Numbered
<1>5. CASE Added(from.slots, from'.slots, k, object) /\ UNCHANGED old
  <2>1. Distinct(from'.slots) /\ Distinct(to'.slots) /\ Distinct(old'.slots)
    BY <1>3, <1>5, DistinctAdded DEF OneEach
  <2>2. \A i : Occupied(from'.slots, i) => Absent(old'.slots, from'.slots[i].payload)
    BY <1>3, <1>5 DEF OneEach, Added
  <2>3. Numbered(from.slots)' /\ Numbered(to.slots)' /\ Numbered(old.slots)'
    BY <1>4, <1>5 DEF OneEach, Added, Numbered
  <2> QED BY <1>2, <2>1, <2>2, <2>3 DEF OneEach, Absent
<1>6. CASE Added(old.slots, old'.slots, k, object) /\ UNCHANGED from
  <2>1. Distinct(from'.slots) /\ Distinct(to'.slots) /\ Distinct(old'.slots)
    BY <1>3, <1>6, DistinctAdded DEF OneEach
  <2>2. \A i : Occupied(from.slots, i) => Absent(old'.slots, from.slots[i].payload)
    <3> SUFFICES ASSUME NEW i, Occupied(from.slots, i)
                 PROVE  Absent(old'.slots, from.slots[i].payload)
      OBVIOUS
    <3>1. Absent(old.slots, from.slots[i].payload) /\ object.payload # from.slots[i].payload
      BY <1>3 DEF OneEach, Absent
    <3> QED BY <1>6, <3>1, AbsentAdded
  <2>3. Numbered(from.slots)' /\ Numbered(to.slots)' /\ Numbered(old.slots)'
    BY <1>4, <1>6 DEF OneEach, Added, Numbered
  <2> QED BY <1>2, <1>6, <2>1, <2>2, <2>3 DEF OneEach, Absent
<1> QED BY <1>5, <1>6

-----------------------------------------------------------------------------
(* The operations of clients *)

(* Between collections, and until a sweep starts. *)
Calm == ~Scavenging /\ ~Sweeping

LEMMA CalmFollow ==
  ASSUME Calm', pc' # "join", pc' = "markConcurrent" => cursor' = 1, DOMAIN forwarding' = {},
         Leads(from', old', globalRoots', rooted'),
         \A i : Occupied(from'.slots, i) =>
           Leads(from', old', from'.slots[i].refs, edges'[from'.slots[i].payload]),
         OneEach', EdgesKnown'
  PROVE  Follow'
<1>1. RootsFollow' /\ EdgesFollow'
  BY DEF Calm, Scavenging, RootsFollow, EdgesFollow
<1>2. CopiesFollow' /\ MapFollows' /\ ScanOnce' /\ RootsMoved' /\ SweepSpares'
  BY DEF Calm, Scavenging, CopiesFollow, MapFollows, ScanOnce, RootsMoved, SweepSpares
<1> QED BY <1>1, <1>2 DEF Follow

(* What Follow says then. *)
LEMMA WhenCalm ==
  ASSUME Follow, Calm
  PROVE  /\ Leads(from, old, globalRoots, rooted) /\ DOMAIN forwarding = {}
         /\ \A i : Occupied(from.slots, i) =>
              Leads(from, old, from.slots[i].refs, edges[from.slots[i].payload])
         /\ OneEach /\ EdgesKnown
         /\ \A i : Occupied(from.slots, i) => Absent(old.slots, from.slots[i].payload)
  BY DEF Calm, Follow, RootsFollow, EdgesFollow, ScanOnce, OneEach, Scavenging

LEMMA MutatorCalm == ASSUME pc \in {"mutator", "allocate", "retain"} PROVE Calm
  BY DEF Calm, Scavenging, Sweeping

(* Heap::allocate and allocate_old, with or without a scavenge first. *)
LEMMA AllocatedFollow ==
  ASSUME Base, Base', Follow, Calm, pc' = "mutator", allocated' = allocated + 1,
         UNCHANGED <<to, globalRoots, forwarding, rooted, edges>>,
         \/ /\ from' = PlaceSemi(from, NewObject(allocated')) /\ UNCHANGED old
         \/ /\ old' = PlaceOld(NewObject(allocated')) /\ UNCHANGED from
  PROVE  Follow'
<1> DEFINE object == NewObject(allocated')
<1>1. allocated' \in Payloads /\ allocated \in Nat
  BY HeapAssumption DEF Base, Inv, TypeOK, Payloads
<1>2. object \in HeapObject /\ object.payload = allocated' /\ object.refs = {}
  BY <1>1, NewObjectSlot DEF NewObject
<1> HIDE DEF object
<1>3. SemiSpaceOK(from) /\ OldType(old) /\ FreeOK(old)
  BY FreeListIsFree DEF Base, Inv, TypeOK, OldType
<1>4. from'.generation = from.generation
      /\ \/ (\E k : Added(from.slots, from'.slots, k, object)) /\ UNCHANGED old
         \/ (\E k : Added(old.slots, old'.slots, k, object)) /\ UNCHANGED from
  BY <1>2, <1>3, SemiAdded, OldAdded DEF object
<1>5. Stays(from.slots, from'.slots) /\ Stays(old.slots, old'.slots)
  BY <1>4, AddedStays, StaysSame
<1>6. OneEach'
  BY <1>2, <1>4, WhenCalm, NewOneEach DEF Calm
<1>7. Leads(from', old', globalRoots', rooted')
  BY <1>4, <1>5, WhenCalm, LeadsStays
<1>8. \A i : Occupied(from'.slots, i) =>
        Leads(from', old', from'.slots[i].refs, edges'[from'.slots[i].payload])
  <2> SUFFICES ASSUME NEW i, Occupied(from'.slots, i)
               PROVE  Leads(from', old', from'.slots[i].refs, edges[from'.slots[i].payload])
    OBVIOUS
  <2>1. CASE Occupied(from.slots, i) /\ from'.slots[i] = from.slots[i]
    <3>1. Leads(from, old, from.slots[i].refs, edges[from.slots[i].payload])
      BY <2>1, WhenCalm
    <3> QED BY <1>4, <1>5, <2>1, <3>1, LeadsStays
  <2>2. CASE from'.slots[i] = object
    <3>1. edges[allocated'] = {}
      BY <1>1, WhenCalm DEF EdgesKnown
    <3> QED BY <1>2, <2>2, <3>1, LeadsNone
  <2> QED BY <1>4, <2>1, <2>2 DEF Added
<1>9. EdgesKnown'
  <2>1. \A p \in Payloads : p > allocated' => p > allocated
    BY <1>1 DEF Payloads
  <2> QED BY <2>1, WhenCalm DEF EdgesKnown
<1>10. Calm' /\ DOMAIN forwarding' = {}
  BY WhenCalm DEF Calm, Scavenging, Sweeping
<1> QED BY <1>6, <1>7, <1>8, <1>9, <1>10, CalmFollow

LEMMA AllocateFollow ==
  ASSUME Base, Base', Follow, Allocate \/ AllocateOld \/ AllocateAfterScavenge
  PROVE  Follow'
<1>1. Calm
  BY MutatorCalm DEF Allocate, AllocateOld, AllocateAfterScavenge, Mutating
<1> QED BY <1>1, AllocatedFollow
        DEF Allocate, AllocateOld, AllocateAfterScavenge, Mutating, rootSet, frame, history

(* Steps that touch neither the spaces nor what they are judged by. *)
LEMMA SameFollow ==
  ASSUME Follow, UNCHANGED <<from, to, old, globalRoots, pc, todo, worklist, current, updated,
                             forwarding, cursor, dead, allocated, rooted, edges>>
  PROVE  Follow'
<1>1. RootsFollow' /\ EdgesFollow' /\ MapFollows' /\ RootsMoved'
  BY DEF Follow, RootsFollow, EdgesFollow, MapFollows, RootsMoved, Leads, Lies, What, InSlotOf,
         Sweeping
<1>2. CopiesFollow'
  BY DEF Follow, CopiesFollow, Leads, Lies, What, InSlotOf, Scavenging, CopyId, HalfScanned, Waiting
<1>3. ScanOnce' /\ OneEach' /\ EdgesKnown'
  BY DEF Follow, ScanOnce, OneEach, EdgesKnown, Lies, InSlotOf, Scavenging, Waiting, Numbered,
         NurseryId
<1>4. SweepSpares'
  BY DEF Follow, SweepSpares, Spared, Sweeping, Lies, InSlotOf, MarkDone, Marking
<1> QED BY <1>1, <1>2, <1>3, <1>4 DEF Follow

(* What a client holds lies in the spaces, and has one id. *)
LEMMA HeldLies ==
  ASSUME Base, NEW id \in Held
  PROVE  /\ id \in HeapId /\ Lies(from, old, id) /\ PayloadOf(id) = What(from, old, id)
         /\ PayloadOf(id) \in Payloads
<1>1. id \in HeapId /\ SlotOf(id) \in HeapObject
  BY HeldIds DEF Base, Inv
<1>2. Resolves(id)
  BY DEF Held, Named
<1>3. id.space = "New" \/ id.space = "Old"
  BY <1>1 DEF HeapId
<1>4. Lies(from, old, id) /\ PayloadOf(id) = What(from, old, id)
  BY <1>2, <1>3 DEF Resolves, InBounds, SlotOf, Lies, InSlotOf, Occupied, What, PayloadOf
<1>5. PayloadOf(id) \in Payloads
  BY <1>1 DEF PayloadOf, HeapObject
<1> QED BY <1>1, <1>4, <1>5

LEMMA GlobalRootFollow ==
  ASSUME Base, Follow, NEW id \in Held, AddGlobalRoot(id) \/ RemoveGlobalRoot(id)
  PROVE  Follow'
<1>1. /\ Mutating /\ UNCHANGED <<from, to, old, pc, todo, worklist, current, updated, forwarding,
                                 cursor, dead, allocated, edges>>
  BY DEF AddGlobalRoot, RemoveGlobalRoot, spaces, frame
<1>2. Calm /\ Calm'
  BY <1>1, MutatorCalm DEF Calm, Mutating, Scavenging, Sweeping
<1>3. id \in HeapId /\ Lies(from, old, id) /\ PayloadOf(id) = What(from, old, id)
      /\ globalRoots \subseteq HeapId
  BY HeldLies DEF Base, Inv, TypeOK
<1>4. Leads(from, old, globalRoots, rooted)
  BY <1>2, WhenCalm
<1>5. Leads(from, old, globalRoots', rooted')
  <2>1. CASE AddGlobalRoot(id)
    BY <1>3, <1>4, <2>1, LeadsAdd DEF AddGlobalRoot
  <2>2. CASE RemoveGlobalRoot(id)
    <3>1. /\ id \in globalRoots /\ globalRoots' = globalRoots \ {id}
          /\ rooted' = rooted \ {What(from, old, id)}
      BY <1>3, <2>2 DEF RemoveGlobalRoot
    <3>2. \A y \in globalRoots : What(from, old, y) = What(from, old, id) => y = id
      BY <1>2, <1>3, <1>4, WhenCalm, OneId DEF Leads, OneEach
    <3> QED BY <1>4, <3>1, <3>2, LeadsDrop
  <2> QED BY <2>1, <2>2
<1>6. OneEach' /\ EdgesKnown'
  BY <1>1, <1>2, WhenCalm DEF OneEach, EdgesKnown, NurseryId, Numbered
<1>7. pc' = "mutator" /\ DOMAIN forwarding' = {}
  BY <1>1, <1>2, WhenCalm DEF Mutating
<1>8. \A i : Occupied(from'.slots, i) =>
        Leads(from', old', from'.slots[i].refs, edges'[from'.slots[i].payload])
  BY <1>1, <1>2, WhenCalm
<1> QED BY <1>1, <1>2, <1>5, <1>6, <1>7, <1>8, CalmFollow

(* t is s, but for the references of the object in slot k. *)
Relinked(s, t, k, refs) ==
  /\ Stays(s, t) /\ Stays(t, s)
  /\ Occupied(s, k) /\ t[k].refs = refs
  /\ \A i : Occupied(s, i) /\ i # k => t[i] = s[i]

LEMMA RefsRelinked ==
  ASSUME NEW slots \in Seq(Slot), NEW k, Occupied(slots, k), NEW refs \in SUBSET HeapId
  PROVE  Relinked(slots, WithRefs(slots, k, refs), k, refs)
<1>1. k \in 1..Len(slots) /\ slots[k] # NoObject /\ slots[k] \in HeapObject
  BY DEF Occupied, Slot
<1> DEFINE object == [slots[k] EXCEPT !.refs = refs]
<1>2. object \in HeapObject /\ object.refs = refs /\ object.payload = slots[k].payload
  BY <1>1 DEF HeapObject
<1>3. WithRefs(slots, k, refs) = [slots EXCEPT ![k] = object]
  BY DEF WithRefs
<1> HIDE DEF object
<1>4. object \in Slot /\ object # NoObject
  BY <1>2, SlotAssumption DEF Slot
<1> DEFINE t == [slots EXCEPT ![k] = object]
<1>5. /\ Len(t) = Len(slots)
      /\ \A j \in 1..Len(slots) : t[j] = IF j = k THEN object ELSE slots[j]
  BY <1>1, <1>4, SetSlot
<1> HIDE DEF t
<1>6. Relinked(slots, t, k, refs)
  BY <1>1, <1>2, <1>4, <1>5 DEF Relinked, Stays, Occupied
<1> QED BY <1>3, <1>6 DEF t

(* The write barrier, and get_mut(source).remove_reference(target). *)
LEMMA WriteFollow ==
  ASSUME Base, Follow, NEW source \in Held, NEW target \in Held,
         WriteBarrier(source, target) \/ DropReference(source, target)
  PROVE  Follow'
<1> DEFINE refs == IF WriteBarrier(source, target) THEN SlotOf(source).refs \cup {target}
                                                 ELSE SlotOf(source).refs \ {target}
           p == PayloadOf(source)
           known == IF WriteBarrier(source, target) THEN edges[p] \cup {PayloadOf(target)}
                                                  ELSE edges[p] \ {PayloadOf(target)}
<1>1. /\ Mutating /\ UNCHANGED <<to, globalRoots, pc, todo, worklist, current, updated, forwarding,
                                 cursor, dead, allocated, rooted>>
      /\ SetRefs(source, refs)
      /\ edges' = [edges EXCEPT ![p] = known]
      /\ WriteBarrier(source, target) \/ target \in SlotOf(source).refs
  BY DEF WriteBarrier, DropReference, frame, rootSet
<1>2. Calm /\ Calm'
  BY <1>1, MutatorCalm DEF Calm, Mutating, Scavenging, Sweeping
<1>3. /\ source \in HeapId /\ Lies(from, old, source) /\ p = What(from, old, source)
      /\ target \in HeapId /\ Lies(from, old, target)
      /\ PayloadOf(target) = What(from, old, target)
      /\ p \in Payloads /\ PayloadOf(target) \in Payloads
  BY HeldLies
<1>4. /\ from.slots \in Seq(Slot) /\ from.generation \in Nat
      /\ from = [slots |-> from.slots, generation |-> from.generation]
      /\ old.slots \in Seq(Slot) /\ old = [slots |-> old.slots, freeList |-> old.freeList]
  BY DEF Base, Inv, TypeOK, SemiSpaceOK
<1>5. refs \in SUBSET HeapId
  <2>1. SlotOf(source) \in HeapObject
    BY HeldIds DEF Base, Inv
  <2>2. SlotOf(source).refs \in SUBSET HeapId
    BY <2>1 DEF HeapObject
  <2> QED BY <1>3, <2>2
<1>6. EdgesKnown /\ edges[p] \in SUBSET Payloads /\ p \in 1..allocated
  <2>1. EdgesKnown /\ Numbered(from.slots) /\ Numbered(old.slots)
    BY <1>2, WhenCalm DEF OneEach
  <2>2. p \in 1..allocated
    BY <1>3, <2>1 DEF Lies, InSlotOf, What, Numbered
  <2> QED BY <1>3, <2>1, <2>2 DEF EdgesKnown
<1>7. EdgesKnown' /\ edges'[p] = known /\ \A q \in Payloads : q # p => edges'[q] = edges[q]
  <2>1. known \in SUBSET Payloads
    BY <1>3, <1>6
  <2> HIDE DEF known, p
  <2>2. /\ edges' \in [Payloads -> SUBSET Payloads]
        /\ edges'[p] = known /\ \A q \in Payloads : q # p => edges'[q] = edges[q]
    BY <1>1, <1>3, <1>6, <2>1 DEF EdgesKnown
  <2>3. \A q \in Payloads : q > allocated => q # p
    BY <1>6 DEF Payloads, Base, Inv, TypeOK
  <2> QED BY <1>1, <1>6, <2>2, <2>3 DEF EdgesKnown
<1>8. CASE source.space = "New"
  <2>1. /\ from'.slots = WithRefs(from.slots, source.index, refs)
        /\ from'.generation = from.generation /\ UNCHANGED old
    BY <1>1, <1>4, <1>8 DEF SetRefs, SetFromRefs
  <2>2. /\ Occupied(from.slots, source.index) /\ p = from.slots[source.index].payload
        /\ SlotOf(source) = from.slots[source.index]
    BY <1>3, <1>8 DEF Lies, InSlotOf, What, SlotOf
  <2> HIDE DEF refs
  <2>3. Relinked(from.slots, from'.slots, source.index, refs)
    BY <1>4, <1>5, <2>1, <2>2, RefsRelinked
  <2>4. Stays(from.slots, from'.slots) /\ Stays(from'.slots, from.slots) /\ Stays(old.slots, old'.slots)
        /\ Stays(to'.slots, to.slots) /\ Stays(old'.slots, old.slots)
    BY <1>1, <2>1, <2>3, StaysSame DEF Relinked
  <2>5. OneEach'
    BY <1>1, <1>2, <2>1, <2>4, WhenCalm, FewerOneEach
  <2>6. Leads(from', old', globalRoots', rooted')
    BY <1>1, <1>2, <2>1, <2>4, WhenCalm, LeadsStays
  <2>7. ASSUME NEW i, Occupied(from'.slots, i)
        PROVE  Leads(from', old', from'.slots[i].refs, edges'[from'.slots[i].payload])
    <3>1. Occupied(from.slots, i) /\ from'.slots[i].payload = from.slots[i].payload
          /\ Leads(from, old, from.slots[i].refs, edges[from.slots[i].payload])
          /\ from.slots[i] \in HeapObject
      BY <1>2, <1>4, <2>4, <2>7, WhenCalm DEF Stays, Occupied, Slot
    <3>2. CASE i = source.index
      <4>1. Leads(from, old, refs, known)
        <5>1. CASE WriteBarrier(source, target)
          BY <1>3, <2>2, <3>1, <3>2, <5>1, LeadsAdd DEF refs
        <5>2. CASE ~WriteBarrier(source, target)
          <6> DEFINE r == from.slots[i].refs
          <6>1. target \in r /\ r \subseteq HeapId
            BY <1>1, <2>2, <3>1, <3>2, <5>2 DEF HeapObject
          <6>2. \A y \in r : What(from, old, y) = What(from, old, target) => y = target
            BY <1>2, <1>3, <3>1, <6>1, WhenCalm, OneId DEF Leads, OneEach
          <6>3. Leads(from, old, r \ {target}, edges[p] \ {What(from, old, target)})
            BY <2>2, <3>1, <3>2, <6>1, <6>2, LeadsDrop
          <6> QED BY <1>3, <2>2, <3>2, <5>2, <6>3 DEF refs
        <5> QED BY <5>1, <5>2
      <4>2. Leads(from', old', refs, known)
        BY <2>1, <2>4, <4>1, LeadsStays
      <4> QED BY <1>7, <2>2, <2>3, <3>1, <3>2, <4>2 DEF Relinked
    <3>3. CASE i # source.index
      <4>1. from'.slots[i] = from.slots[i]
        BY <2>3, <3>1, <3>3 DEF Relinked
      <4>2. from.slots[i].payload # p /\ from.slots[i].payload \in Payloads
        BY <1>2, <2>2, <3>1, <3>3, WhenCalm DEF OneEach, Distinct, HeapObject
      <4>3. edges'[from.slots[i].payload] = edges[from.slots[i].payload]
        BY <1>7, <4>2
      <4> HIDE DEF p, known
      <4> QED BY <2>1, <2>4, <3>1, <4>1, <4>3, LeadsStays
    <3> QED BY <3>2, <3>3
  <2>8. pc' = "mutator" /\ DOMAIN forwarding' = {}
    BY <1>1, <1>2, WhenCalm DEF Mutating
  <2> QED BY <1>2, <1>7, <2>5, <2>6, <2>7, <2>8, CalmFollow
<1>9. CASE source.space = "Old"
  <2>1. /\ old'.slots = WithRefs(old.slots, source.index, refs) /\ UNCHANGED from
    BY <1>1, <1>4, <1>9 DEF SetRefs, SetOldRefs
  <2>2. Occupied(old.slots, source.index) /\ p = old.slots[source.index].payload
    BY <1>3, <1>9 DEF Lies, InSlotOf, What
  <2> HIDE DEF refs
  <2>3. Relinked(old.slots, old'.slots, source.index, refs)
    BY <1>4, <1>5, <2>1, <2>2, RefsRelinked
  <2>4. Stays(from.slots, from'.slots) /\ Stays(from'.slots, from.slots) /\ Stays(old.slots, old'.slots)
        /\ Stays(to'.slots, to.slots) /\ Stays(old'.slots, old.slots)
    BY <1>1, <2>1, <2>3, StaysSame DEF Relinked
  <2>5. OneEach'
    BY <1>1, <1>2, <2>1, <2>4, WhenCalm, FewerOneEach
  <2>6. Leads(from', old', globalRoots', rooted')
    BY <1>1, <1>2, <2>1, <2>4, WhenCalm, LeadsStays
  <2>7. ASSUME NEW i, Occupied(from.slots, i)
        PROVE  Leads(from', old', from.slots[i].refs, edges'[from.slots[i].payload])
    <3>1. Leads(from, old, from.slots[i].refs, edges[from.slots[i].payload])
      BY <1>2, <2>7, WhenCalm
    <3>2. from.slots[i].payload # p /\ from.slots[i].payload \in Payloads
      BY <1>2, <1>4, <2>2, <2>7, WhenCalm DEF Absent, Occupied, Slot, HeapObject
    <3>3. edges'[from.slots[i].payload] = edges[from.slots[i].payload]
      BY <1>7, <3>2
    <3> HIDE DEF p, known
    <3> QED BY <2>1, <2>4, <3>1, <3>3, LeadsStays
  <2>8. pc' = "mutator" /\ DOMAIN forwarding' = {}
    BY <1>1, <1>2, WhenCalm DEF Mutating
  <2> QED BY <1>2, <1>7, <2>1, <2>5, <2>6, <2>7, <2>8, CalmFollow
<1> QED BY <1>3, <1>8, <1>9 DEF HeapId

-----------------------------------------------------------------------------
(* Marking *)

(* t is s with other colors. *)
Repainted(s, t) ==
  /\ Stays(s, t) /\ Stays(t, s)
  /\ \A i : Occupied(s, i) => t[i].refs = s[i].refs

LEMMA SameRepainted == ASSUME NEW s PROVE Repainted(s, s)
  BY DEF Repainted, Stays

LEMMA PaintKeeps ==
  ASSUME NEW object \in HeapObject, NEW color \in Colors
  PROVE  /\ Paint(object, color) # NoObject
         /\ Paint(object, color).payload = object.payload
         /\ Paint(object, color).refs = object.refs /\ Paint(object, color).color = color
<1>1. Paint(object, color) = [object EXCEPT !.color = color]
  BY SlotAssumption DEF Paint
<1>2. [object EXCEPT !.color = color] \in HeapObject
  BY DEF HeapObject
<1> QED BY <1>1, <1>2, SlotAssumption DEF HeapObject

LEMMA ResetRepainted ==
  ASSUME NEW slots \in Seq(Slot)
  PROVE  Repainted(slots, ResetColors(slots))
<1>1. /\ Len(ResetColors(slots)) = Len(slots)
      /\ \A i \in 1..Len(slots) : ResetColors(slots)[i] = NoObject <=> slots[i] = NoObject
  BY ResetSlots
<1>2. \A i : Occupied(slots, i) => slots[i] \in HeapObject /\ ResetColors(slots)[i] = Paint(slots[i], "White")
  BY DEF Occupied, Slot, ResetColors
<1>3. \A i : Occupied(slots, i) => /\ ResetColors(slots)[i].payload = slots[i].payload
                                   /\ ResetColors(slots)[i].refs = slots[i].refs
  BY <1>2, PaintKeeps DEF Colors
<1> QED BY <1>1, <1>3 DEF Repainted, Stays, Occupied

LEMMA OneRepainted ==
  ASSUME NEW slots \in Seq(Slot), NEW k \in 1..Len(slots), NEW color \in Colors
  PROVE  /\ Repainted(slots, [slots EXCEPT ![k] = Paint(slots[k], color)])
         /\ \A i : i # k => [slots EXCEPT ![k] = Paint(slots[k], color)][i] = slots[i]
<1> DEFINE painted == Paint(slots[k], color)
           t == [slots EXCEPT ![k] = painted]
<1>1. painted \in Slot /\ (painted = NoObject <=> slots[k] = NoObject)
  BY PaintSlot
<1>2. slots[k] # NoObject => painted.payload = slots[k].payload /\ painted.refs = slots[k].refs
  BY PaintKeeps DEF Slot
<1> HIDE DEF painted
<1>3. /\ Len(t) = Len(slots) /\ DOMAIN t = DOMAIN slots
      /\ \A j \in 1..Len(slots) : t[j] = IF j = k THEN painted ELSE slots[j]
      /\ \A j : j # k => t[j] = slots[j]
  BY <1>1, SetSlot
<1> HIDE DEF t
<1> QED BY <1>1, <1>2, <1>3 DEF Repainted, Stays, Occupied, t, painted

(* While nothing is swept, repainting changes nothing that matters. *)
LEMMA RepaintFollow ==
  ASSUME Follow, Calm, Calm', pc' # "join", pc' = "markConcurrent" => cursor' = 1,
         Repainted(from.slots, from'.slots), Repainted(old.slots, old'.slots),
         from'.generation = from.generation,
         UNCHANGED <<to, globalRoots, forwarding, allocated, rooted, edges>>
  PROVE  Follow'
<1>1. Stays(from.slots, from'.slots) /\ Stays(from'.slots, from.slots)
      /\ Stays(old.slots, old'.slots) /\ Stays(old'.slots, old.slots)
      /\ Stays(to'.slots, to.slots)
  BY StaysSame DEF Repainted
<1>2. OneEach'
  BY <1>1, WhenCalm, FewerOneEach
<1>3. Leads(from', old', globalRoots', rooted')
  BY <1>1, WhenCalm, LeadsStays
<1>4. \A i : Occupied(from'.slots, i) =>
        Leads(from', old', from'.slots[i].refs, edges'[from'.slots[i].payload])
  <2> SUFFICES ASSUME NEW i, Occupied(from'.slots, i)
               PROVE  Leads(from', old', from'.slots[i].refs, edges[from'.slots[i].payload])
    OBVIOUS
  <2>1. /\ Occupied(from.slots, i) /\ from'.slots[i].payload = from.slots[i].payload
        /\ from'.slots[i].refs = from.slots[i].refs
    BY <1>1 DEF Stays, Repainted
  <2>2. Leads(from, old, from.slots[i].refs, edges[from.slots[i].payload])
    BY <2>1, WhenCalm
  <2> QED BY <1>1, <2>1, <2>2, LeadsStays
<1>5. EdgesKnown' /\ DOMAIN forwarding' = {}
  BY WhenCalm DEF EdgesKnown
<1> QED BY <1>2, <1>3, <1>4, <1>5, CalmFollow

LEMMA MarkBeginFollow ==
  ASSUME Base, Follow, Mutating, NEW mode \in {"mark", "markConcurrent"}, MarkBegin(mode),
         UNCHANGED history
  PROVE  Follow'
<1>1. /\ from'.slots = ResetColors(from.slots) /\ from'.generation = from.generation
      /\ old'.slots = ResetColors(old.slots) /\ pc' = mode /\ cursor' = 1
      /\ UNCHANGED <<to, globalRoots, forwarding, allocated, rooted, edges>>
  BY DEF MarkBegin, Base, Inv, TypeOK, SemiSpaceOK, rootSet, history
<1>2. Repainted(from.slots, from'.slots) /\ Repainted(old.slots, old'.slots)
  BY <1>1, ResetRepainted DEF Base, Inv, TypeOK, SemiSpaceOK
<1>3. Calm /\ Calm'
  BY <1>1, MutatorCalm DEF Mutating, Calm, Scavenging, Sweeping
<1> QED BY <1>1, <1>2, <1>3, RepaintFollow

LEMMA SetColorRepaints ==
  ASSUME Inv, NEW id \in HeapId, Found(id), NEW color \in Colors, SetColor(id, color)
  PROVE  /\ Repainted(from.slots, from'.slots) /\ Repainted(old.slots, old'.slots)
         /\ from'.generation = from.generation
<1>1. from.slots \in Seq(Slot) /\ old.slots \in Seq(Slot)
  BY DEF Inv, TypeOK, SemiSpaceOK
<1>2. CASE id.space = "New"
  <2>1. id.index \in 1..Len(from.slots)
    BY <1>2 DEF Found, InBounds
  <2>2. /\ from'.slots = [from.slots EXCEPT ![id.index] = Paint(from.slots[id.index], color)]
        /\ from'.generation = from.generation /\ UNCHANGED old
    BY <1>2 DEF SetColor, Inv, TypeOK, SemiSpaceOK
  <2> QED BY <1>1, <2>1, <2>2, OneRepainted, SameRepainted
<1>3. CASE id.space = "Old"
  <2>1. id.index \in 1..Len(old.slots)
    BY <1>3 DEF Found, InBounds
  <2>2. /\ old'.slots = [old.slots EXCEPT ![id.index] = Paint(old.slots[id.index], color)]
        /\ UNCHANGED from
    BY <1>3 DEF SetColor, Inv, TypeOK
  <2> QED BY <1>1, <2>1, <2>2, OneRepainted, SameRepainted
<1> QED BY <1>2, <1>3 DEF HeapId

LEMMA MarkFollow ==
  ASSUME Base, Follow, (\E id \in todo : PaintNext(id)) \/ Blacken \/ PopGrey, UNCHANGED history
  PROVE  Follow'
<1>1. /\ Marking /\ ~MarkDone
      /\ UNCHANGED <<pc, cursor, to, globalRoots, forwarding, allocated, rooted, edges>>
  BY DEF PaintNext, Blacken, PopGrey, markUnchanged, rootSet, history, MarkDone
<1>2. Calm /\ Calm' /\ pc' # "join" /\ (pc' = "markConcurrent" => cursor' = 1)
  BY <1>1 DEF Follow, SweepSpares, Marking, Calm, Scavenging, Sweeping
<1>3. Inv
  BY DEF Base
<1>4. CASE UNCHANGED <<from, old>>
  BY <1>1, <1>2, <1>4, SameRepainted, RepaintFollow
<1>5. CASE \E id \in HeapId, color \in Colors : Found(id) /\ SetColor(id, color)
  <2>1. Repainted(from.slots, from'.slots) /\ Repainted(old.slots, old'.slots)
        /\ from'.generation = from.generation
    BY <1>3, <1>5, SetColorRepaints
  <2> QED BY <1>1, <1>2, <2>1, RepaintFollow
<1>6. CASE \E id \in todo : PaintNext(id)
  <2>1. PICK id \in todo : PaintGrey(id)
    BY <1>6 DEF PaintNext
  <2>2. id \in HeapId /\ "Grey" \in Colors
    BY <1>3 DEF Inv, TypeOK, Colors
  <2> QED BY <1>4, <1>5, <2>1, <2>2 DEF PaintGrey
<1>7. CASE Blacken
  <2>1. current \in HeapId /\ Found(current) /\ SetColor(current, "Black") /\ "Black" \in Colors
    BY <1>1, <1>3, <1>7, WaitingFound DEF Blacken, Waiting, Inv, TypeOK, Colors
  <2> QED BY <1>5, <2>1
<1>8. CASE PopGrey
  BY <1>4, <1>8 DEF PopGrey
<1> QED BY <1>6, <1>7, <1>8

-----------------------------------------------------------------------------
(* Sweeping *)

LEMMA LeadsStill ==
  ASSUME NEW semi, NEW space, NEW semi2, NEW space2, NEW ids, NEW payloads,
         Leads(semi, space, ids, payloads),
         \A id \in ids : Lies(semi2, space2, id)
                         /\ What(semi2, space2, id) = What(semi, space, id)
  PROVE  Leads(semi2, space2, ids, payloads)
  BY DEF Leads

LEMMA NurseryObject ==
  ASSUME Inv, NEW i, Occupied(from.slots, i)
  PROVE  from.slots[i] \in HeapObject /\ from.slots[i].refs \subseteq HeapId
<1>1. from.slots[i] \in HeapObject
  BY DEF Inv, TypeOK, SemiSpaceOK, Occupied, Slot
<1> QED BY <1>1 DEF HeapObject

(* Once marking is done, what the roots and the survivors name is spared.  *)
LEMMA SparedNow ==
  ASSUME Base, Follow, Sweeping \/ (Marking /\ MarkDone)
  PROVE  /\ \A id \in globalRoots : Spared(id)
         /\ \A i : Occupied(from.slots, i) /\ from.slots[i].color # "White" =>
              \A r \in from.slots[i].refs : Spared(r)
<1>1. CASE Sweeping
  BY <1>1 DEF Follow, SweepSpares
<1>2. CASE ~Sweeping /\ Marking /\ MarkDone
  <2>1. cursor = 1 /\ pc # "join" /\ Inv /\ TypeOK /\ ~Scavenging
    BY <1>2 DEF Sweeping, Marking, Follow, SweepSpares, Base, Inv, TypeOK, Index, Scavenging
  <2>2. todo = {} /\ Waiting = {}
    BY <1>2 DEF MarkDone, Waiting, Elements
  <2>3. /\ \A id \in Roots : Found(id) => Live(id)
        /\ \A a \in Objects : ObjectAt(a).color = "Black" =>
             \A r \in ObjectAt(a).refs : Found(r) => Live(r)
        /\ \A a \in Objects : ObjectAt(a).color # "Grey"
    BY <1>2, <2>1, <2>2 DEF Base, Tricolor
  <2>4. Calm
    BY <1>2, <2>1 DEF Calm
  <2>5. \A id \in HeapId : Lies(from, old, id) => Found(id)
    BY DEF Lies, InSlotOf, Occupied, Found, InBounds, SlotOf
  <2>6. \A id \in HeapId : Lies(from, old, id) /\ Live(id) => Spared(id)
    <3> SUFFICES ASSUME NEW id \in HeapId, Lies(from, old, id), Live(id) PROVE Spared(id)
      OBVIOUS
    <3>1. CASE id.space = "New"
      BY <2>1, <3>1 DEF Live, ObjectAt, Address, Spared
    <3>2. CASE id.space = "Old"
      BY <2>1, <3>2 DEF Live, ObjectAt, Address, Spared
    <3> QED BY <3>1, <3>2 DEF HeapId
  <2>7. \A id \in globalRoots : Spared(id)
    <3>1. globalRoots \subseteq Roots /\ Roots \subseteq HeapId
      BY <2>1, RootIds DEF Roots
    <3>2. \A id \in globalRoots : Lies(from, old, id)
      BY <2>4, WhenCalm DEF Leads
    <3> QED BY <2>3, <2>5, <2>6, <3>1, <3>2
  <2>8. ASSUME NEW i, Occupied(from.slots, i), from.slots[i].color # "White",
               NEW r \in from.slots[i].refs
        PROVE  Spared(r)
    <3>1. Lies(from, old, r) /\ r \in HeapId
      BY <2>1, <2>4, <2>8, WhenCalm, NurseryObject DEF Leads
    <3>2. <<"New", i>> \in Objects /\ ObjectAt(<<"New", i>>) = from.slots[i]
      BY <2>1, <2>8 DEF Objects, ObjectAt, Occupied, TypeOK, SemiSpaceOK
    <3>3. from.slots[i].color = "Black"
      BY <2>1, <2>3, <2>8, <3>2, ObjectType DEF Colors
    <3> QED BY <2>3, <2>5, <2>6, <3>1, <3>2, <3>3
  <2> QED BY <2>7, <2>8
<1> QED BY <1>1, <1>2

(* A step that sweeps the old space, or moves on to the next. *)
LEMMA SweepFollow ==
  ASSUME Base, Follow, Sweeping \/ (Marking /\ MarkDone), Sweeping',
         UNCHANGED <<from, to, globalRoots, forwarding, allocated, rooted, edges>>,
         Stays(old'.slots, old.slots),
         \A id \in HeapId : Spared(id) => Spared(id)' /\ What(from, old', id) = What(from, old, id),
         pc' = "mark" => MarkDone',
         pc' = "join" => \A i \in dead' : i >= cursor' => old'.slots[i].color = "White"
  PROVE  Follow'
<1>1. /\ ~Scavenging /\ ~Scavenging' /\ pc' # "markConcurrent"
      /\ globalRoots \subseteq HeapId /\ Inv
  BY DEF Sweeping, Marking, Scavenging, Base, Inv, TypeOK
<1>2. \A id \in HeapId : Spared(id) => Lies(from', old', id)
  BY DEF Spared
<1>3. RootsFollow'
  <2>1. Leads(from, old, globalRoots, rooted)
    BY <1>1 DEF Follow, RootsFollow, Scavenging
  <2>2. Leads(from', old', globalRoots, rooted)
    BY <1>1, <1>2, <2>1, SparedNow, LeadsStill
  <2> QED BY <1>1, <2>2 DEF RootsFollow, Scavenging
<1>4. EdgesFollow'
  <2> SUFFICES ASSUME NEW i, Occupied(from.slots, i), from.slots[i].color # "White"
               PROVE  Leads(from', old', from.slots[i].refs, edges[from.slots[i].payload])
    BY DEF EdgesFollow
  <2>1. Leads(from, old, from.slots[i].refs, edges[from.slots[i].payload])
    BY DEF Follow, EdgesFollow
  <2>2. \A r \in from.slots[i].refs : r \in HeapId /\ Spared(r)
    BY <1>1, SparedNow, NurseryObject
  <2> QED BY <1>2, <2>1, <2>2, LeadsStill
<1>5. CopiesFollow' /\ RootsMoved'
  BY <1>1 DEF CopiesFollow, RootsMoved, Scavenging
<1>6. ScanOnce' /\ MapFollows' /\ EdgesKnown'
  BY <1>1 DEF Follow, ScanOnce, MapFollows, EdgesKnown, Scavenging
<1>7. OneEach'
  BY StaysSame, FewerOneEach DEF Follow
<1>8. SweepSpares'
  <2>1. \A id \in globalRoots' : Spared(id)'
    BY <1>1, SparedNow
  <2>2. \A i : Occupied(from'.slots, i) /\ from'.slots[i].color # "White" =>
          \A r \in from'.slots[i].refs : Spared(r)'
    BY <1>1, SparedNow, NurseryObject
  <2> QED BY <1>1, <2>1, <2>2 DEF SweepSpares
<1> QED BY <1>3, <1>4, <1>5, <1>6, <1>7, <1>8 DEF Follow

(* Freeing one slot. *)
LEMMA FreedSlots ==
  ASSUME NEW i \in DOMAIN old.slots, OldType(old), Free(i)
  PROVE  /\ Stays(old'.slots, old.slots)
         /\ \A j : j # i /\ Occupied(old.slots, j) =>
              Occupied(old'.slots, j) /\ old'.slots[j] = old.slots[j]
<1>1. old.slots \in Seq(Slot) /\ i \in 1..Len(old.slots) /\ NoObject \in Slot
  BY DEF OldType, Slot
<1>2. old'.slots = [old.slots EXCEPT ![i] = NoObject]
  BY DEF Free
<1>3. /\ Len(old'.slots) = Len(old.slots)
      /\ \A j \in 1..Len(old.slots) : old'.slots[j] = IF j = i THEN NoObject ELSE old.slots[j]
  BY <1>1, <1>2, SetSlot
<1> QED BY <1>1, <1>3 DEF Stays, Occupied

LEMMA SweepOldFollow ==
  ASSUME Base, Follow, SweepOld, UNCHANGED history PROVE Follow'
<1>1. /\ pc = "mark" /\ MarkDone /\ Marking /\ cursor' = cursor + 1
      /\ UNCHANGED <<from, pc, todo, worklist, current, to, globalRoots, forwarding, allocated,
                     rooted, edges>>
  BY DEF SweepOld, MarkDone, markUnchanged, rootSet, history
<1>2. cursor \in DOMAIN old.slots /\ cursor \in Nat \ {0} /\ OldType(old) /\ Inv
      /\ old.slots \in Seq(Slot) /\ cursor \in 1..Len(old.slots)
  BY CursorSlot DEF SweepOld, Base, Inv, TypeOK, Index, OldType
<1>3. Sweeping' /\ MarkDone' /\ pc' # "join" /\ Marking'
  BY <1>1, <1>2 DEF Sweeping, MarkDone, Marking
<1>4. /\ Stays(old'.slots, old.slots)
      /\ \A j : Occupied(old.slots, j) /\ j # cursor =>
           Occupied(old'.slots, j) /\ old'.slots[j] = old.slots[j]
      /\ Occupied(old.slots, cursor) /\ old.slots[cursor].color # "White" =>
           /\ Occupied(old'.slots, cursor)
           /\ old'.slots[cursor].payload = old.slots[cursor].payload
  <2>1. CASE cursor \in White(old.slots)
    <3>1. Free(cursor) /\ old.slots[cursor].color = "White"
      BY <2>1 DEF SweepOld, White
    <3> QED BY <1>2, <3>1, FreedSlots
  <2>2. CASE cursor \notin White(old.slots)
    <3>1. old'.slots = [old.slots EXCEPT ![cursor] = Paint(old.slots[cursor], "White")]
      BY <2>2 DEF SweepOld, Inv, TypeOK, Base
    <3>2. Repainted(old.slots, old'.slots)
          /\ \A i : i # cursor => old'.slots[i] = old.slots[i]
      <4>1. "White" \in Colors
        BY DEF Colors
      <4> QED BY <1>2, <3>1, <4>1, OneRepainted
    <3> QED BY <3>2 DEF Repainted, Stays
  <2> QED BY <2>1, <2>2
<1>5. ASSUME NEW id \in HeapId, Spared(id)
      PROVE  Spared(id)' /\ What(from, old', id) = What(from, old, id)
  <2>1. CASE id.space = "New"
    BY <1>1, <1>5, <2>1 DEF Spared, Lies, InSlotOf, What
  <2>2. CASE id.space = "Old"
    <3>1. Occupied(old.slots, id.index) /\ (id.index >= cursor => old.slots[id.index].color # "White")
      BY <1>1, <1>5, <2>2 DEF Spared, Lies, InSlotOf
    <3>2. Occupied(old'.slots, id.index)
          /\ old'.slots[id.index].payload = old.slots[id.index].payload
          /\ (id.index # cursor => old'.slots[id.index] = old.slots[id.index])
      BY <1>2, <1>4, <3>1
    <3>3. id.index \in Nat /\ (id.index >= cursor' => id.index >= cursor /\ id.index # cursor)
      BY <1>1, <1>2 DEF HeapId, Index
    <3> QED BY <1>3, <2>2, <3>1, <3>2, <3>3 DEF Spared, Lies, InSlotOf, What
  <2> QED BY <2>1, <2>2 DEF HeapId
<1> QED BY <1>1, <1>3, <1>4, <1>5, SweepFollow

(* The next steps of a sweep of the old space, and its end. *)
LEMMA SweepOnFollow ==
  ASSUME Base, Follow, SweepOldDone \/ SpawnSweeper \/ ResetSurvivors, UNCHANGED history
  PROVE  Follow'
<1>1. /\ Sweeping \/ (Marking /\ MarkDone)
      /\ UNCHANGED <<from, to, globalRoots, forwarding, allocated, rooted, edges>>
      /\ pc' \in {"join", "sweepNew"} /\ Sweeping'
  BY DEF SweepOldDone, SpawnSweeper, ResetSurvivors, Sweeping, Marking, MarkDone, markUnchanged,
         rootSet, history
<1>2. Repainted(old.slots, old'.slots)
  BY SameRepainted, ResetRepainted
  DEF SweepOldDone, SpawnSweeper, ResetSurvivors, Base, Inv, TypeOK
<1>3. Stays(old'.slots, old.slots) /\ Stays(old.slots, old'.slots)
  BY <1>2 DEF Repainted
<1>4. pc' = "join" => SpawnSweeper
  BY DEF SweepOldDone, SpawnSweeper, ResetSurvivors
<1>5. pc' = "join" => \A i \in dead' : i >= cursor' => old'.slots[i].color = "White"
  BY <1>4 DEF SpawnSweeper, White
<1>6. ASSUME NEW id \in HeapId, Spared(id)
      PROVE  Spared(id)' /\ What(from, old', id) = What(from, old, id)
  <2>1. Lies(from, old', id) /\ What(from, old', id) = What(from, old, id)
    BY <1>3, <1>6, StaysSame, LiesStays DEF Spared
  <2>2. pc' = "join" /\ id.space = "Old" => old'.slots[id.index].color # "White"
    <3>1. SpawnSweeper => cursor = 1 /\ Marking /\ UNCHANGED old
      BY DEF SpawnSweeper, Marking, Follow, SweepSpares
    <3>2. id.index >= 1
      BY DEF HeapId, Index
    <3> QED BY <1>4, <1>6, <3>1, <3>2 DEF Spared
  <2>3. id.space = "New" => from'.slots[id.index].color # "White"
    BY <1>1, <1>6 DEF Spared
  <2> QED BY <1>1, <2>1, <2>2, <2>3 DEF Spared, Marking
<1> QED BY <1>1, <1>3, <1>5, <1>6, SweepFollow

LEMMA FreeDeadFollow ==
  ASSUME Base, Follow, FreeDead, UNCHANGED history PROVE Follow'
<1>1. /\ pc = "join" /\ pc' = "join" /\ cursor' = cursor + 1 /\ Sweeping /\ Sweeping'
      /\ UNCHANGED <<from, to, globalRoots, forwarding, allocated, rooted, edges, dead>>
  BY DEF FreeDead, Sweeping, markUnchanged, rootSet, history
<1>2. /\ cursor \in DOMAIN old.slots /\ cursor \in Nat /\ OldType(old)
      /\ dead \subseteq DOMAIN old.slots /\ DOMAIN old.slots = 1..Len(old.slots)
      /\ Len(old.slots) \in Nat
  BY CursorSlot DEF FreeDead, Base, Inv, TypeOK, OldType
<1>3. \A i \in dead : i >= cursor => old.slots[i].color = "White" /\ Occupied(old.slots, i)
  BY <1>1, <1>2 DEF Follow, SweepSpares, Base, Inv, Phases, Occupied
<1>4. /\ Stays(old'.slots, old.slots)
      /\ \A j : Occupied(old.slots, j) /\ (j = cursor => old.slots[j].color # "White") =>
           Occupied(old'.slots, j) /\ old'.slots[j] = old.slots[j]
      /\ \A j : Occupied(old.slots, j) /\ j # cursor => old'.slots[j] = old.slots[j]
  <2>1. CASE cursor \in dead
    <3>1. Free(cursor) /\ old.slots[cursor].color = "White"
      BY <1>2, <1>3, <2>1 DEF FreeDead
    <3> QED BY <1>2, <3>1, FreedSlots
  <2>2. CASE cursor \notin dead
    BY <2>2, StaysSame DEF FreeDead
  <2> QED BY <2>1, <2>2
<1>5. \A i \in dead' : i >= cursor' => old'.slots[i].color = "White"
  <2> SUFFICES ASSUME NEW i \in dead, i >= cursor + 1 PROVE old'.slots[i].color = "White"
    BY <1>1
  <2>1. i >= cursor /\ i # cursor
    BY <1>2
  <2> QED BY <1>3, <1>4, <2>1
<1>6. ASSUME NEW id \in HeapId, Spared(id)
      PROVE  Spared(id)' /\ What(from, old', id) = What(from, old, id)
  <2>1. CASE id.space = "New"
    BY <1>1, <1>6, <2>1 DEF Spared, Lies, InSlotOf, What
  <2>2. CASE id.space = "Old"
    <3>1. Occupied(old.slots, id.index) /\ old.slots[id.index].color # "White"
      BY <1>1, <1>6, <2>2 DEF Spared, Lies, InSlotOf
    <3>2. Occupied(old'.slots, id.index) /\ old'.slots[id.index] = old.slots[id.index]
      BY <1>4, <3>1
    <3> QED BY <1>1, <2>2, <3>1, <3>2 DEF Spared, Lies, InSlotOf, What, Marking
  <2> QED BY <2>1, <2>2 DEF HeapId
<1> QED BY <1>1, <1>4, <1>5, <1>6, SweepFollow

(* Emptying the white slots of FromSpace. *)
LEMMA SweepNewFollow ==
  ASSUME Base, Follow, SweepNew, UNCHANGED history PROVE Follow'
<1>1. /\ pc = "sweepNew" /\ pc' = "retain" /\ Sweeping /\ Calm'
      /\ from'.slots = Sweep(from.slots) /\ from'.generation = from.generation
      /\ UNCHANGED <<old, to, globalRoots, forwarding, allocated, rooted, edges>>
  BY DEF SweepNew, Sweeping, Calm, Scavenging, markUnchanged, rootSet, history, Base, Inv, TypeOK,
         SemiSpaceOK
<1>2. Inv /\ from.slots \in Seq(Slot) /\ globalRoots \subseteq HeapId /\ ~Scavenging
  BY <1>1 DEF Base, Inv, TypeOK, SemiSpaceOK, Scavenging
<1>3. DOMAIN from'.slots = 1..Len(from.slots) /\ Len(from'.slots) = Len(from.slots)
  BY <1>1, <1>2 DEF Sweep
<1>4. \A i : Occupied(from.slots, i) /\ from.slots[i].color # "White" =>
        /\ Occupied(from'.slots, i) /\ from'.slots[i].payload = from.slots[i].payload
        /\ from'.slots[i].refs = from.slots[i].refs
  <2> SUFFICES ASSUME NEW i, Occupied(from.slots, i), from.slots[i].color # "White"
               PROVE  /\ Occupied(from'.slots, i)
                      /\ from'.slots[i].payload = from.slots[i].payload
                      /\ from'.slots[i].refs = from.slots[i].refs
    OBVIOUS
  <2>1. from'.slots[i] = Paint(from.slots[i], "White") /\ from.slots[i] \in HeapObject
    BY <1>1, <1>2, NurseryObject DEF Sweep, White, Occupied
  <2> QED BY <1>3, <2>1, PaintKeeps DEF Colors, Occupied
<1>5. \A i : Occupied(from'.slots, i) => Occupied(from.slots, i) /\ from.slots[i].color # "White"
  BY <1>1, <1>2, <1>3 DEF Sweep, White, Occupied, Paint
<1>6. Stays(from'.slots, from.slots)
  BY <1>4, <1>5 DEF Stays
<1>7. \A id : Spared(id) => Lies(from', old', id) /\ What(from', old', id) = What(from, old, id)
  BY <1>1, <1>4 DEF Spared, Lies, InSlotOf, What
<1>8. Leads(from', old', globalRoots', rooted')
  <2>1. Leads(from, old, globalRoots, rooted)
    BY <1>2 DEF Follow, RootsFollow, Scavenging
  <2> QED BY <1>1, <1>7, <2>1, SparedNow, LeadsStill
<1>9. \A i : Occupied(from'.slots, i) =>
        Leads(from', old', from'.slots[i].refs, edges'[from'.slots[i].payload])
  <2> SUFFICES ASSUME NEW i, Occupied(from'.slots, i)
               PROVE  Leads(from', old', from.slots[i].refs, edges[from.slots[i].payload])
    BY <1>1, <1>4, <1>5
  <2>1. Occupied(from.slots, i) /\ from.slots[i].color # "White"
    BY <1>5
  <2>2. Leads(from, old, from.slots[i].refs, edges[from.slots[i].payload])
    BY <2>1 DEF Follow, EdgesFollow
  <2> QED BY <1>1, <1>7, <2>1, <2>2, SparedNow, LeadsStill
<1>10. OneEach' /\ EdgesKnown' /\ DOMAIN forwarding' = {}
  BY <1>1, <1>2, <1>6, StaysSame, FewerOneEach DEF Follow, EdgesKnown, ScanOnce
<1> QED BY <1>1, <1>8, <1>9, <1>10, CalmFollow

LEMMA MarkSweepFollow ==
  ASSUME Base, Follow, MarkSweepStep, UNCHANGED history PROVE Follow'
<1>1. CASE RetainEntries
  <2>1. /\ Calm /\ Calm' /\ pc' = "mutator"
        /\ UNCHANGED <<from, old, to, globalRoots, forwarding, allocated, rooted, edges>>
    BY <1>1, MutatorCalm
    DEF RetainEntries, Calm, Scavenging, Sweeping, markUnchanged, rootSet, history
  <2> QED BY <2>1, SameRepainted, RepaintFollow
<1> QED BY <1>1, MarkFollow, SweepOldFollow, SweepOnFollow, FreeDeadFollow, SweepNewFollow
        DEF MarkSweepStep

-----------------------------------------------------------------------------
(* Scavenging *)

LEMMA ScavengeBeginFollow ==
  ASSUME Base, Follow, Mutating, ScavengeBegin, UNCHANGED history PROVE Follow'
<1>1. /\ pc' = "evacuate" /\ globalRoots \subseteq todo' /\ forwarding' = <<>>
      /\ worklist' = <<>> /\ current' = NoId
      /\ UNCHANGED <<from, to, old, globalRoots, allocated, rooted, edges>>
  BY DEF ScavengeBegin, ScavengeRoots, spaces, rootSet, history
<1>2. Calm /\ to.slots = <<>>
  BY MutatorCalm DEF Mutating, Base, Room, Calm
<1>3. DOMAIN forwarding' = {} /\ \A j : ~Occupied(to.slots, j)
  BY <1>1, <1>2 DEF Occupied
<1>4. Waiting' = {}
  BY <1>1 DEF Waiting, Elements
<1>5. RootsFollow' /\ EdgesFollow'
  BY <1>1, <1>2, WhenCalm DEF RootsFollow, EdgesFollow
<1>6. CopiesFollow' /\ MapFollows' /\ RootsMoved' /\ SweepSpares'
  BY <1>1, <1>3 DEF CopiesFollow, MapFollows, RootsMoved, SweepSpares, Sweeping
<1>7. ScanOnce'
  BY <1>1, <1>4 DEF ScanOnce, Elements, Scavenging
<1>8. OneEach' /\ EdgesKnown'
  BY <1>1, <1>2, <1>3, WhenCalm DEF OneEach, EdgesKnown, NurseryId, Numbered
<1> QED BY <1>5, <1>6, <1>7, <1>8 DEF Follow

(* An object moves: to ToSpace or to the old space, and out of FromSpace.  *)
LEMMA MovedOneEach ==
  ASSUME OneEach, NEW i0, Occupied(from.slots, i0), NurseryId(i0) \notin DOMAIN forwarding,
         DOMAIN forwarding' = DOMAIN forwarding \cup {NurseryId(i0)}, UNCHANGED <<from, allocated>>,
         NEW k, NEW object, object.payload = from.slots[i0].payload,
         \/ Added(to.slots, to'.slots, k, object) /\ UNCHANGED old
         \/ Added(old.slots, old'.slots, k, object) /\ UNCHANGED to
  PROVE  OneEach'
<1> DEFINE p == object.payload
<1>1. Absent(to.slots, p) /\ Absent(old.slots, p) /\ p \in 1..allocated
  BY DEF OneEach, Numbered
<1>2. \A slots : Numbered(slots)' <=> Numbered(slots)
  BY DEF Numbered
<1>3. ASSUME NEW i, Occupied(from.slots, i), NurseryId(i)' \notin DOMAIN forwarding'
      PROVE  /\ Absent(to.slots, from.slots[i].payload) /\ Absent(old.slots, from.slots[i].payload)
             /\ p # from.slots[i].payload
  <2>1. NurseryId(i) \notin DOMAIN forwarding /\ i # i0
    BY <1>3 DEF NurseryId
  <2> QED BY <1>3, <2>1 DEF OneEach, Distinct
<1>4. CASE Added(to.slots, to'.slots, k, object) /\ UNCHANGED old
  <2>1. Distinct(to'.slots)
    BY <1>1, <1>4, DistinctAdded DEF OneEach
  <2>2. \A j : Occupied(to'.slots, j) => Absent(old.slots, to'.slots[j].payload)
    BY <1>1, <1>4 DEF OneEach, Added
  <2>3. Numbered(to'.slots)
    BY <1>1, <1>4 DEF OneEach, Added, Numbered
  <2>4. \A i : Occupied(from.slots, i) /\ NurseryId(i)' \notin DOMAIN forwarding' =>
          Absent(to'.slots, from.slots[i].payload) /\ Absent(old.slots, from.slots[i].payload)
    BY <1>3, <1>4, AbsentAdded
  <2> QED BY <1>2, <1>4, <2>1, <2>2, <2>3, <2>4 DEF OneEach
<1>5. CASE Added(old.slots, old'.slots, k, object) /\ UNCHANGED to
  <2>1. Distinct(old'.slots)
    BY <1>1, <1>5, DistinctAdded DEF OneEach
  <2>2. \A j : Occupied(to.slots, j) => Absent(old'.slots, to.slots[j].payload)
    <3> SUFFICES ASSUME NEW j, Occupied(to.slots, j) PROVE Absent(old'.slots, to.slots[j].payload)
      OBVIOUS
    <3>1. Absent(old.slots, to.slots[j].payload) /\ p # to.slots[j].payload
      BY <1>1 DEF OneEach, Absent
    <3> QED BY <1>5, <3>1, AbsentAdded
  <2>3. Numbered(old'.slots)
    BY <1>1, <1>5 DEF OneEach, Added, Numbered
  <2>4. \A i : Occupied(from.slots, i) /\ NurseryId(i)' \notin DOMAIN forwarding' =>
          Absent(to.slots, from.slots[i].payload) /\ Absent(old'.slots, from.slots[i].payload)
    BY <1>3, <1>5, AbsentAdded
  <2> QED BY <1>2, <1>5, <2>1, <2>2, <2>3, <2>4 DEF OneEach
<1> QED BY <1>4, <1>5

(* evacuate_object of an id of FromSpace; ids of other spaces are left.    *)
Evacuated(id) ==
  \/ Contains(from, id) /\ Evacuate(id)
  \/ ~Contains(from, id) /\ UNCHANGED <<old, to, forwarding, worklist>>

(* The copy evacuated last: of the object in slot i, under the id d.       *)
CopiedTo(i, d) ==
  /\ d \in HeapId /\ worklist' = Append(worklist, d)
  /\ ~Lies(to, old, d) /\ Lies(to', old', d)
  /\ Occupied(from.slots, i)
  /\ \A j : Occupied(to'.slots, j) =>
       \/ Occupied(to.slots, j) /\ to'.slots[j] = to.slots[j]
       \/ /\ CopyId(j) = d /\ to'.slots[j].payload = from.slots[i].payload
          /\ to'.slots[j].refs = from.slots[i].refs

LEMMA AgedObject ==
  ASSUME NEW id, Victim(id) \in HeapObject
  PROVE  /\ Aged(id) \in HeapObject
         /\ Aged(id).payload = Victim(id).payload /\ Aged(id).refs = Victim(id).refs
<1> DEFINE v == Victim(id)
<1>1. Aged(id) = [v EXCEPT !.age = v.age + 1]
  BY DEF Aged
<1> DEFINE a == v.age + 1
<1> HIDE DEF v
<1>2. a \in Nat
  BY DEF HeapObject, v
<1> HIDE DEF a
<1>3. /\ [v EXCEPT !.age = a] \in HeapObject
      /\ [v EXCEPT !.age = a].payload = v.payload /\ [v EXCEPT !.age = a].refs = v.refs
  BY <1>2 DEF HeapObject, v
<1> QED BY <1>1, <1>3 DEF a, v

LEMMA EvacuatedKeeps ==
  ASSUME Base, Follow, pc \in {"evacuate", "scan"}, NEW id \in HeapId, Evacuated(id),
         UNCHANGED <<from, allocated>>
  PROVE  /\ Stays(to.slots, to'.slots) /\ Stays(old.slots, old'.slots)
         /\ to'.generation = to.generation
         /\ MapFollows' /\ OneEach' /\ DOMAIN forwarding \subseteq DOMAIN forwarding'
         /\ id.space = "New" /\ Lies(from, old, id) =>
              id \in DOMAIN forwarding' /\ forwarding'[id] = Destination(id)
         /\ \/ UNCHANGED <<to, worklist>>
            \/ \E i, d : CopiedTo(i, d)
<1>1. /\ from.slots \in Seq(Slot) /\ SemiSpaceOK(to) /\ OldType(old) /\ FreeOK(old)
      /\ worklist \in Seq(HeapId)
  BY FreeListIsFree DEF Base, Inv, TypeOK, SemiSpaceOK, OldType
<1>2. MapFollows /\ OneEach
  BY DEF Follow
<1>3. Lies(from, old, id) /\ id.space = "New" => Contains(from, id) /\ Victim(id) # NoObject
  BY DEF Lies, InSlotOf, Occupied, Contains, Victim
<1>4. CASE UNCHANGED <<old, to, forwarding, worklist>>
  <2>1. ~(Contains(from, id) /\ Moves(id))
    <3> SUFFICES ASSUME Contains(from, id), Moves(id) PROVE FALSE
      OBVIOUS
    <3>1. worklist' = Append(worklist, Destination(id))
      BY DEF Evacuated, Evacuate
    <3>2. Destination(id) \in HeapId
      BY EvacuateOK DEF Evacuated, Base, Inv
    <3>3. Len(worklist') = Len(worklist) + 1 /\ Len(worklist) \in Nat
      BY <1>1, <3>1, <3>2, AppendProperties
    <3> QED BY <1>4, <3>3
  <2>2. id.space = "New" /\ Lies(from, old, id) =>
          id \in DOMAIN forwarding' /\ forwarding'[id] = Destination(id)
    BY <1>3, <1>4, <2>1 DEF Moves, Destination
  <2>3. MapFollows' /\ OneEach'
    BY <1>2, <1>4 DEF MapFollows, OneEach, NurseryId, Numbered
  <2> QED BY <1>4, <2>2, <2>3, StaysSame
<1>5. CASE Contains(from, id) /\ Evacuate(id) /\ Moves(id)
  <2> DEFINE i0 == id.index
             d == Destination(id)
             object == Aged(id)
  <2>1. /\ i0 \in 1..Len(from.slots) /\ id = NurseryId(i0) /\ id \notin DOMAIN forwarding
        /\ from.slots[i0] # NoObject /\ Victim(id) = from.slots[i0]
        /\ Victim(id) \in HeapObject
    BY <1>1, <1>5, ContainedId DEF Moves, Victim, Slot
  <2>2. /\ object \in HeapObject /\ object.payload = from.slots[i0].payload
        /\ object.refs = from.slots[i0].refs /\ Occupied(from.slots, i0)
    BY <2>1, AgedObject DEF Occupied
  <2>3. /\ worklist' = Append(worklist, d) /\ Forward(id, d)
        /\ d = IF Tenured(id) THEN NextOldId ELSE NextSemiId(to)
        /\ IF Tenured(id) THEN old' = PlaceOld(object) /\ UNCHANGED to
                          ELSE to' = PlaceSemi(to, object) /\ UNCHANGED old
    BY <1>5, <2>1 DEF Evacuate, Destination
  <2>4. d \in HeapId
    BY <1>5, EvacuateOK DEF Base, Inv
  <2> HIDE DEF object, d
  <2>5. /\ DOMAIN forwarding' = DOMAIN forwarding \cup {id} /\ forwarding'[id] = d
        /\ \A x \in DOMAIN forwarding : forwarding'[x] = forwarding[x]
    BY <2>1, <2>3 DEF Forward
  <2>6. /\ to'.generation = to.generation
        /\ Stays(to.slots, to'.slots) /\ Stays(old.slots, old'.slots)
        /\ ~Lies(to, old, d) /\ Lies(to', old', d) /\ What(to', old', d) = object.payload
        /\ OneEach'
        /\ \A j : Occupied(to'.slots, j) =>
             \/ Occupied(to.slots, j) /\ to'.slots[j] = to.slots[j]
             \/ CopyId(j) = d /\ to'.slots[j] = object
    <3>1. CASE Tenured(id)
      <4>1. /\ Added(old.slots, old'.slots, NextOldIndex, object) /\ UNCHANGED to
            /\ d.index = NextOldIndex /\ d.space = "Old"
        BY <1>1, <2>2, <2>3, <3>1, OldAdded
      <4>2. OneEach'
        BY <1>2, <2>1, <2>2, <2>5, <4>1, MovedOneEach
      <4> QED BY <4>1, <4>2, AddedStays, StaysSame DEF Lies, InSlotOf, What, Added
    <3>2. CASE ~Tenured(id)
      <4>1. /\ Added(to.slots, to'.slots, d.index, object) /\ UNCHANGED old
            /\ to'.generation = to.generation /\ d = NextSemiId(to)
        BY <1>1, <2>2, <2>3, <3>2, SemiAdded
      <4>2. d.space = "New" /\ d.generation = to.generation /\ d = CopyId(d.index)
        BY <4>1 DEF NextSemiId, CopyId
      <4>3. OneEach'
        BY <1>2, <2>1, <2>2, <2>5, <4>1, MovedOneEach
      <4>4. ~Lies(to, old, d) /\ Lies(to', old', d) /\ What(to', old', d) = object.payload
        BY <4>1, <4>2 DEF Lies, InSlotOf, What, Added
      <4>5. \A j : Occupied(to'.slots, j) =>
               \/ Occupied(to.slots, j) /\ to'.slots[j] = to.slots[j]
               \/ CopyId(j) = d /\ to'.slots[j] = object
        BY <4>1, <4>2 DEF Added
      <4> QED BY <4>1, <4>3, <4>4, <4>5, AddedStays, StaysSame
    <3> QED BY <3>1, <3>2
  <2>7. MapFollows'
    <3> SUFFICES ASSUME NEW x \in DOMAIN forwarding'
                 PROVE  /\ x.space = "New" /\ Lies(from, old', x) /\ Lies(to', old', forwarding'[x])
                        /\ What(to', old', forwarding'[x]) = What(from, old', x)
      BY DEF MapFollows
    <3>1. CASE x \in DOMAIN forwarding
      <4>1. /\ x.space = "New" /\ Lies(from, old, x) /\ Lies(to, old, forwarding[x])
            /\ What(to, old, forwarding[x]) = What(from, old, x)
        BY <1>2, <3>1 DEF MapFollows
      <4>2. Lies(from, old', x) /\ What(from, old', x) = What(from, old, x)
        BY <4>1 DEF Lies, InSlotOf, What
      <4>3. /\ Lies(to', old', forwarding[x])
            /\ What(to', old', forwarding[x]) = What(to, old, forwarding[x])
        BY <2>6, <4>1, LiesStays
      <4> QED BY <2>5, <3>1, <4>1, <4>2, <4>3
    <3>2. CASE x = id
      <4>1. id.space = "New" /\ Lies(from, old', id) /\ What(from, old', id) = object.payload
        BY <1>5, <2>2 DEF Contains, Lies, InSlotOf, What
      <4> QED BY <2>5, <2>6, <3>2, <4>1
    <3> QED BY <2>5, <3>1, <3>2
  <2>8. CopiedTo(i0, d)
    BY <2>2, <2>3, <2>4, <2>6 DEF CopiedTo
  <2> QED BY <2>5, <2>6, <2>7, <2>8 DEF d
<1> QED BY <1>4, <1>5 DEF Evacuated, Evacuate

(* An occupied slot of ToSpace has the id of its copy. *)
LEMMA CopyIds ==
  ASSUME Inv, NEW j, Occupied(to.slots, j)
  PROVE  /\ CopyId(j) \in HeapId /\ CopyId(j) # NoId /\ Lies(to, old, CopyId(j))
         /\ to.slots[j] \in HeapObject /\ to.slots[j].refs \subseteq HeapId
<1>1. j \in 1..Len(to.slots) /\ to.generation \in Nat /\ to.slots \in Seq(Slot)
  BY DEF Inv, TypeOK, SemiSpaceOK, Occupied
<1>2. to.slots[j] \in HeapObject
  BY <1>1 DEF Occupied, Slot
<1>3. CopyId(j) \in HeapId
  BY <1>1 DEF CopyId, HeapId, Index
<1>4. Lies(to, old, CopyId(j))
  BY DEF CopyId, Lies, InSlotOf
<1> QED BY <1>2, <1>3, <1>4, SlotAssumption DEF HeapObject

LEMMA WaitingIds ==
  ASSUME Inv
  PROVE  /\ worklist \in Seq(HeapId) /\ Elements(worklist) \subseteq HeapId
         /\ Waiting \subseteq HeapId /\ NoId \notin Elements(worklist)
         /\ current \in HeapId \cup {NoId}
<1>1. worklist \in Seq(HeapId) /\ current \in HeapId \cup {NoId}
  BY DEF Inv, TypeOK
<1>2. Elements(worklist) \subseteq HeapId
  BY <1>1, ElementsAt
<1> QED BY <1>1, <1>2, SlotAssumption DEF Waiting

(* Evacuating one more object keeps the promises to the copies. *)
LEMMA EvacuatedCopies ==
  ASSUME Base, Follow, pc \in {"evacuate", "scan"}, pc' = pc, NEW id \in HeapId, Evacuated(id),
         UNCHANGED <<from, allocated, current, edges>>,
         \A j : Occupied(to.slots, j) /\ CopyId(j) = current =>
           HalfScanned(edges[to.slots[j].payload])'
  PROVE  CopiesFollow' /\ ScanOnce'
<1>1. /\ Stays(to.slots, to'.slots) /\ Stays(old.slots, old'.slots) /\ Stays(from.slots, from'.slots)
      /\ to'.generation = to.generation
      /\ UNCHANGED <<to, worklist>> \/ \E i, d : CopiedTo(i, d)
  BY EvacuatedKeeps, StaysSame
<1>2. Inv /\ Scavenging /\ Scavenging' /\ ~Sweeping /\ \A j : CopyId(j)' = CopyId(j)
  BY <1>1 DEF Base, Scavenging, Sweeping, CopyId
<1>3. /\ \A x \in Waiting : Lies(to, old, x)
      /\ \A i, j \in 1..Len(worklist) : worklist[i] = worklist[j] => i = j
      /\ current \notin Elements(worklist)
  BY DEF Follow, ScanOnce
<1>4. \A j : Occupied(to.slots, j) =>
        /\ CopyId(j) \in Elements(worklist) =>
             Leads(from', old', to.slots[j].refs, edges[to.slots[j].payload])
        /\ CopyId(j) \notin Waiting =>
             Leads(to', old', to.slots[j].refs, edges[to.slots[j].payload])
  BY <1>1, <1>2, LeadsStays DEF Follow, CopiesFollow
<1>5. \A x \in Waiting : Lies(to', old', x)
  BY <1>1, <1>3, LiesStays
<1>6. CASE UNCHANGED <<to, worklist>>
  <2>1. Waiting' = Waiting /\ Elements(worklist)' = Elements(worklist)
    BY <1>6 DEF Waiting
  <2>2. CopiesFollow'
    BY <1>2, <1>4, <1>6, <2>1 DEF CopiesFollow
  <2>3. ScanOnce'
    BY <1>2, <1>3, <1>5, <1>6, <2>1 DEF ScanOnce
  <2> QED BY <2>2, <2>3
<1>7. CASE \E i, d : CopiedTo(i, d)
  <2>1. PICK i, d : CopiedTo(i, d)
    BY <1>7
  <2>2. /\ d \in HeapId /\ worklist' = Append(worklist, d) /\ ~Lies(to, old, d)
        /\ Lies(to', old', d) /\ Occupied(from.slots, i)
    BY <2>1 DEF CopiedTo
  <2>3. /\ worklist \in Seq(HeapId) /\ current \in HeapId \cup {NoId}
        /\ NoId \notin Elements(worklist) /\ Elements(worklist) \subseteq HeapId
    BY <1>2, WaitingIds
  <2>4. Elements(worklist') = Elements(worklist) \cup {d}
    BY <2>2, <2>3, PushElements
  <2>5. Waiting' = Waiting \cup {d} /\ d \notin Waiting /\ d # NoId
    BY <1>3, <2>2, <2>3, <2>4, SlotAssumption DEF Waiting
  <2>6. CopiesFollow'
    <3> SUFFICES ASSUME NEW j, Occupied(to'.slots, j)
                 PROVE  /\ CopyId(j) \in Elements(worklist') =>
                             Leads(from', old', to'.slots[j].refs, edges[to'.slots[j].payload])
                        /\ CopyId(j) = current => HalfScanned(edges[to.slots[j].payload])'
                        /\ CopyId(j) \notin Waiting' =>
                             Leads(to', old', to'.slots[j].refs, edges[to'.slots[j].payload])
      BY <1>2 DEF CopiesFollow
    <3>1. CASE Occupied(to.slots, j) /\ to'.slots[j] = to.slots[j]
      <4>1. CopyId(j) # d
        BY <1>2, <2>2, <3>1, CopyIds
      <4> QED BY <1>4, <2>4, <2>5, <3>1, <4>1
    <3>2. CASE CopyId(j) = d /\ to'.slots[j].payload = from.slots[i].payload
               /\ to'.slots[j].refs = from.slots[i].refs
      <4>1. Leads(from, old, from.slots[i].refs, edges[from.slots[i].payload])
        BY <1>2, <2>2 DEF Follow, EdgesFollow
      <4>2. Leads(from', old', from.slots[i].refs, edges[from.slots[i].payload])
        BY <1>1, <4>1, LeadsStays
      <4>3. CopyId(j) # current /\ CopyId(j) \in Waiting'
        BY <2>5, <3>2 DEF Waiting
      <4> QED BY <3>2, <4>2, <4>3
    <3> QED BY <2>1, <3>1, <3>2 DEF CopiedTo
  <2>7. ScanOnce'
    <3>1. \A x \in Waiting' : Lies(to', old', x)
      BY <1>5, <2>2, <2>5
    <3>2. current' \notin Elements(worklist')
      BY <1>3, <2>3, <2>4, <2>5 DEF Waiting
    <3>3. \A k, l \in 1..Len(worklist') : worklist'[k] = worklist'[l] => k = l
      <4>1. /\ Len(worklist') = Len(worklist) + 1 /\ Len(worklist) \in Nat
            /\ \A k \in 1..Len(worklist) : worklist'[k] = worklist[k]
            /\ worklist'[Len(worklist) + 1] = d
        BY <2>2, <2>3, AppendProperties
      <4>2. \A k \in 1..Len(worklist) : worklist[k] # d
        BY <2>3, <2>5, ElementsAt DEF Waiting
      <4> QED BY <1>3, <4>1, <4>2
    <3> QED BY <1>2, <3>1, <3>2, <3>3 DEF ScanOnce
  <2> QED BY <2>6, <2>7
<1> QED BY <1>1, <1>6, <1>7

(* What a step that adds copies keeps of the rest. *)
LEMMA EvacuatedRest ==
  ASSUME Base, Follow, pc \in {"evacuate", "scan"}, pc' = pc, NEW id \in HeapId, Evacuated(id),
         UNCHANGED <<from, globalRoots, allocated, rooted, edges>>
  PROVE  RootsFollow' /\ EdgesFollow' /\ MapFollows' /\ OneEach' /\ EdgesKnown' /\ SweepSpares'
<1>1. Stays(old.slots, old'.slots) /\ Stays(from.slots, from'.slots) /\ MapFollows' /\ OneEach'
  BY EvacuatedKeeps, StaysSame
<1>2. RootsFollow'
  BY <1>1, LeadsStays DEF Follow, RootsFollow
<1>3. EdgesFollow'
  BY <1>1, LeadsStays DEF Follow, EdgesFollow, Sweeping
<1>4. EdgesKnown' /\ SweepSpares'
  BY DEF Follow, EdgesKnown, SweepSpares, Sweeping
<1> QED BY <1>1, <1>2, <1>3, <1>4

LEMMA EvacuateRootFollow ==
  ASSUME Base, Follow, NEW root \in todo, EvacuateRoot(root), UNCHANGED history PROVE Follow'
<1>1. /\ pc = "evacuate" /\ pc' = pc /\ Evacuated(root) /\ todo' = todo \ {root}
      /\ UNCHANGED <<from, globalRoots, allocated, rooted, edges, current>>
  BY DEF EvacuateRoot, Evacuated, scavengeUnchanged, history
<1>2. root \in HeapId /\ current = NoId /\ Inv
  BY <1>1 DEF Base, Inv, TypeOK, Frames
<1>3. RootsFollow' /\ EdgesFollow' /\ MapFollows' /\ OneEach' /\ EdgesKnown' /\ SweepSpares'
  BY <1>1, <1>2, EvacuatedRest
<1>4. CopiesFollow' /\ ScanOnce'
  BY <1>1, <1>2, CopyIds, EvacuatedCopies
<1>5. RootsMoved'
  <2> SUFFICES ASSUME NEW r \in globalRoots, r.space = "New"
               PROVE  r \in todo' \cup DOMAIN forwarding'
    BY <1>1 DEF RootsMoved
  <2>1. r \in todo \cup DOMAIN forwarding /\ Lies(from, old, r)
    BY <1>1 DEF Follow, RootsMoved, RootsFollow, Leads
  <2> QED BY <1>1, <1>2, <2>1, EvacuatedKeeps
<1> QED BY <1>3, <1>4, <1>5 DEF Follow

(* One reference of the object being scanned moves over. *)
LEMMA HalfStep ==
  ASSUME NEW payloads, HalfScanned(payloads), NEW ref \in todo, NEW dest,
         todo' = todo \ {ref}, updated' = updated \cup {dest},
         \A x : Lies(from, old, x) => Lies(from', old', x) /\ What(from', old', x) = What(from, old, x),
         \A x : Lies(to, old, x) => Lies(to', old', x) /\ What(to', old', x) = What(to, old, x),
         Lies(to', old', dest), What(to', old', dest) = What(from, old, ref)
  PROVE  /\ \A r \in todo' : Lies(from', old', r)
         /\ \A r \in updated' : Lies(to', old', r)
         /\ {What(from', old', r) : r \in todo'} \cup {What(to', old', r) : r \in updated'} = payloads
<1>1. /\ \A r \in todo : Lies(from, old, r)
      /\ \A r \in updated : Lies(to, old, r)
      /\ {What(from, old, r) : r \in todo} \cup {What(to, old, r) : r \in updated} = payloads
  BY DEF HalfScanned
<1>2. /\ \A r \in todo' : Lies(from', old', r) /\ What(from', old', r) = What(from, old, r)
      /\ \A r \in updated : Lies(to', old', r) /\ What(to', old', r) = What(to, old, r)
  BY <1>1
<1>3. {What(from', old', r) : r \in todo'} = {What(from, old, r) : r \in todo'}
  BY <1>2
<1>4. {What(to', old', r) : r \in updated'} =
        {What(to, old, r) : r \in updated} \cup {What(from, old, ref)}
  BY <1>2
<1>5. {What(from, old, r) : r \in todo} = {What(from, old, r) : r \in todo'} \cup {What(from, old, ref)}
  OBVIOUS
<1> QED BY <1>1, <1>2, <1>3, <1>4, <1>5

LEMMA ScanReferenceFollow ==
  ASSUME Base, Follow, NEW ref \in todo, ScanReference(ref), UNCHANGED history PROVE Follow'
<1> DEFINE dest == IF Contains(from, ref) THEN Destination(ref) ELSE Forwarded(ref)
<1>1. /\ pc = "scan" /\ pc' = pc /\ Evacuated(ref) /\ todo' = todo \ {ref}
      /\ updated' = updated \cup {dest}
      /\ UNCHANGED <<from, globalRoots, allocated, rooted, edges, current>>
  BY DEF ScanReference, Evacuated, scavengeUnchanged, history
<1>2. ref \in HeapId /\ Inv
  BY <1>1 DEF Base, Inv, TypeOK
<1>3. RootsFollow' /\ EdgesFollow' /\ MapFollows' /\ OneEach' /\ EdgesKnown' /\ SweepSpares'
  BY <1>1, <1>2, EvacuatedRest
<1>4. /\ Stays(to.slots, to'.slots) /\ Stays(old.slots, old'.slots) /\ Stays(from.slots, from'.slots)
      /\ to'.generation = to.generation /\ from'.generation = from.generation
      /\ DOMAIN forwarding \subseteq DOMAIN forwarding'
      /\ ref.space = "New" /\ Lies(from, old, ref) =>
           ref \in DOMAIN forwarding' /\ forwarding'[ref] = Destination(ref)
  BY <1>1, <1>2, EvacuatedKeeps, StaysSame
<1>5. RootsMoved'
  BY <1>1, <1>4 DEF Follow, RootsMoved
<1>6. ASSUME NEW j, Occupied(to.slots, j), CopyId(j) = current
      PROVE  HalfScanned(edges[to.slots[j].payload])'
  <2>1. HalfScanned(edges[to.slots[j].payload]) /\ Lies(from, old, ref)
    BY <1>1, <1>6 DEF Follow, CopiesFollow, Scavenging, HalfScanned
  <2>2. Lies(to', old', dest) /\ What(to', old', dest) = What(from, old, ref)
    <3>1. CASE ref.space = "New"
      <4>1. Contains(from, ref)
        BY <2>1, <3>1 DEF Lies, InSlotOf, Occupied, Contains
      <4>2. ref \in DOMAIN forwarding' /\ dest = forwarding'[ref]
        BY <1>4, <2>1, <3>1, <4>1
      <4>3. Lies(to', old', dest) /\ What(to', old', dest) = What(from', old', ref)
        BY <1>3, <4>2 DEF MapFollows
      <4>4. What(from', old', ref) = What(from, old, ref)
        BY <1>1, <3>1 DEF What
      <4> QED BY <4>3, <4>4
    <3>2. CASE ref.space # "New"
      <4>1. ref \notin DOMAIN forwarding /\ ~Contains(from, ref)
        BY <3>2 DEF Follow, MapFollows, Contains
      <4>2. dest = ref
        BY <4>1 DEF Forwarded
      <4> QED BY <1>4, <2>1, <3>2, <4>2 DEF Lies, InSlotOf, What, Stays
    <3> QED BY <3>1, <3>2
  <2> HIDE DEF dest
  <2>3. /\ \A x : Lies(from, old, x) =>
             Lies(from', old', x) /\ What(from', old', x) = What(from, old, x)
        /\ \A x : Lies(to, old, x) => Lies(to', old', x) /\ What(to', old', x) = What(to, old, x)
    BY <1>4, LiesStays
  <2> DEFINE payloads == edges[to.slots[j].payload]
  <2>4. /\ \A r \in todo' : Lies(from', old', r)
        /\ \A r \in updated' : Lies(to', old', r)
        /\ {What(from', old', r) : r \in todo'} \cup {What(to', old', r) : r \in updated'} = payloads
    <3>1. HalfScanned(payloads)
      BY <2>1
    <3> HIDE DEF payloads
    <3> QED BY <1>1, <2>2, <2>3, <3>1, HalfStep
  <2>5. payloads' = payloads
    <3>1. to'.slots[j].payload = to.slots[j].payload
      BY <1>4, <1>6 DEF Stays
    <3> QED BY <1>1, <3>1
  <2> QED BY <2>4, <2>5 DEF HalfScanned
<1>7. CopiesFollow' /\ ScanOnce'
  BY <1>1, <1>2, <1>6, EvacuatedCopies
<1> QED BY <1>3, <1>5, <1>7 DEF Follow

(* A pop takes an id that waits nowhere else. *)
LEMMA PopOnce ==
  ASSUME NEW S, NEW s \in Seq(S), s # <<>>,
         \A i, j \in 1..Len(s) : s[i] = s[j] => i = j
  PROVE  LET t == SubSeq(s, 1, Len(s) - 1)
         IN /\ s[Len(s)] \notin Elements(t)
            /\ \A i, j \in 1..Len(t) : t[i] = t[j] => i = j
<1> DEFINE t == SubSeq(s, 1, Len(s) - 1)
<1>1. Len(s) \in Nat \ {0} /\ DOMAIN s = 1..Len(s)
  BY EmptySeq
<1>2. t \in Seq(S) /\ Len(t) = Len(s) - 1 /\ \A i \in 1..(Len(s) - 1) : t[i] = s[i]
  <2>1. \A i \in 1..(Len(s) - 1) : s[i] \in S
    BY <1>1
  <2> QED BY <1>1, <2>1, SubSeqProperties
<1> HIDE DEF t
<1>3. \A i, j \in 1..Len(t) : t[i] = t[j] => i = j
  BY <1>1, <1>2
<1>4. s[Len(s)] \notin Elements(t)
  <2> SUFFICES ASSUME NEW i \in 1..Len(t), t[i] = s[Len(s)] PROVE FALSE
    BY <1>2, ElementsAt
  <2> QED BY <1>1, <1>2
<1> QED BY <1>3, <1>4 DEF t

LEMMA ScanNextFollow ==
  ASSUME Base, Follow, ScanNext, UNCHANGED history PROVE Follow'
<1>1. /\ pc = "scan" /\ pc' = "scan" /\ current = NoId /\ worklist # <<>>
      /\ current' = worklist[Len(worklist)]
      /\ worklist' = SubSeq(worklist, 1, Len(worklist) - 1)
      /\ todo' = Copied(current').refs /\ updated' = {}
      /\ UNCHANGED <<from, to, old, globalRoots, forwarding, allocated, rooted, edges>>
  BY DEF ScanNext, spaces, scavengeUnchanged, history
<1>2. /\ worklist \in Seq(HeapId) /\ NoId \notin Elements(worklist) /\ Inv
      /\ \A i, j \in 1..Len(worklist) : worklist[i] = worklist[j] => i = j
      /\ \A x \in Waiting : Lies(to, old, x)
  BY <1>1, WaitingIds DEF Base, Follow, ScanOnce
<1>3. /\ Elements(worklist) = Elements(worklist') \cup {current'}
      /\ current' \notin Elements(worklist')
      /\ \A i, j \in 1..Len(worklist') : worklist'[i] = worklist'[j] => i = j
  BY <1>1, <1>2, PopElements, PopOnce
<1>4. Waiting' = Waiting
  BY <1>1, <1>2, <1>3 DEF Waiting
<1>5. RootsFollow' /\ EdgesFollow' /\ MapFollows' /\ OneEach' /\ EdgesKnown' /\ SweepSpares'
      /\ RootsMoved'
  BY <1>1 DEF Follow, RootsFollow, EdgesFollow, MapFollows, OneEach, EdgesKnown, SweepSpares,
              RootsMoved, Sweeping, NurseryId, Numbered
<1>6. ScanOnce'
  BY <1>1, <1>2, <1>3, <1>4 DEF ScanOnce, Scavenging
<1>7. CopiesFollow'
  <2> SUFFICES ASSUME NEW j, Occupied(to.slots, j)
               PROVE  /\ CopyId(j) \in Elements(worklist') =>
                           Leads(from, old, to.slots[j].refs, edges[to.slots[j].payload])
                      /\ CopyId(j) = current' => HalfScanned(edges[to.slots[j].payload])'
                      /\ CopyId(j) \notin Waiting =>
                           Leads(to, old, to.slots[j].refs, edges[to.slots[j].payload])
    BY <1>1, <1>4 DEF CopiesFollow, CopyId
  <2>1. /\ CopyId(j) \in Elements(worklist) =>
             Leads(from, old, to.slots[j].refs, edges[to.slots[j].payload])
        /\ CopyId(j) \notin Waiting =>
             Leads(to, old, to.slots[j].refs, edges[to.slots[j].payload])
    BY <1>1 DEF Follow, CopiesFollow, Scavenging
  <2>2. ASSUME CopyId(j) = current' PROVE HalfScanned(edges[to.slots[j].payload])'
    <3>1. todo' = to.slots[j].refs
      BY <1>1, <2>2 DEF Copied, CopyId
    <3>2. Leads(from, old, to.slots[j].refs, edges[to.slots[j].payload])
      BY <1>3, <2>1, <2>2
    <3> QED BY <1>1, <3>1, <3>2 DEF HalfScanned, Leads
  <2> QED BY <1>3, <2>1, <2>2
<1> QED BY <1>5, <1>6, <1>7 DEF Follow

(* Steps of a scavenge that only give objects other references. *)
LEMMA RelinkFollow ==
  ASSUME Base, Follow, Scavenging, pc' = pc, Stays(to.slots, to'.slots), Stays(to'.slots, to.slots),
         Stays(old.slots, old'.slots), Stays(old'.slots, old.slots), to'.generation = to.generation,
         UNCHANGED <<from, globalRoots, todo, forwarding, allocated, rooted, edges>>
  PROVE  /\ RootsFollow' /\ EdgesFollow' /\ MapFollows' /\ OneEach' /\ EdgesKnown' /\ SweepSpares'
         /\ RootsMoved'
<1>1. Stays(from.slots, from'.slots) /\ Stays(from'.slots, from.slots) /\ ~Sweeping /\ ~Sweeping'
  BY StaysSame DEF Scavenging, Sweeping
<1>2. RootsFollow'
  <2>1. CASE pc \in {"oldReferences", "flip"}
    BY <2>1, LeadsStays DEF Follow, RootsFollow
  <2>2. CASE pc \notin {"oldReferences", "flip"}
    BY <1>1, <2>2, LeadsStays DEF Follow, RootsFollow
  <2> QED BY <2>1, <2>2
<1>3. EdgesFollow'
  BY <1>1, LeadsStays DEF Follow, EdgesFollow
<1>4. MapFollows'
  <2>1. /\ \A x : Lies(from, old, x) =>
             Lies(from', old', x) /\ What(from', old', x) = What(from, old, x)
        /\ \A x : Lies(to, old, x) => Lies(to', old', x) /\ What(to', old', x) = What(to, old, x)
    BY <1>1, LiesStays
  <2> QED BY <2>1 DEF Follow, MapFollows
<1>5. OneEach'
  BY <1>1, FewerOneEach DEF Follow
<1>6. EdgesKnown' /\ SweepSpares' /\ RootsMoved'
  BY <1>1 DEF Follow, EdgesKnown, SweepSpares, RootsMoved, Scavenging
<1> QED BY <1>2, <1>3, <1>4, <1>5, <1>6

LEMMA ScanStoreFollow ==
  ASSUME Base, Follow, ScanStore, UNCHANGED history PROVE Follow'
<1>1. /\ pc = "scan" /\ pc' = pc /\ current # NoId /\ todo = {} /\ current' = NoId
      /\ UNCHANGED <<from, globalRoots, todo, worklist, updated, forwarding, allocated, rooted, edges>>
  BY DEF ScanStore, scavengeUnchanged, history
<1>2. /\ Inv /\ to.slots \in Seq(Slot) /\ old.slots \in Seq(Slot) /\ updated \in SUBSET HeapId
      /\ current \in HeapId /\ current \in Waiting /\ Scavenging /\ Scavenging'
  BY <1>1 DEF Base, Inv, TypeOK, SemiSpaceOK, Waiting, Scavenging
<1>3. /\ \A x \in Waiting : Lies(to, old, x)
      /\ \A i, j \in 1..Len(worklist) : worklist[i] = worklist[j] => i = j
      /\ current \notin Elements(worklist) /\ NoId \notin Elements(worklist)
  BY <1>1, <1>2, WaitingIds DEF Follow, ScanOnce
<1>4. /\ Stays(to.slots, to'.slots) /\ Stays(to'.slots, to.slots)
      /\ Stays(old.slots, old'.slots) /\ Stays(old'.slots, old.slots)
      /\ to'.generation = to.generation
      /\ \A j : Occupied(to.slots, j) => IF CopyId(j) = current THEN to'.slots[j].refs = updated
                                                              ELSE to'.slots[j] = to.slots[j]
  <2>1. Lies(to, old, current)
    BY <1>2, <1>3
  <2>2. CASE current.space = "New"
    <3>1. UNCHANGED old /\ to'.slots = WithRefs(to.slots, current.index, updated)
          /\ to'.generation = to.generation
      BY <1>2, <2>2 DEF ScanStore, SetToRefs, Inv, TypeOK, SemiSpaceOK
    <3>2. Relinked(to.slots, to'.slots, current.index, updated)
      BY <1>2, <2>1, <2>2, <3>1, RefsRelinked DEF Lies, InSlotOf
    <3>3. \A j : CopyId(j) = current <=> j = current.index
      BY <1>2, <2>1, <2>2 DEF CopyId, Lies, HeapId
    <3> QED BY <3>1, <3>2, <3>3, StaysSame DEF Relinked
  <2>3. CASE current.space = "Old"
    <3>1. UNCHANGED to /\ old'.slots = WithRefs(old.slots, current.index, updated)
      BY <1>2, <2>3 DEF ScanStore, SetOldRefs, Inv, TypeOK
    <3>2. Relinked(old.slots, old'.slots, current.index, updated)
      BY <1>2, <2>1, <2>3, <3>1, RefsRelinked DEF Lies, InSlotOf
    <3>3. \A j : CopyId(j) # current
      BY <2>3 DEF CopyId
    <3> QED BY <3>1, <3>2, <3>3, StaysSame DEF Relinked
  <2> QED BY <1>2, <2>2, <2>3 DEF HeapId
<1>5. RootsFollow' /\ EdgesFollow' /\ MapFollows' /\ OneEach' /\ EdgesKnown' /\ SweepSpares'
      /\ RootsMoved'
  BY <1>1, <1>2, <1>4, RelinkFollow
<1>6. Waiting' = Elements(worklist) /\ Waiting = Elements(worklist) \cup {current}
      /\ Elements(worklist)' = Elements(worklist) /\ \A j : CopyId(j)' = CopyId(j)
  BY <1>1, <1>3, <1>4 DEF Waiting, CopyId
<1>7. ScanOnce'
  <2>1. \A x \in Waiting : Lies(to', old', x)
    BY <1>3, <1>4, LiesStays
  <2> QED BY <1>1, <1>2, <1>3, <1>6, <2>1 DEF ScanOnce
<1>8. CopiesFollow'
  <2> SUFFICES ASSUME NEW j, Occupied(to'.slots, j)
               PROVE  /\ CopyId(j) \in Elements(worklist) =>
                           Leads(from', old', to'.slots[j].refs, edges[to'.slots[j].payload])
                      /\ CopyId(j) # NoId
                      /\ CopyId(j) \notin Elements(worklist) =>
                           Leads(to', old', to'.slots[j].refs, edges[to'.slots[j].payload])
    BY <1>1, <1>6 DEF CopiesFollow
  <2>1. Occupied(to.slots, j) /\ to'.slots[j].payload = to.slots[j].payload /\ CopyId(j) # NoId
    BY <1>2, <1>4, CopyIds DEF Stays
  <2>2. /\ CopyId(j) \in Elements(worklist) =>
             Leads(from, old, to.slots[j].refs, edges[to.slots[j].payload])
        /\ CopyId(j) = current => HalfScanned(edges[to.slots[j].payload])
        /\ CopyId(j) \notin Waiting =>
             Leads(to, old, to.slots[j].refs, edges[to.slots[j].payload])
    BY <1>2, <2>1 DEF Follow, CopiesFollow
  <2>3. Stays(from.slots, from'.slots) /\ from'.generation = from.generation
    BY <1>1, StaysSame
  <2>4. CASE CopyId(j) \in Elements(worklist)
    BY <1>3, <1>4, <2>1, <2>2, <2>3, <2>4, LeadsStays
  <2>5. CASE CopyId(j) = current
    <3> DEFINE payloads == edges[to.slots[j].payload]
    <3>1. Leads(to, old, updated, payloads)
      BY <1>1, <2>2, <2>5 DEF HalfScanned, Leads
    <3> HIDE DEF payloads
    <3>2. Leads(to', old', updated, payloads)
      BY <1>4, <3>1, LeadsStays
    <3> QED BY <1>3, <1>4, <2>1, <2>5, <3>2 DEF payloads
  <2>6. CASE CopyId(j) \notin Waiting
    BY <1>4, <1>6, <2>1, <2>2, <2>6, LeadsStays
  <2> QED BY <1>6, <2>1, <2>4, <2>5, <2>6
<1> QED BY <1>5, <1>7, <1>8 DEF Follow

(* The scavenge moves on to its next phase. *)
LEMMA MoveOnFollow ==
  ASSUME Base, Follow, EvacuateRootsDone \/ ScanDone \/ KeepEntries, UNCHANGED history
  PROVE  Follow'
<1>1. /\ UNCHANGED <<from, to, old, globalRoots, todo, worklist, current, updated, forwarding,
                     cursor, dead, allocated, rooted, edges>>
      /\ \/ pc = "evacuate" /\ pc' = "scan" /\ todo = {}
         \/ pc = "scan" /\ pc' = "handles" /\ current = NoId /\ worklist = <<>>
         \/ pc = "oldReferences" /\ pc' = "flip"
  BY DEF EvacuateRootsDone, ScanDone, KeepEntries, spaces, frame, scavengeUnchanged, history
<1>2. RootsFollow' /\ EdgesFollow' /\ MapFollows' /\ OneEach' /\ EdgesKnown'
  BY <1>1 DEF Follow, RootsFollow, EdgesFollow, MapFollows, OneEach, EdgesKnown, Sweeping,
              NurseryId, Numbered
<1>3. Waiting' = Waiting /\ Elements(worklist)' = Elements(worklist)
  BY <1>1 DEF Waiting
<1>4. CopiesFollow'
  BY <1>1, <1>3 DEF Follow, CopiesFollow, Scavenging, CopyId, HalfScanned
<1>5. pc' = "handles" => Waiting = {}
  BY <1>1 DEF Waiting, Elements
<1>6. ScanOnce'
  BY <1>1, <1>3, <1>5 DEF Follow, ScanOnce, Scavenging
<1>7. RootsMoved' /\ SweepSpares'
  BY <1>1 DEF Follow, RootsMoved, SweepSpares, Sweeping
<1> QED BY <1>2, <1>4, <1>6, <1>7 DEF Follow

LEMMA UpdateHandlesFollow ==
  ASSUME Follow, UpdateHandles, UNCHANGED history PROVE Follow'
  BY SameFollow DEF UpdateHandles, spaces, scavengeUnchanged, history

(* Every root is looked up once, in a map that knows all roots that moved. *)
LEMMA UpdateGlobalRootsFollow ==
  ASSUME Base, Follow, UpdateGlobalRoots, UNCHANGED history PROVE Follow'
<1>1. /\ pc = "handles" /\ pc' = "oldReferences"
      /\ globalRoots' = {Forwarded(root) : root \in globalRoots}
      /\ UNCHANGED <<from, to, old, todo, worklist, current, updated, forwarding, cursor, dead,
                     allocated, rooted, edges>>
  BY DEF UpdateGlobalRoots, spaces, scavengeUnchanged, history
<1>2. \A r \in globalRoots : /\ Lies(to, old, Forwarded(r))
                             /\ What(to, old, Forwarded(r)) = What(from, old, r)
  <2> SUFFICES ASSUME NEW r \in globalRoots
               PROVE  /\ Lies(to, old, Forwarded(r))
                      /\ What(to, old, Forwarded(r)) = What(from, old, r)
    OBVIOUS
  <2>1. Lies(from, old, r)
    BY <1>1 DEF Follow, RootsFollow, Leads
  <2>2. CASE r \in DOMAIN forwarding
    BY <2>2 DEF Follow, MapFollows, Forwarded
  <2>3. CASE r \notin DOMAIN forwarding
    <3>1. r.space # "New"
      BY <1>1, <2>3 DEF Follow, RootsMoved
    <3> QED BY <2>1, <2>3, <3>1 DEF Forwarded, Lies, InSlotOf, What
  <2> QED BY <2>2, <2>3
<1>3. Leads(to, old, globalRoots', rooted)
  <2>1. {What(from, old, r) : r \in globalRoots} = rooted
    BY <1>1 DEF Follow, RootsFollow, Leads
  <2>2. {What(to, old, x) : x \in globalRoots'} = {What(from, old, r) : r \in globalRoots}
    BY <1>1, <1>2
  <2> QED BY <1>1, <1>2, <2>1, <2>2 DEF Leads
<1>4. RootsFollow' /\ RootsMoved' /\ SweepSpares'
  BY <1>1, <1>3 DEF RootsFollow, RootsMoved, SweepSpares, Sweeping
<1>5. EdgesFollow' /\ MapFollows' /\ OneEach' /\ EdgesKnown'
  BY <1>1 DEF Follow, EdgesFollow, MapFollows, OneEach, EdgesKnown, Sweeping, NurseryId, Numbered
<1>6. Waiting' = Waiting /\ Elements(worklist)' = Elements(worklist)
  BY <1>1 DEF Waiting
<1>7. CopiesFollow' /\ ScanOnce'
  BY <1>1, <1>6 DEF Follow, CopiesFollow, ScanOnce, Scavenging, CopyId, HalfScanned
<1> QED BY <1>4, <1>5, <1>7 DEF Follow

LEMMA UpdateOldReferenceFollow ==
  ASSUME Base, Follow, NEW entry \in entries, UpdateOldReference(entry), UNCHANGED history
  PROVE  Follow'
<1>1. /\ pc = "oldReferences" /\ pc' = pc
      /\ UNCHANGED <<from, to, globalRoots, todo, worklist, current, updated, forwarding, cursor,
                     dead, allocated, rooted, edges>>
  BY DEF UpdateOldReference, scavengeUnchanged, history
<1>2. Stays(old.slots, old'.slots) /\ Stays(old'.slots, old.slots)
  <2>1. CASE UNCHANGED old
    BY <2>1, StaysSame
  <2>2. CASE old' # old
    <3> DEFINE i == entry.source.index
               refs == (old.slots[i].refs \ {entry.target}) \cup {forwarding[entry.target]}
    <3>1. Occupied(old.slots, i) /\ entry.target \in DOMAIN forwarding /\ old' = SetOldRefs(i, refs)
      BY <2>2 DEF UpdateOldReference
    <3>2. old.slots \in Seq(Slot) /\ old'.slots = WithRefs(old.slots, i, refs)
      BY <3>1 DEF SetOldRefs, Base, Inv, TypeOK
    <3>3. old.slots[i] \in HeapObject /\ forwarding[entry.target] \in HeapId
      BY <3>1, <3>2 DEF Occupied, Slot, Base, Inv, TypeOK
    <3>4. old.slots[i].refs \in SUBSET HeapId
      BY <3>3 DEF HeapObject
    <3>5. refs \in SUBSET HeapId
      BY <3>3, <3>4
    <3> HIDE DEF refs
    <3> QED BY <3>1, <3>2, <3>5, RefsRelinked DEF Relinked
  <2> QED BY <2>1, <2>2
<1>3. Scavenging /\ Scavenging' /\ Stays(to.slots, to'.slots) /\ Stays(to'.slots, to.slots)
      /\ Waiting' = Waiting /\ Waiting = {}
  BY <1>1, StaysSame DEF Scavenging, Waiting, Follow, ScanOnce
<1>4. /\ RootsFollow' /\ EdgesFollow' /\ MapFollows' /\ OneEach' /\ EdgesKnown' /\ SweepSpares'
      /\ RootsMoved'
  BY <1>1, <1>2, <1>3, RelinkFollow
<1>5. ScanOnce'
  BY <1>1, <1>3 DEF ScanOnce
<1>6. CopiesFollow'
  <2> SUFFICES ASSUME NEW j, Occupied(to.slots, j)
               PROVE  /\ CopyId(j) \notin Elements(worklist) /\ CopyId(j) # current
                      /\ Leads(to', old', to.slots[j].refs, edges[to.slots[j].payload])
    BY <1>1 DEF CopiesFollow, CopyId
  <2>1. CopyId(j) \notin Elements(worklist) /\ CopyId(j) # current
    BY <1>3, CopyIds DEF Waiting, Base
  <2>2. Leads(to, old, to.slots[j].refs, edges[to.slots[j].payload])
    BY <1>3 DEF Follow, CopiesFollow
  <2> QED BY <1>1, <1>2, <1>3, <2>1, <2>2, LeadsStays
<1> QED BY <1>4, <1>5, <1>6 DEF Follow

(* NewSpace::flip: the copies, all scanned, are the nursery now. *)
LEMMA FlipFollow == ASSUME Base, Follow, Flip, UNCHANGED history PROVE Follow'
<1>1. /\ pc = "flip" /\ pc' \in {"mutator", "allocate"} /\ from' = to /\ to'.slots = <<>>
      /\ forwarding' = <<>>
      /\ UNCHANGED <<old, globalRoots, allocated, rooted, edges>>
  BY DEF Flip, ResetSemi, scavengeUnchanged, history
<1>2. Calm' /\ DOMAIN forwarding' = {} /\ Scavenging /\ Waiting = {} /\ Inv
  BY <1>1 DEF Calm, Scavenging, Sweeping, Follow, ScanOnce, Base
<1>3. Leads(from', old', globalRoots', rooted')
  BY <1>1 DEF Follow, RootsFollow
<1>4. \A i : Occupied(from'.slots, i) =>
        Leads(from', old', from'.slots[i].refs, edges'[from'.slots[i].payload])
  BY <1>1, <1>2 DEF Follow, CopiesFollow
<1>5. OneEach'
  <2>1. \A j : ~Occupied(to'.slots, j)
    BY <1>1 DEF Occupied
  <2> QED BY <1>1, <2>1 DEF Follow, OneEach, Distinct, Absent, Numbered
<1>6. EdgesKnown'
  BY <1>1 DEF Follow, EdgesKnown
<1> QED BY <1>1, <1>2, <1>3, <1>4, <1>5, <1>6, CalmFollow

LEMMA ScavengeFollow ==
  ASSUME Base, Follow, ScavengeStep, UNCHANGED history PROVE Follow'
  BY EvacuateRootFollow, ScanReferenceFollow, UpdateOldReferenceFollow, ScanNextFollow,
     ScanStoreFollow, MoveOnFollow, UpdateHandlesFollow, UpdateGlobalRootsFollow, FlipFollow
  DEF ScavengeStep

-----------------------------------------------------------------------------
(* The theorems *)

LEMMA InitFollow == Init => Follow
<1> SUFFICES ASSUME Init PROVE Follow
  OBVIOUS
<1>1. \A i : ~Occupied(<<>>, i)
  BY DEF Occupied
<1>2. ~Scavenging /\ ~Sweeping /\ DOMAIN forwarding = {} /\ pc = "mutator"
  BY DEF Init, Scavenging, Sweeping
<1>3. RootsFollow
  BY <1>2, LeadsNone DEF Init, RootsFollow
<1>4. EdgesFollow /\ OneEach
  BY <1>1 DEF Init, EdgesFollow, OneEach, Distinct, Numbered
<1>5. EdgesKnown
  BY DEF Init, EdgesKnown
<1> QED BY <1>2, <1>3, <1>4, <1>5
        DEF Follow, CopiesFollow, MapFollows, ScanOnce, RootsMoved, SweepSpares

LEMMA ClientFollow == ASSUME Base, Base', Follow, Client PROVE Follow'
<1>1. CASE Allocate \/ AllocateOld
  BY <1>1, AllocateFollow
<1>2. CASE AllocateWhenFull \/ CollectScavenge
  BY <1>2, ScavengeBeginFollow DEF AllocateWhenFull, CollectScavenge
<1>3. CASE \E source, target \in Held : WriteBarrier(source, target) \/ DropReference(source, target)
  BY <1>3, WriteFollow
<1>4. CASE \E id \in Held : AddGlobalRoot(id) \/ RemoveGlobalRoot(id)
  BY <1>4, GlobalRootFollow
<1>5. CASE (\E id \in Held : CreateHandle(id)) \/ OpenHandleScope \/ CloseHandleScope
  BY <1>5, SameFollow
  DEF CreateHandle, OpenHandleScope, CloseHandleScope, spaces, frame, history
<1>6. CASE CollectMarkSweep \/ CollectConcurrent
  BY <1>6, MarkBeginFollow DEF CollectMarkSweep, CollectConcurrent
<1> QED BY <1>1, <1>2, <1>3, <1>4, <1>5, <1>6 DEF Client

(* Clients and collectors keep these promises in any interleaving. *)
THEOREM FollowInvariance == Spec => [](Base /\ Follow)
<1>1. Init => Base /\ Follow
  BY InitInv, RoomInit, InitFollow DEF Base, Init, Tricolor, Marking
<1>2. Inv /\ Inv' /\ Room /\ Tricolor /\ [Next]_vars => Room' /\ Tricolor'
  BY RoomClient, RoomScavenge, RoomCollector, MarkSweepTricolor, OtherTricolor DEF Next, Collector
<1>3. Base /\ Base' /\ Follow /\ [Next]_vars => Follow'
  <2> SUFFICES ASSUME Base, Base', Follow, [Next]_vars PROVE Follow'
    OBVIOUS
  <2>1. CASE Client
    BY <2>1, ClientFollow
  <2>2. CASE Collector
    BY <2>2, ScavengeFollow, MarkSweepFollow, AllocateFollow DEF Collector
  <2>3. CASE UNCHANGED vars
    BY <2>3, SameFollow DEF vars, spaces, rootSet, frame, history
  <2> QED BY <2>1, <2>2, <2>3 DEF Next
<1>4. Inv /\ Room /\ Tricolor <=> Base
  BY DEF Base
<1> QED BY <1>1, <1>2, <1>3, <1>4, Invariance, PTL DEF Spec

(* Heap::add_global_root keeps its word: between collections every global  *)
(* root names the very object that was rooted, through any number of       *)
(* copies, promotions and sweeps, although ids of both semi-spaces may     *)
(* carry the same generation.                                              *)
THEOREM GlobalRootsCorrect == Spec => []GlobalRootsFollow
<1>1. Base /\ Follow => GlobalRootsFollow
  <2> SUFFICES ASSUME Base, Follow, Mutating
               PROVE  /\ \A id \in globalRoots : Resolves(id)
                      /\ {PayloadOf(id) : id \in globalRoots} = rooted
    BY DEF GlobalRootsFollow
  <2>1. Leads(from, old, globalRoots, rooted) /\ globalRoots \subseteq HeapId
    BY MutatorCalm, WhenCalm DEF Mutating, Base, Inv, TypeOK
  <2>2. \A id \in HeapId : Lies(from, old, id) =>
          Resolves(id) /\ PayloadOf(id) = What(from, old, id)
    BY DEF Lies, InSlotOf, What, Occupied, Resolves, InBounds, SlotOf, PayloadOf, HeapId
  <2> QED BY <2>1, <2>2 DEF Leads
<1> QED BY <1>1, FollowInvariance, PTL

(* The Cheney scan updates each reference of a nursery object once and a   *)
(* sweep frees nothing a survivor refers to: between collections its       *)
(* references lead to exactly the objects it was made to refer to.         *)
THEOREM NurseryEdgesCorrect == Spec => []NurseryEdgesIntact
<1>1. Base /\ Follow => NurseryEdgesIntact
  <2> SUFFICES ASSUME Base, Follow, Mutating, NEW i \in DOMAIN from.slots,
                      from.slots[i] # NoObject
               PROVE  /\ \A r \in from.slots[i].refs : Resolves(r)
                      /\ {PayloadOf(r) : r \in from.slots[i].refs} = edges[from.slots[i].payload]
    BY DEF NurseryEdgesIntact
  <2>1. Occupied(from.slots, i)
    BY DEF Base, Inv, TypeOK, SemiSpaceOK, Occupied
  <2>2. /\ Leads(from, old, from.slots[i].refs, edges[from.slots[i].payload])
        /\ from.slots[i].refs \subseteq HeapId
    BY <2>1, MutatorCalm, WhenCalm, NurseryObject DEF Mutating, Base
  <2>3. \A id \in HeapId : Lies(from, old, id) =>
          Resolves(id) /\ PayloadOf(id) = What(from, old, id)
    BY DEF Lies, InSlotOf, What, Occupied, Resolves, InBounds, SlotOf, PayloadOf, HeapId
  <2> QED BY <2>2, <2>3 DEF Leads
<1> QED BY <1>1, FollowInvariance, PTL
=============================================================================
