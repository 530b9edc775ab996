----------------------------- MODULE HeapProofs -----------------------------
(***************************************************************************)
(* Type correctness of the heap, the integrity of the free list, the room  *)
(* in the to-space and what a marking reaches, for every size of the       *)
(* semi-spaces, tenuring threshold and number of objects and collections.  *)
(***************************************************************************)
EXTENDS Heap, SequenceTheorems, FiniteSetTheorems, TLAPS

(* The ids a collection still has to dereference, those on its worklist and *)
(* the one it is at, name occupied slots: copies in the to-space or the old *)
(* space while it scavenges, objects of either space while it marks.        *)
InSlotOf(semi, space, id) ==
  Occupied(IF id.space = "New" THEN semi.slots ELSE space.slots, id.index)
InSlot(id) == InSlotOf(to, old, id)
Waiting == (Elements(worklist) \cup {current}) \ {NoId}

Frames ==
  /\ pc \in {"evacuate", "scan"} => \A id \in Waiting : InSlot(id)
  /\ Marking => \A id \in Waiting : Found(id)
  /\ pc = "evacuate" => current = NoId

Phases ==
  /\ pairs # {} => pc = "handles"
  /\ pending => /\ allocated < MaxObjects
                /\ pc \in {"evacuate", "scan", "handles", "oldReferences", "flip", "allocate"}
  /\ pc = "allocate" => pending
  /\ pc = "join" => \A i \in dead : i >= cursor => old.slots[i] # NoObject

(* The scopes still open start within the handles, the outer ones first. *)
ScopesNested ==
  /\ \A i \in 1..Len(scopeMarks) : scopeMarks[i] <= Len(handles)
  /\ \A i, j \in 1..Len(scopeMarks) : i <= j => scopeMarks[i] <= scopeMarks[j]

(* TypeOK is not inductive alone: a scan reads the slot of an id it pops    *)
(* from the worklist, and placing an object takes a slot off the free list. *)
Inv == TypeOK /\ FreeListOK /\ ScopesNested /\ Frames /\ Phases

-----------------------------------------------------------------------------
(* Slots and sequences of slots *)

(* Painting an object neither creates nor destroys it. *)
LEMMA PaintSlot ==
  ASSUME NEW object \in Slot, NEW color \in Colors
  PROVE  /\ Paint(object, color) \in Slot
         /\ Paint(object, color) = NoObject <=> object = NoObject
  BY SlotAssumption DEF Paint, Slot, HeapObject

(* So does repainting every slot of a space. *)
LEMMA ResetSlots ==
  ASSUME NEW slots \in Seq(Slot)
  PROVE  /\ ResetColors(slots) \in Seq(Slot)
         /\ Len(ResetColors(slots)) = Len(slots)
         /\ \A i \in 1..Len(slots) : ResetColors(slots)[i] = NoObject <=> slots[i] = NoObject
<1>1. \A i \in 1..Len(slots) : slots[i] \in Slot
  OBVIOUS
<1>2. \A i \in 1..Len(slots) : Paint(slots[i], "White") \in Slot
  BY <1>1, PaintSlot DEF Colors
<1>3. ResetColors(slots) = [i \in 1..Len(slots) |-> Paint(slots[i], "White")]
  BY DEF ResetColors
<1>4. ResetColors(slots) \in Seq(Slot) /\ Len(ResetColors(slots)) = Len(slots)
  BY <1>2, <1>3
<1> QED BY <1>1, <1>3, <1>4, PaintSlot DEF Colors

(* Overwriting one slot. *)
LEMMA SetSlot ==
  ASSUME NEW slots \in Seq(Slot), NEW i \in 1..Len(slots), NEW object \in Slot
  PROVE  /\ [slots EXCEPT ![i] = object] \in Seq(Slot)
         /\ Len([slots EXCEPT ![i] = object]) = Len(slots)
         /\ \A j \in 1..Len(slots) :
              [slots EXCEPT ![i] = object][j] = IF j = i THEN object ELSE slots[j]
  BY ExceptSeq

(* Giving the object of a slot other references. *)
LEMMA SlotRefs ==
  ASSUME NEW slots \in Seq(Slot), NEW i \in 1..Len(slots), slots[i] # NoObject,
         NEW refs \in SUBSET HeapId
  PROVE  /\ WithRefs(slots, i, refs) \in Seq(Slot)
         /\ Len(WithRefs(slots, i, refs)) = Len(slots)
         /\ \A j \in 1..Len(slots) :
              WithRefs(slots, i, refs)[j] = NoObject <=> slots[j] = NoObject
<1>1. slots[i] \in HeapObject
  BY DEF Slot
<1>2. [slots[i] EXCEPT !.refs = refs] \in HeapObject
  BY <1>1 DEF HeapObject
<1>3. [slots[i] EXCEPT !.refs = refs] # NoObject
  BY <1>2, SlotAssumption
<1>4. [slots[i] EXCEPT !.refs = refs] \in Slot
  BY <1>2 DEF Slot
<1> DEFINE object == [slots[i] EXCEPT !.refs = refs]
<1>5. WithRefs(slots, i, refs) = [slots EXCEPT ![i] = object]
  BY DEF WithRefs
<1> HIDE DEF object
<1>6. object \in Slot /\ object # NoObject
  BY <1>3, <1>4 DEF object
<1> QED BY <1>5, <1>6, SetSlot

(* A new object, as allocation makes it. *)
LEMMA NewObjectSlot ==
  ASSUME NEW p \in Payloads
  PROVE  NewObject(p) \in HeapObject /\ NewObject(p) \in Slot /\ NewObject(p) # NoObject
  BY SlotAssumption DEF NewObject, HeapObject, Colors, Slot

(* An object keeps its slot when the slots grow. *)
LEMMA KeptSlots ==
  ASSUME NEW s, NEW t, Len(s) \in Nat, Len(t) = Len(s) + 1,
         \A i \in 1..Len(s) : t[i] = s[i]
  PROVE  \A i : Occupied(s, i) => Occupied(t, i)
  BY DEF Occupied

(* Changing the slots of a semi-space, as a record. *)
LEMMA SemiRecord ==
  ASSUME NEW A, NEW B, NEW semi \in [slots : A, generation : B], NEW slots
  PROVE  [semi EXCEPT !.slots = slots] = [slots |-> slots, generation |-> semi.generation]
  OBVIOUS

(* Appending an object to a semi-space with room. *)
LEMMA PlaceSemiOK ==
  ASSUME NEW semi, SemiSpaceOK(semi), ~IsFull(semi), NEW object \in HeapObject
  PROVE  /\ SemiSpaceOK(PlaceSemi(semi, object))
         /\ NextSemiId(semi) \in HeapId
         /\ PlaceSemi(semi, object).generation = semi.generation
         /\ Len(PlaceSemi(semi, object).slots) = Len(semi.slots) + 1
         /\ \A i \in 1..Len(semi.slots) : PlaceSemi(semi, object).slots[i] = semi.slots[i]
         /\ Occupied(PlaceSemi(semi, object).slots, NextSemiId(semi).index)
<1>1. object \in Slot /\ object # NoObject
  BY SlotAssumption DEF Slot
<1>2. semi.slots \in Seq(Slot) /\ semi.generation \in Nat /\ Len(semi.slots) \in Nat
  BY DEF SemiSpaceOK
<1>3. PlaceSemi(semi, object) = [slots |-> Append(semi.slots, object), generation |-> semi.generation]
  BY SemiRecord DEF SemiSpaceOK, PlaceSemi
<1>4. /\ Append(semi.slots, object) \in Seq(Slot)
      /\ Len(Append(semi.slots, object)) = Len(semi.slots) + 1
      /\ \A i \in 1..Len(semi.slots) : Append(semi.slots, object)[i] = semi.slots[i]
      /\ Append(semi.slots, object)[Len(semi.slots) + 1] = object
  BY <1>1, <1>2, AppendProperties
<1>5. Len(semi.slots) + 1 <= Capacity
  BY <1>2, HeapAssumption DEF IsFull
<1> QED BY <1>1, <1>2, <1>3, <1>4, <1>5 DEF SemiSpaceOK, NextSemiId, HeapId, Index, Occupied

-----------------------------------------------------------------------------
(* The old space and its free list *)

OldType(space) == space \in [slots : Seq(Slot), freeList : Seq(Index)]

FreeOK(space) ==
  /\ \A i \in DOMAIN space.slots : space.slots[i] = NoObject <=> i \in Elements(space.freeList)
  /\ Elements(space.freeList) \subseteq DOMAIN space.slots
  /\ \A i, j \in DOMAIN space.freeList : space.freeList[i] = space.freeList[j] => i = j

(* The same slots are occupied in both. *)
SameSlots(s, t) ==
  /\ Len(s) = Len(t)
  /\ \A i \in 1..Len(t) : s[i] = NoObject <=> t[i] = NoObject

(* The elements of a sequence are those at its positions. *)
LEMMA ElementsAt ==
  ASSUME NEW S, NEW s \in Seq(S)
  PROVE  /\ DOMAIN s = 1..Len(s) /\ Len(s) \in Nat
         /\ \A x : x \in Elements(s) <=> \E i \in 1..Len(s) : s[i] = x
  BY DEF Elements

(* Repainting or relinking objects leaves the free list right. *)
LEMMA FreeSame ==
  ASSUME NEW s, NEW t, OldType(s), OldType(t), FreeOK(t),
         SameSlots(s.slots, t.slots), s.freeList = t.freeList
  PROVE  FreeOK(s)
<1>1. DOMAIN s.slots = 1..Len(s.slots) /\ DOMAIN t.slots = 1..Len(t.slots)
  BY DEF OldType
<1>2. DOMAIN s.slots = DOMAIN t.slots
  BY <1>1 DEF SameSlots
<1>3. \A i \in DOMAIN s.slots : s.slots[i] = NoObject <=> t.slots[i] = NoObject
  BY <1>1 DEF SameSlots
<1>4. Elements(s.freeList) = Elements(t.freeList) /\ DOMAIN s.freeList = DOMAIN t.freeList
  OBVIOUS
<1> HIDE DEF Elements
<1> QED BY <1>2, <1>3, <1>4 DEF FreeOK

(* OldSpace::free of an occupied slot. *)
LEMMA FreeSlot ==
  ASSUME NEW i \in DOMAIN old.slots, OldType(old), FreeOK(old), old.slots[i] # NoObject,
         Free(i)
  PROVE  /\ OldType(old') /\ FreeOK(old')
         /\ Len(old'.slots) = Len(old.slots)
         /\ \A j \in DOMAIN old.slots : j # i => old'.slots[j] = old.slots[j]
<1>1. old.slots \in Seq(Slot) /\ old.freeList \in Seq(Index) /\ i \in 1..Len(old.slots)
  BY DEF OldType
<1>2. NoObject \in Slot /\ i \in Index
  BY <1>1 DEF Slot, Index
<1>3. /\ old'.slots = [old.slots EXCEPT ![i] = NoObject]
      /\ old'.freeList = Append(old.freeList, i)
      /\ old' = [slots |-> old'.slots, freeList |-> old'.freeList]
  BY DEF Free
<1>4. /\ old'.slots \in Seq(Slot) /\ Len(old'.slots) = Len(old.slots)
      /\ \A j \in 1..Len(old.slots) : old'.slots[j] = IF j = i THEN NoObject ELSE old.slots[j]
  BY <1>1, <1>2, <1>3, SetSlot
<1>5. /\ old'.freeList \in Seq(Index)
      /\ Len(old'.freeList) = Len(old.freeList) + 1
      /\ \A k \in 1..Len(old.freeList) : old'.freeList[k] = old.freeList[k]
      /\ old'.freeList[Len(old.freeList) + 1] = i
  BY <1>1, <1>2, <1>3, AppendProperties
<1>6. OldType(old')
  BY <1>3, <1>4, <1>5 DEF OldType
<1> DEFINE n == Len(old.freeList)
           list == old'.freeList
<1> HIDE DEF list
<1>5a. /\ list \in Seq(Index) /\ n \in Nat /\ Len(list) = n + 1 /\ DOMAIN list = 1..(n + 1)
       /\ \A k \in 1..n : list[k] = old.freeList[k]
       /\ list[n + 1] = i
  BY <1>1, <1>5 DEF list
<1>7. Elements(list) = Elements(old.freeList) \cup {i}
  <2>1. \A x : x \in Elements(list) <=> \E k \in 1..(n + 1) : list[k] = x
    BY <1>5a, ElementsAt
  <2>2. \A x : x \in Elements(old.freeList) <=> \E k \in 1..n : old.freeList[k] = x
    BY <1>1, ElementsAt
  <2> QED BY <1>5a, <2>1, <2>2
<1>8. i \notin Elements(old.freeList)
  BY DEF FreeOK
<1>9. \A j, k \in DOMAIN list : list[j] = list[k] => j = k
  <2>1. \A k \in 1..n : old.freeList[k] # i
    BY <1>1, <1>8, ElementsAt
  <2>2. \A j, k \in 1..n : old.freeList[j] = old.freeList[k] => j = k
    BY <1>1, ElementsAt DEF FreeOK
  <2> QED BY <1>5a, <2>1, <2>2
<1>10. FreeOK(old')
  <2>1. DOMAIN old'.slots = 1..Len(old.slots) /\ DOMAIN old.slots = 1..Len(old.slots)
    BY <1>1, <1>4
  <2>2. \A j \in DOMAIN old'.slots : old'.slots[j] = NoObject <=> j \in Elements(list)
    BY <1>4, <1>7, <2>1 DEF FreeOK
  <2>3. Elements(list) \subseteq DOMAIN old'.slots
    BY <1>7, <2>1 DEF FreeOK
  <2> QED BY <1>9, <2>2, <2>3 DEF FreeOK, list
<1> QED BY <1>1, <1>4, <1>6, <1>10

(* OldSpace::allocate and place: the slot taken was empty, no other changes. *)
LEMMA PlaceOldOK ==
  ASSUME OldType(old), FreeOK(old), NEW object \in HeapObject
  PROVE  /\ OldType(PlaceOld(object)) /\ FreeOK(PlaceOld(object))
         /\ NextOldId \in HeapId
         /\ Occupied(PlaceOld(object).slots, NextOldId.index)
         /\ Len(PlaceOld(object).slots) >= Len(old.slots)
         /\ \A i \in DOMAIN old.slots :
              old.slots[i] # NoObject => PlaceOld(object).slots[i] = old.slots[i]
<1>1. object \in Slot /\ object # NoObject
  BY SlotAssumption DEF Slot
<1>2. old.slots \in Seq(Slot) /\ old.freeList \in Seq(Index)
      /\ old = [slots |-> old.slots, freeList |-> old.freeList]
  BY DEF OldType
<1> DEFINE n == Len(old.freeList)
           space == PlaceOld(object)
<1>3. CASE old.freeList = <<>>
  <2>1. space = [slots |-> Append(old.slots, object), freeList |-> old.freeList]
    BY <1>2, <1>3 DEF PlaceOld
  <2>2. /\ space.slots \in Seq(Slot)
        /\ Len(space.slots) = Len(old.slots) + 1
        /\ \A i \in 1..Len(old.slots) : space.slots[i] = old.slots[i]
        /\ space.slots[Len(old.slots) + 1] = object
    BY <1>1, <1>2, <2>1, AppendProperties
  <2>3. NextOldId.index = Len(old.slots) + 1 /\ NextOldId \in HeapId
    BY <1>2, <1>3 DEF NextOldId, NextOldIndex, HeapId, Index, OldGeneration
  <2>4. OldType(space)
    BY <1>2, <2>1, <2>2 DEF OldType
  <2>5. FreeOK(space)
    BY <1>1, <1>2, <1>3, <2>1, <2>2 DEF FreeOK, Elements
  <2>6. Occupied(space.slots, NextOldId.index) /\ Len(space.slots) >= Len(old.slots)
    BY <1>1, <1>2, <2>2, <2>3 DEF Occupied
  <2> HIDE DEF space
  <2> QED BY <1>2, <2>2, <2>3, <2>4, <2>5, <2>6 DEF space
<1>4. CASE old.freeList # <<>>
  <2>1. n \in Nat \ {0} /\ NextOldIndex = old.freeList[n] /\ DOMAIN old.freeList = 1..n
    BY <1>2, <1>4, EmptySeq DEF NextOldIndex
  <2>2. NextOldIndex \in 1..Len(old.slots) /\ old.slots[NextOldIndex] = NoObject
    <3>1. NextOldIndex \in Elements(old.freeList)
      BY <1>2, <2>1, ElementsAt
    <3>2. DOMAIN old.slots = 1..Len(old.slots)
      BY <1>2
    <3> QED BY <3>1, <3>2 DEF FreeOK
  <2>3. space = [slots |-> [old.slots EXCEPT ![NextOldIndex] = object],
                 freeList |-> SubSeq(old.freeList, 1, n - 1)]
    BY <1>4 DEF PlaceOld
  <2>4. /\ space.slots \in Seq(Slot)
        /\ Len(space.slots) = Len(old.slots)
        /\ \A i \in 1..Len(old.slots) :
             space.slots[i] = IF i = NextOldIndex THEN object ELSE old.slots[i]
    BY <1>1, <1>2, <2>2, <2>3, SetSlot
  <2>5. /\ space.freeList \in Seq(Index)
        /\ Len(space.freeList) = n - 1
        /\ \A i \in 1..(n - 1) : space.freeList[i] = old.freeList[i]
    <3>1. \A i \in 1..(n - 1) : old.freeList[i] \in Index
      BY <1>2, <2>1
    <3> QED BY <2>1, <2>3, <3>1, SubSeqProperties
  <2>6. OldType(space)
    BY <2>3, <2>4, <2>5 DEF OldType
  <2>7. DOMAIN space.freeList = 1..(n - 1) /\ DOMAIN space.slots = DOMAIN old.slots
    BY <1>2, <2>1, <2>4, <2>5
  <2>8. Elements(space.freeList) = Elements(old.freeList) \ {NextOldIndex}
    <3>1. \A x : x \in Elements(space.freeList) <=> \E i \in 1..(n - 1) : space.freeList[i] = x
      BY <2>1, <2>5, ElementsAt
    <3>2. \A x : x \in Elements(old.freeList) <=> \E i \in 1..n : old.freeList[i] = x
      BY <1>2, ElementsAt
    <3>3. \A i, j \in 1..n : old.freeList[i] = old.freeList[j] => i = j
      BY <2>1 DEF FreeOK
    <3>4. \A x : x \in Elements(old.freeList) /\ x # NextOldIndex
                 => x \in Elements(space.freeList)
      <4> SUFFICES ASSUME NEW x \in Elements(old.freeList), x # NextOldIndex
                   PROVE  x \in Elements(space.freeList)
        OBVIOUS
      <4>1. PICK i \in 1..n : old.freeList[i] = x
        BY <3>2
      <4>2. i \in 1..(n - 1)
        BY <2>1, <4>1
      <4> QED BY <2>5, <3>1, <4>1, <4>2
    <3>5. \A x : x \in Elements(space.freeList)
                 => x \in Elements(old.freeList) /\ x # NextOldIndex
      <4> SUFFICES ASSUME NEW x \in Elements(space.freeList)
                   PROVE  x \in Elements(old.freeList) /\ x # NextOldIndex
        OBVIOUS
      <4>1. PICK i \in 1..(n - 1) : space.freeList[i] = x
        BY <3>1
      <4>2. i \in 1..n /\ i # n /\ n \in 1..n /\ old.freeList[i] = x
        BY <2>1, <2>5, <4>1
      <4> QED BY <2>1, <3>2, <3>3, <4>2
    <3> QED BY <3>4, <3>5
  <2>9. FreeOK(space)
    <3>1. \A i \in DOMAIN space.slots :
            space.slots[i] = NoObject <=> i \in Elements(space.freeList)
      BY <1>1, <1>2, <2>2, <2>4, <2>7, <2>8 DEF FreeOK
    <3>2. Elements(space.freeList) \subseteq DOMAIN space.slots
      BY <2>7, <2>8 DEF FreeOK
    <3>3. \A i, j \in DOMAIN space.freeList : space.freeList[i] = space.freeList[j] => i = j
      BY <2>1, <2>5, <2>7 DEF FreeOK
    <3> QED BY <3>1, <3>2, <3>3 DEF FreeOK
  <2>10. NextOldId \in HeapId /\ NextOldId.index = NextOldIndex
    BY <1>2, <2>2 DEF NextOldId, HeapId, Index, OldGeneration
  <2>11. Occupied(space.slots, NextOldId.index)
    BY <1>1, <1>2, <2>2, <2>4, <2>10 DEF Occupied
  <2> HIDE DEF space
  <2> QED BY <1>2, <2>2, <2>4, <2>6, <2>9, <2>10, <2>11 DEF space
<1> QED BY <1>3, <1>4

-----------------------------------------------------------------------------
(* The operations of clients *)

(* FreeListOK is FreeOK of the old space. *)
LEMMA FreeListIsFree == FreeListOK <=> FreeOK(old)
  BY DEF FreeListOK, FreeOK

(* What the frame holds and the control state allow between collections. *)
LEMMA IdleFrame ==
  ASSUME Inv, pc' = "mutator", pending' = FALSE, UNCHANGED pairs, pairs = {}
  PROVE  Frames' /\ Phases'
  BY DEF Frames, Phases, Marking

LEMMA IdlePairs ==
  ASSUME Inv, Mutating
  PROVE  pairs = {} /\ pending = FALSE
  BY DEF Inv, TypeOK, Phases, Mutating

(* Scopes stay nested when they and the handles do not change. *)
LEMMA SameScopes ==
  ASSUME Inv, UNCHANGED <<scopeMarks, handles>>
  PROVE  ScopesNested'
  BY DEF Inv, ScopesNested

LEMMA AllocateInv == ASSUME Inv, Allocate PROVE Inv'
<1>1. allocated' \in Payloads /\ allocated' \in 0..MaxObjects
  BY HeapAssumption DEF Allocate, Inv, TypeOK, Payloads
<1>2. SemiSpaceOK(from') /\ local' \in HeapId
  BY <1>1, NewObjectSlot, PlaceSemiOK DEF Allocate, Inv, TypeOK
<1>3. TypeOK'
  BY <1>1, <1>2 DEF Allocate, Inv, TypeOK, frame, rootSet, SemiSpaceOK
<1>4. FreeListOK'
  BY DEF Allocate, Inv, FreeListOK
<1>5. Frames' /\ Phases'
  BY IdlePairs, IdleFrame DEF Allocate, Mutating, frame
<1> QED BY <1>3, <1>4, <1>5, SameScopes DEF Inv, Allocate, rootSet

LEMMA AllocateOldInv == ASSUME Inv, AllocateOld PROVE Inv'
<1>1. allocated' \in Payloads /\ allocated' \in 0..MaxObjects
  BY HeapAssumption DEF AllocateOld, Inv, TypeOK, Payloads
<1>2. /\ OldType(old') /\ FreeOK(old') /\ local' \in HeapId
      /\ Len(old'.slots) >= Len(old.slots)
  BY <1>1, NewObjectSlot, PlaceOldOK, FreeListIsFree DEF AllocateOld, Inv, TypeOK, OldType
<1>3. dead \subseteq DOMAIN old'.slots
  BY <1>2 DEF Inv, TypeOK, OldType
<1>4. TypeOK'
  BY <1>1, <1>2, <1>3 DEF AllocateOld, Inv, TypeOK, frame, rootSet, SemiSpaceOK, OldType
<1>5. FreeListOK'
  BY <1>2 DEF FreeListOK, FreeOK
<1>6. Frames' /\ Phases'
  BY IdlePairs, IdleFrame DEF AllocateOld, Mutating, frame
<1> QED BY <1>4, <1>5, <1>6, SameScopes DEF Inv, AllocateOld, rootSet

(* get_mut and an assignment of references, on an id that resolves. *)
LEMMA SetRefsOK ==
  ASSUME TypeOK, FreeListOK, NEW id \in HeapId, Found(id), NEW refs \in SUBSET HeapId,
         SetRefs(id, refs)
  PROVE  /\ SemiSpaceOK(from') /\ OldType(old') /\ FreeListOK'
         /\ SameSlots(old'.slots, old.slots)
<1> USE DEF TypeOK
<1>1. CASE id.space = "New"
  <2>1. from' = SetFromRefs(id.index, refs) /\ UNCHANGED old
    BY <1>1 DEF SetRefs
  <2>2. id.index \in 1..Len(from.slots) /\ from.slots[id.index] # NoObject
    BY <1>1 DEF Found, InBounds, SlotOf
  <2>3. from.slots \in Seq(Slot) /\ from.generation \in Nat /\ Len(from.slots) <= Capacity
    BY DEF SemiSpaceOK
  <2>4. from' = [slots |-> WithRefs(from.slots, id.index, refs),
                 generation |-> from.generation]
    BY <2>1 DEF SetFromRefs, SemiSpaceOK
  <2> DEFINE s == WithRefs(from.slots, id.index, refs)
  <2>5. s \in Seq(Slot) /\ Len(s) = Len(from.slots)
    BY <2>2, <2>3, SlotRefs
  <2> HIDE DEF s
  <2>6. SemiSpaceOK(from')
    BY <2>3, <2>4, <2>5 DEF SemiSpaceOK, s
  <2> QED BY <2>1, <2>6 DEF OldType, FreeListOK, SameSlots
<1>2. CASE id.space = "Old"
  <2>1. old' = SetOldRefs(id.index, refs) /\ UNCHANGED from
    BY <1>2 DEF SetRefs
  <2>2. id.index \in 1..Len(old.slots) /\ old.slots[id.index] # NoObject
    BY <1>2 DEF Found, InBounds, SlotOf
  <2>3. old.slots \in Seq(Slot) /\ old.freeList \in Seq(Index)
    OBVIOUS
  <2>4. old' = [slots |-> WithRefs(old.slots, id.index, refs),
                freeList |-> old.freeList]
    BY <2>1 DEF SetOldRefs
  <2> DEFINE s == WithRefs(old.slots, id.index, refs)
  <2>4a. s \in Seq(Slot) /\ SameSlots(s, old.slots)
    BY <2>2, <2>3, SlotRefs DEF SameSlots
  <2> HIDE DEF s
  <2>5. OldType(old') /\ SameSlots(old'.slots, old.slots)
    BY <2>3, <2>4, <2>4a DEF OldType, s
  <2>6. FreeListOK'
    BY <2>4, <2>5, FreeSame, FreeListIsFree DEF OldType, FreeOK, FreeListOK
  <2> QED BY <2>1, <2>5, <2>6
<1> QED BY <1>1, <1>2 DEF HeapId

(* The ids a client works on resolve to objects. *)
LEMMA HeldIds ==
  ASSUME TypeOK, NEW id \in Held
  PROVE  id \in HeapId /\ Found(id) /\ SlotOf(id) \in HeapObject
<1>1. \A x \in HeapId : Resolves(x) => Found(x) /\ SlotOf(x) \in HeapObject
  BY DEF TypeOK, Resolves, Found, InBounds, SlotOf, SemiSpaceOK, Slot, HeapId
<1>2. Elements(handles) \subseteq HeapId
  BY ElementsAt DEF TypeOK
<1>3. Named \subseteq {x \in HeapId : Resolves(x)}
  BY <1>2 DEF TypeOK, Named
<1>4. \A n \in Named : SlotOf(n).refs \subseteq HeapId
  BY <1>1, <1>3 DEF HeapObject
<1> QED BY <1>1, <1>3, <1>4 DEF Held

LEMMA WriteBarrierInv ==
  ASSUME Inv, NEW source \in Held, NEW target \in Held,
         WriteBarrier(source, target) \/ DropReference(source, target)
  PROVE  Inv'
<1>1. /\ source \in HeapId /\ Found(source) /\ SlotOf(source) \in HeapObject
      /\ target \in HeapId
  BY HeldIds DEF Inv
<1>2. PICK refs \in SUBSET HeapId : SetRefs(source, refs)
  <2>1. SlotOf(source).refs \subseteq HeapId
    BY <1>1 DEF HeapObject
  <2> QED BY <1>1, <2>1 DEF WriteBarrier, DropReference
<1>3. /\ SemiSpaceOK(from') /\ OldType(old') /\ FreeListOK'
      /\ SameSlots(old'.slots, old.slots)
  BY <1>1, <1>2, SetRefsOK DEF Inv
<1>4. storeBuffer' \in SUBSET StoreBufferEntry
  BY <1>1 DEF WriteBarrier, DropReference, RecordWrite, Inv, TypeOK, StoreBufferEntry
<1>5. dead \subseteq DOMAIN old'.slots
  BY <1>3 DEF Inv, TypeOK, OldType, SameSlots
<1>6. TypeOK'
  BY <1>3, <1>4, <1>5
  DEF WriteBarrier, DropReference, Inv, TypeOK, frame, rootSet, SemiSpaceOK, OldType
<1>7. Frames' /\ Phases'
  BY IdlePairs, IdleFrame DEF WriteBarrier, DropReference, Mutating, frame
<1>8. UNCHANGED <<scopeMarks, handles>>
  BY DEF WriteBarrier, DropReference, rootSet
<1> QED BY <1>3, <1>6, <1>7, <1>8, SameScopes DEF Inv

LEMMA AddGlobalRootInv ==
  ASSUME Inv, NEW id \in Held, AddGlobalRoot(id) \/ RemoveGlobalRoot(id)
  PROVE  Inv'
<1>1. /\ Mutating /\ UNCHANGED <<spaces, storeBuffer, local, allocated, cycles, frame,
                                 pc, pending, handles, scopeMarks>>
  BY DEF AddGlobalRoot, RemoveGlobalRoot, Mutating
<1>2. globalRoots' \in SUBSET HeapId
  BY HeldIds DEF Inv, TypeOK, AddGlobalRoot, RemoveGlobalRoot
<1>3. TypeOK'
  BY <1>1, <1>2 DEF Inv, TypeOK, spaces, frame, SemiSpaceOK
<1>4. FreeListOK'
  BY <1>1 DEF Inv, FreeListOK, spaces
<1>5. Frames' /\ Phases'
  BY <1>1, IdlePairs, IdleFrame DEF Mutating, frame
<1> QED BY <1>1, <1>3, <1>4, <1>5, SameScopes DEF Inv

LEMMA HandlesInv ==
  ASSUME Inv, (\E id \in Held : CreateHandle(id)) \/ OpenHandleScope \/ CloseHandleScope
  PROVE  Inv'
<1>1. /\ Mutating /\ UNCHANGED <<spaces, storeBuffer, local, allocated, cycles, frame,
                                 pc, pending, globalRoots>>
  BY DEF CreateHandle, OpenHandleScope, CloseHandleScope, Mutating
<1> DEFINE n == Len(scopeMarks)
<1>2. handles \in Seq(HeapId) /\ scopeMarks \in Seq(Nat) /\ n \in Nat /\ Len(handles) \in Nat
  BY DEF Inv, TypeOK
<1>3. handles' \in Seq(HeapId) /\ scopeMarks' \in Seq(Nat) /\ ScopesNested'
  <2>1. CASE \E id \in Held : CreateHandle(id)
    <3>1. PICK id \in Held : CreateHandle(id)
      BY <2>1
    <3>2. id \in HeapId
      BY HeldIds DEF Inv
    <3>3. handles' \in Seq(HeapId) /\ Len(handles') = Len(handles) + 1
      BY <1>2, <3>1, <3>2, AppendProperties DEF CreateHandle
    <3> QED BY <1>2, <3>1, <3>3 DEF CreateHandle, ScopesNested, Inv
  <2>2. CASE OpenHandleScope
    <3>1. handles' = handles /\ scopeMarks' = Append(scopeMarks, Len(handles))
      BY <2>2 DEF OpenHandleScope
    <3>2. /\ scopeMarks' \in Seq(Nat) /\ Len(scopeMarks') = n + 1
          /\ \A i \in 1..n : scopeMarks'[i] = scopeMarks[i]
          /\ scopeMarks'[n + 1] = Len(handles)
      BY <1>2, <3>1, AppendProperties
    <3>3. \A i \in 1..n : scopeMarks[i] \in Nat
      BY <1>2
    <3> QED BY <1>2, <3>1, <3>2, <3>3 DEF ScopesNested, Inv
  <2>3. CASE CloseHandleScope
    <3>1. n \in Nat \ {0} /\ scopeMarks[n] \in Nat /\ scopeMarks[n] <= Len(handles)
      BY <1>2, <2>3, EmptySeq DEF CloseHandleScope, Inv, ScopesNested
    <3>2. /\ handles' = SubSeq(handles, 1, scopeMarks[n])
          /\ scopeMarks' = SubSeq(scopeMarks, 1, n - 1)
      BY <2>3 DEF CloseHandleScope
    <3>3. handles' \in Seq(HeapId) /\ Len(handles') = scopeMarks[n]
      <4> DEFINE mark == scopeMarks[n]
      <4>1. \A i \in 1..mark : handles[i] \in HeapId
        BY <1>2, <3>1
      <4>2. mark \in Nat /\ handles' = SubSeq(handles, 1, mark)
        BY <3>1, <3>2
      <4> HIDE DEF mark
      <4>3. handles' \in Seq(HeapId) /\ Len(handles') = mark
        BY <4>1, <4>2, SubSeqProperties
      <4> QED BY <4>3 DEF mark
    <3>4. /\ scopeMarks' \in Seq(Nat) /\ Len(scopeMarks') = n - 1
          /\ \A i \in 1..(n - 1) : scopeMarks'[i] = scopeMarks[i]
      <4> DEFINE m == n - 1
      <4>1. \A i \in 1..m : scopeMarks[i] \in Nat
        BY <1>2, <3>1
      <4>2. m \in Nat /\ scopeMarks' = SubSeq(scopeMarks, 1, m)
        BY <3>1, <3>2
      <4> HIDE DEF m
      <4>3. /\ scopeMarks' \in Seq(Nat) /\ Len(scopeMarks') = m
            /\ \A i \in 1..m : scopeMarks'[i] = scopeMarks[i]
        BY <4>1, <4>2, SubSeqProperties
      <4> QED BY <4>3 DEF m
    <3> QED BY <3>1, <3>3, <3>4 DEF ScopesNested, Inv
  <2> QED BY <2>1, <2>2, <2>3
<1>4. TypeOK'
  BY <1>1, <1>3 DEF Inv, TypeOK, spaces, frame, SemiSpaceOK
<1>5. FreeListOK'
  BY <1>1 DEF Inv, FreeListOK, spaces
<1>6. Frames' /\ Phases'
  BY <1>1, IdlePairs, IdleFrame DEF Mutating, frame
<1> QED BY <1>3, <1>4, <1>5, <1>6 DEF Inv

-----------------------------------------------------------------------------
(* The scavenger *)

LEMMA ScavengeBeginOK ==
  ASSUME Inv, ScavengeBegin, Mutating, allocated < MaxObjects \/ ~pending',
         UNCHANGED scopeMarks, pending' \in BOOLEAN
  PROVE  Inv'
<1>1. todo' \in SUBSET HeapId
  BY ElementsAt DEF Inv, TypeOK, ScavengeBegin, ScavengeRoots, StoreBufferEntry
<1>2. forwarding' \in [DOMAIN forwarding' -> HeapId] /\ DOMAIN forwarding' = {}
  BY DEF ScavengeBegin
<1>3. TypeOK'
  BY <1>1, <1>2
  DEF Inv, TypeOK, ScavengeBegin, SemiSpaceOK, spaces, rootSet, Steps, Index
<1>4. FreeListOK' /\ ScopesNested'
  BY SameScopes DEF Inv, FreeListOK, ScavengeBegin, spaces, rootSet
<1>5. Waiting' = {}
  BY DEF Waiting, Elements, ScavengeBegin
<1>6. Frames'
  BY <1>5 DEF Frames, Marking, ScavengeBegin
<1>7. Phases'
  BY DEF Phases, Inv, Mutating, ScavengeBegin
<1> QED BY <1>3, <1>4, <1>6, <1>7 DEF Inv

(* Evacuating an object of FromSpace adds a copy and moves no other. *)
LEMMA EvacuateOK ==
  ASSUME TypeOK, FreeListOK, NEW id \in HeapId, Contains(from, id), Evacuate(id)
  PROVE  /\ SemiSpaceOK(to') /\ OldType(old') /\ FreeListOK'
         /\ Destination(id) \in HeapId
         /\ forwarding' \in [DOMAIN forwarding' -> HeapId] /\ DOMAIN forwarding' \subseteq HeapId
         /\ DOMAIN forwarding \subseteq DOMAIN forwarding'
         /\ worklist' \in Seq(HeapId)
         /\ DOMAIN old.slots \subseteq DOMAIN old'.slots
         /\ \A x \in HeapId : InSlot(x) => InSlot(x)'
         /\ \A x \in Elements(worklist') : x \in Elements(worklist) \/ InSlot(x)'
<1> USE DEF TypeOK
<1>1. CASE ~Moves(id)
  <2>1. UNCHANGED <<old, to, forwarding, worklist>>
    BY <1>1 DEF Evacuate
  <2>2. Destination(id) \in HeapId
    BY <1>1 DEF Destination, Moves
  <2> QED BY <2>1, <2>2 DEF OldType, FreeListOK, InSlot, InSlotOf, SemiSpaceOK
<1>2. CASE Moves(id)
  <2>1. Victim(id) \in HeapObject
    BY <1>2 DEF Moves, Victim, Contains, SemiSpaceOK, Slot
  <2>2. Aged(id) \in HeapObject
    <3> DEFINE v == Victim(id)
    <3>1. v \in HeapObject /\ Aged(id) = [v EXCEPT !.age = v.age + 1]
      BY <2>1 DEF Aged
    <3> DEFINE a == v.age + 1
    <3> HIDE DEF v
    <3>2. a \in Nat
      BY <3>1 DEF HeapObject
    <3> HIDE DEF a
    <3>3. [v EXCEPT !.age = a] \in HeapObject
      BY <3>1, <3>2 DEF HeapObject
    <3> QED BY <3>1, <3>3 DEF a
  <2>3. /\ Tenured(id) \/ ~IsFull(to)
        /\ Forward(id, Destination(id))
        /\ worklist' = Append(worklist, Destination(id))
    BY <1>2 DEF Evacuate
  <2>4. /\ SemiSpaceOK(to') /\ OldType(old') /\ FreeListOK'
        /\ Destination(id) \in HeapId /\ InSlotOf(to', old', Destination(id))
        /\ DOMAIN old.slots \subseteq DOMAIN old'.slots
        /\ \A x \in HeapId : InSlot(x) => InSlot(x)'
    <3>1. CASE Tenured(id)
      <4>1. old' = PlaceOld(Aged(id)) /\ UNCHANGED to /\ Destination(id) = NextOldId
        BY <1>2, <3>1 DEF Evacuate, Moves, Destination
      <4>2. /\ OldType(old') /\ FreeListOK' /\ NextOldId \in HeapId
            /\ Occupied(old'.slots, NextOldId.index)
            /\ Len(old'.slots) >= Len(old.slots)
            /\ \A i \in DOMAIN old.slots : old.slots[i] # NoObject => old'.slots[i] = old.slots[i]
        BY <2>2, <4>1, PlaceOldOK, FreeListIsFree DEF OldType, FreeListOK, FreeOK
      <4>3. DOMAIN old.slots = 1..Len(old.slots) /\ DOMAIN old'.slots = 1..Len(old'.slots)
            /\ Len(old.slots) \in Nat /\ Len(old'.slots) \in Nat
        BY <4>2 DEF OldType
      <4>4. NextOldId.space = "Old"
        BY DEF NextOldId
      <4>5. \A x \in HeapId : InSlot(x) => InSlot(x)'
        BY <4>1, <4>2, <4>3 DEF InSlot, InSlotOf, Occupied
      <4> QED BY <4>1, <4>2, <4>3, <4>4, <4>5 DEF InSlot, InSlotOf, SemiSpaceOK
    <3>2. CASE ~Tenured(id)
      <4>1. to' = PlaceSemi(to, Aged(id)) /\ UNCHANGED old /\ Destination(id) = NextSemiId(to)
        BY <1>2, <3>2 DEF Evacuate, Moves, Destination
      <4>2. SemiSpaceOK(to) /\ ~IsFull(to)
        BY <2>3, <3>2
      <4>3. /\ SemiSpaceOK(to') /\ NextSemiId(to) \in HeapId
            /\ Occupied(to'.slots, NextSemiId(to).index)
            /\ Len(to'.slots) = Len(to.slots) + 1
            /\ \A i \in 1..Len(to.slots) : to'.slots[i] = to.slots[i]
        BY <2>2, <4>1, <4>2, PlaceSemiOK
      <4>4. Len(to.slots) \in Nat
        BY DEF SemiSpaceOK
      <4>5. \A x \in HeapId : InSlot(x) => InSlot(x)'
        <5>1. \A i : Occupied(to.slots, i) => Occupied(to'.slots, i)
          BY <4>3, <4>4, KeptSlots
        <5>2. old' = old
          BY <4>1
        <5> QED BY <5>1, <5>2 DEF InSlot, InSlotOf
      <4>6. NextSemiId(to).space = "New"
        BY DEF NextSemiId
      <4> QED BY <4>1, <4>3, <4>5, <4>6 DEF InSlot, InSlotOf, OldType, FreeListOK
    <3> QED BY <3>1, <3>2
  <2>5. /\ forwarding' \in [DOMAIN forwarding' -> HeapId] /\ DOMAIN forwarding' \subseteq HeapId
        /\ DOMAIN forwarding \subseteq DOMAIN forwarding'
    BY <2>3, <2>4 DEF Forward
  <2>6. worklist' \in Seq(HeapId)
    BY <2>3, <2>4
  <2>7. \A x \in Elements(worklist') : x \in Elements(worklist) \/ InSlot(x)'
    <3>1. /\ Len(worklist') = Len(worklist) + 1
          /\ \A i \in 1..Len(worklist) : worklist'[i] = worklist[i]
          /\ worklist'[Len(worklist) + 1] = Destination(id)
      BY <2>3, <2>4, AppendProperties
    <3> SUFFICES ASSUME NEW x \in Elements(worklist'), x # Destination(id)
                 PROVE  x \in Elements(worklist)
      BY <2>4 DEF InSlot
    <3>2. PICK i \in 1..Len(worklist') : worklist'[i] = x
      BY <2>6, ElementsAt
    <3>3. i \in 1..Len(worklist) /\ worklist[i] = x
      BY <3>1, <3>2
    <3> QED BY <3>3, ElementsAt
  <2> QED BY <2>4, <2>5, <2>6, <2>7
<1> QED BY <1>1, <1>2

(* The ids waiting to be scanned still name copies after such a step. *)
LEMMA WaitingCopies ==
  ASSUME TypeOK, \A x \in Waiting : InSlot(x), NEW cur \in HeapId \cup {NoId}, cur = current,
         \A x \in HeapId : InSlot(x) => InSlot(x)',
         \A x \in Elements(worklist') : x \in Elements(worklist) \/ InSlot(x)',
         current' = cur, worklist' \in Seq(HeapId)
  PROVE  \A x \in Waiting' : InSlot(x)'
<1> SUFFICES ASSUME NEW x \in Waiting' PROVE InSlot(x)'
  OBVIOUS
<1>1. x \in Elements(worklist') \/ x = current
  BY DEF Waiting
<1>2. x # NoId
  BY DEF Waiting
<1>3. Elements(worklist') \subseteq HeapId
  BY ElementsAt
<1>4. x \in HeapId
  BY <1>1, <1>2, <1>3
<1>5. InSlot(x) \/ InSlot(x)'
  BY <1>1, <1>2 DEF Waiting
<1> QED BY <1>4, <1>5

LEMMA EvacuateRootInv == ASSUME Inv, NEW root \in todo, EvacuateRoot(root) PROVE Inv'
<1>1. root \in HeapId
  BY DEF Inv, TypeOK
<1>2. /\ SemiSpaceOK(to') /\ OldType(old') /\ FreeListOK'
      /\ forwarding' \in [DOMAIN forwarding' -> HeapId] /\ DOMAIN forwarding' \subseteq HeapId
      /\ DOMAIN forwarding \subseteq DOMAIN forwarding'
      /\ worklist' \in Seq(HeapId)
      /\ DOMAIN old.slots \subseteq DOMAIN old'.slots
      /\ \A x \in HeapId : InSlot(x) => InSlot(x)'
      /\ \A x \in Elements(worklist') : x \in Elements(worklist) \/ InSlot(x)'
  <2>1. CASE Contains(from, root)
    BY <1>1, <2>1, EvacuateOK DEF EvacuateRoot, Inv
  <2>2. CASE ~Contains(from, root)
    BY <2>2 DEF EvacuateRoot, Inv, TypeOK, OldType, FreeListOK, InSlot, InSlotOf, SemiSpaceOK
  <2> QED BY <2>1, <2>2
<1>3. TypeOK'
  BY <1>2 DEF EvacuateRoot, Inv, TypeOK, SemiSpaceOK, OldType, scavengeUnchanged
<1>4. Frames'
  <2>1. \A x \in Waiting' : InSlot(x)'
    BY <1>2, WaitingCopies DEF EvacuateRoot, Inv, Frames, TypeOK
  <2> QED BY <2>1 DEF EvacuateRoot, Inv, Frames, Marking
<1>5. Phases'
  BY DEF EvacuateRoot, Inv, Phases, scavengeUnchanged
<1>6. ScopesNested'
  BY SameScopes DEF EvacuateRoot, scavengeUnchanged
<1> QED BY <1>2, <1>3, <1>4, <1>5, <1>6 DEF Inv

LEMMA ScanReferenceInv == ASSUME Inv, NEW ref \in todo, ScanReference(ref) PROVE Inv'
<1>1. ref \in HeapId
  BY DEF Inv, TypeOK
<1>2. /\ SemiSpaceOK(to') /\ OldType(old') /\ FreeListOK'
      /\ forwarding' \in [DOMAIN forwarding' -> HeapId] /\ DOMAIN forwarding' \subseteq HeapId
      /\ DOMAIN forwarding \subseteq DOMAIN forwarding'
      /\ worklist' \in Seq(HeapId) /\ updated' \in SUBSET HeapId
      /\ DOMAIN old.slots \subseteq DOMAIN old'.slots
      /\ \A x \in HeapId : InSlot(x) => InSlot(x)'
      /\ \A x \in Elements(worklist') : x \in Elements(worklist) \/ InSlot(x)'
  <2>1. CASE Contains(from, ref)
    BY <1>1, <2>1, EvacuateOK DEF ScanReference, Inv, TypeOK
  <2>2. CASE ~Contains(from, ref)
    <3>1. Forwarded(ref) \in HeapId
      BY <1>1 DEF Forwarded, Inv, TypeOK
    <3> QED BY <2>2, <3>1
            DEF ScanReference, Inv, TypeOK, OldType, FreeListOK, InSlot, InSlotOf, SemiSpaceOK
  <2> QED BY <2>1, <2>2
<1>3. TypeOK'
  BY <1>2 DEF ScanReference, Inv, TypeOK, SemiSpaceOK, OldType, scavengeUnchanged
<1>4. Frames'
  <2>1. \A x \in Waiting' : InSlot(x)'
    BY <1>2, WaitingCopies DEF ScanReference, Inv, Frames, TypeOK
  <2> QED BY <2>1 DEF ScanReference, Inv, Frames, Marking
<1>5. Phases'
  BY DEF ScanReference, Inv, Phases, scavengeUnchanged
<1>6. ScopesNested'
  BY SameScopes DEF ScanReference, scavengeUnchanged
<1> QED BY <1>2, <1>3, <1>4, <1>5, <1>6 DEF Inv

(* Steps of a scavenge that move on without touching a space. *)
LEMMA ScavengeMovesOn ==
  ASSUME Inv, EvacuateRootsDone \/ ScanDone \/ UpdateGlobalRoots \/ KeepEntries
  PROVE  Inv'
<1>1. UNCHANGED <<spaces, handles, scopeMarks, worklist, current, local, allocated, cycles,
                  pending, dead, cursor, todo, updated, forwarding>>
  BY DEF EvacuateRootsDone, ScanDone, UpdateGlobalRoots, KeepEntries, frame, scavengeUnchanged
<1>2. /\ pc' \in Steps /\ pairs' \subseteq DOMAIN forwarding /\ entries' \in SUBSET StoreBufferEntry
      /\ globalRoots' \in SUBSET HeapId /\ storeBuffer' \in SUBSET StoreBufferEntry
  <2>1. \A id \in HeapId : Forwarded(id) \in HeapId
    BY DEF Forwarded, Inv, TypeOK
  <2> QED BY <2>1 DEF EvacuateRootsDone, ScanDone, UpdateGlobalRoots, KeepEntries, Steps, Inv,
                      TypeOK, frame, StoreBufferEntry
<1>3. TypeOK'
  BY <1>1, <1>2 DEF Inv, TypeOK, spaces, SemiSpaceOK
<1>4. FreeListOK' /\ ScopesNested'
  BY <1>1, SameScopes DEF Inv, FreeListOK, spaces
<1>5. Frames'
  BY <1>1 DEF Inv, Frames, Marking, Waiting, InSlot, InSlotOf, spaces, EvacuateRootsDone, ScanDone,
              UpdateGlobalRoots, KeepEntries
<1>6. Phases'
  BY <1>1 DEF Inv, Phases, spaces, EvacuateRootsDone, ScanDone, UpdateGlobalRoots, KeepEntries,
              frame
<1> QED BY <1>3, <1>4, <1>5, <1>6 DEF Inv

(* The last element of a stack, and the stack without it. *)
LEMMA PopLast ==
  ASSUME NEW S, NEW s \in Seq(S), s # <<>>
  PROVE  /\ s[Len(s)] \in S /\ s[Len(s)] \in Elements(s)
         /\ SubSeq(s, 1, Len(s) - 1) \in Seq(S)
         /\ Elements(SubSeq(s, 1, Len(s) - 1)) \subseteq Elements(s)
<1> DEFINE n == Len(s) - 1
           t == SubSeq(s, 1, n)
<1>1. n \in Nat /\ Len(s) \in 1..Len(s)
  BY EmptySeq
<1>2. \A i \in 1..n : s[i] \in S /\ i \in 1..Len(s)
  BY <1>1
<1> HIDE DEF n
<1>3. t \in Seq(S) /\ Len(t) = n /\ \A i \in 1..n : t[i] = s[i]
  BY <1>1, <1>2, SubSeqProperties
<1> HIDE DEF t
<1>4. Elements(t) \subseteq Elements(s)
  BY <1>2, <1>3, ElementsAt
<1> QED BY <1>1, <1>3, <1>4, ElementsAt DEF n, t

LEMMA ScanNextInv == ASSUME Inv, ScanNext PROVE Inv'
<1>1. /\ worklist # <<>> /\ pc = "scan" /\ current' = worklist[Len(worklist)]
      /\ worklist' = SubSeq(worklist, 1, Len(worklist) - 1)
      /\ todo' = Copied(current').refs /\ updated' = {}
      /\ UNCHANGED <<spaces, storeBuffer, handles, globalRoots, pc, forwarding, pairs, entries,
                     scavengeUnchanged>>
  BY DEF ScanNext
<1>2. /\ current' \in HeapId /\ current' \in Elements(worklist) /\ worklist' \in Seq(HeapId)
      /\ Elements(worklist') \subseteq Elements(worklist)
  BY <1>1, PopLast DEF Inv, TypeOK
<1>3. \A x \in Waiting' : InSlot(x)
  BY <1>1, <1>2, SlotAssumption DEF Waiting, Inv, Frames
<1>4. InSlot(current')
  BY <1>1, <1>2, SlotAssumption DEF Waiting, Inv, Frames
<1>5. Copied(current') \in HeapObject
  BY <1>2, <1>4 DEF Inv, TypeOK, InSlot, InSlotOf, Occupied, Copied, Slot, SemiSpaceOK, HeapId
<1>5a. todo' \in SUBSET HeapId
  <2> DEFINE object == Copied(current')
  <2>1. object \in HeapObject /\ todo' = object.refs
    BY <1>1, <1>5
  <2> HIDE DEF object
  <2> QED BY <2>1 DEF HeapObject
<1>6. TypeOK'
  BY <1>1, <1>2, <1>5a DEF Inv, TypeOK, spaces, SemiSpaceOK, scavengeUnchanged
<1>7. Frames'
  BY <1>1, <1>3 DEF Frames, Marking, InSlot, spaces
<1>8. FreeListOK' /\ ScopesNested' /\ Phases'
  BY <1>1, SameScopes DEF Inv, FreeListOK, Phases, spaces, scavengeUnchanged
<1> QED BY <1>6, <1>7, <1>8 DEF Inv

LEMMA ScanStoreInv == ASSUME Inv, ScanStore PROVE Inv'
<1>1. /\ pc = "scan" /\ current # NoId /\ current' = NoId
      /\ UNCHANGED <<from, storeBuffer, handles, globalRoots, pc, todo, worklist, updated,
                     forwarding, pairs, entries, scavengeUnchanged>>
  BY DEF ScanStore
<1>2. current \in HeapId /\ InSlot(current) /\ updated \in SUBSET HeapId
  BY <1>1 DEF Inv, TypeOK, Frames, Waiting
<1>3. /\ SemiSpaceOK(to') /\ OldType(old') /\ FreeListOK'
      /\ SameSlots(to'.slots, to.slots) /\ SameSlots(old'.slots, old.slots)
  <2>1. CASE current.space = "New"
    <3>1. to' = SetToRefs(current.index, updated) /\ UNCHANGED old
      BY <2>1 DEF ScanStore
    <3>2. current.index \in 1..Len(to.slots) /\ to.slots[current.index] # NoObject
      BY <1>2, <2>1 DEF InSlot, InSlotOf, Occupied
    <3>3. to.slots \in Seq(Slot) /\ to.generation \in Nat /\ Len(to.slots) <= Capacity
      BY DEF Inv, TypeOK, SemiSpaceOK
    <3> DEFINE s == WithRefs(to.slots, current.index, updated)
    <3>4. s \in Seq(Slot) /\ SameSlots(s, to.slots)
      BY <1>2, <3>2, <3>3, SlotRefs DEF SameSlots
    <3>5. to' = [slots |-> s, generation |-> to.generation]
      BY <3>1 DEF SetToRefs, Inv, TypeOK, SemiSpaceOK
    <3> HIDE DEF s
    <3> QED BY <3>1, <3>3, <3>4, <3>5
            DEF SemiSpaceOK, OldType, FreeListOK, Inv, TypeOK, SameSlots
  <2>2. CASE current.space = "Old"
    <3>1. old' = SetOldRefs(current.index, updated) /\ UNCHANGED to
      BY <2>2 DEF ScanStore
    <3>2. current.index \in 1..Len(old.slots) /\ old.slots[current.index] # NoObject
      BY <1>2, <2>2 DEF InSlot, InSlotOf, Occupied
    <3>3. old.slots \in Seq(Slot) /\ old.freeList \in Seq(Index)
      BY DEF Inv, TypeOK
    <3> DEFINE s == WithRefs(old.slots, current.index, updated)
    <3>4. s \in Seq(Slot) /\ SameSlots(s, old.slots)
      BY <1>2, <3>2, <3>3, SlotRefs DEF SameSlots
    <3>5. old' = [slots |-> s, freeList |-> old.freeList]
      BY <3>1 DEF SetOldRefs, Inv, TypeOK
    <3> HIDE DEF s
    <3>6. OldType(old') /\ SameSlots(old'.slots, old.slots)
      BY <3>3, <3>4, <3>5 DEF OldType
    <3>7. FreeListOK'
      BY <3>5, <3>6, FreeSame, FreeListIsFree DEF Inv, TypeOK, OldType, FreeOK, FreeListOK
    <3> QED BY <3>1, <3>6, <3>7 DEF Inv, TypeOK, SemiSpaceOK, SameSlots
  <2> QED BY <1>2, <2>1, <2>2 DEF HeapId
<1>4. dead \subseteq DOMAIN old'.slots
  BY <1>3 DEF Inv, TypeOK, OldType, SameSlots
<1>5. TypeOK'
  BY <1>1, <1>3, <1>4 DEF Inv, TypeOK, SemiSpaceOK, OldType, scavengeUnchanged
<1>6. \A x \in HeapId : InSlot(x) => InSlot(x)'
  BY <1>3 DEF InSlot, InSlotOf, Occupied, SameSlots, SemiSpaceOK, OldType, Inv, TypeOK
<1>7. Waiting' \subseteq Waiting /\ Waiting \subseteq HeapId
  <2>1. worklist' = worklist /\ Elements(worklist') = Elements(worklist)
    BY <1>1
  <2>2. Elements(worklist) \subseteq HeapId
    BY ElementsAt DEF Inv, TypeOK
  <2> QED BY <1>1, <2>1, <2>2 DEF Waiting, Inv, TypeOK
<1>8. Frames'
  BY <1>1, <1>6, <1>7 DEF Inv, Frames, Marking
<1>9. ScopesNested' /\ Phases'
  BY <1>1, SameScopes DEF Inv, Phases, scavengeUnchanged
<1> QED BY <1>3, <1>5, <1>8, <1>9 DEF Inv

LEMMA UpdateHandlesInv == ASSUME Inv, UpdateHandles PROVE Inv'
<1>1. /\ pc = "handles"
      /\ UNCHANGED <<spaces, storeBuffer, globalRoots, pc, todo, worklist, current, updated,
                     forwarding, entries, scavengeUnchanged>>
  BY DEF UpdateHandles
<1>2. PICK source \in pairs :
        /\ handles' = [i \in DOMAIN handles |->
                         IF handles[i] = source THEN forwarding[source] ELSE handles[i]]
        /\ pairs' = pairs \ {source}
  BY DEF UpdateHandles
<1>3. handles' \in Seq(HeapId) /\ Len(handles') = Len(handles)
  <2>1. DOMAIN handles = 1..Len(handles) /\ Len(handles) \in Nat
    BY DEF Inv, TypeOK
  <2>2. \A i \in 1..Len(handles) :
          (IF handles[i] = source THEN forwarding[source] ELSE handles[i]) \in HeapId
    BY DEF Inv, TypeOK
  <2> QED BY <1>2, <2>1, <2>2
<1>4. TypeOK'
  BY <1>1, <1>2, <1>3 DEF Inv, TypeOK, spaces, SemiSpaceOK, scavengeUnchanged
<1>5. FreeListOK' /\ ScopesNested'
  BY <1>1, <1>3 DEF Inv, FreeListOK, ScopesNested, spaces, scavengeUnchanged
<1>6. Frames' /\ Phases'
  BY <1>1 DEF Inv, Frames, Phases, Marking, scavengeUnchanged
<1> QED BY <1>4, <1>5, <1>6 DEF Inv

LEMMA UpdateOldReferenceInv ==
  ASSUME Inv, NEW entry \in entries, UpdateOldReference(entry) PROVE Inv'
<1>1. /\ pc = "oldReferences" /\ entries' = entries \ {entry}
      /\ UNCHANGED <<from, to, storeBuffer, handles, globalRoots, pc, todo, worklist, current,
                     updated, forwarding, pairs, scavengeUnchanged>>
  BY DEF UpdateOldReference
<1>2. entry.source \in HeapId /\ entry.target \in HeapId
  BY DEF Inv, TypeOK, StoreBufferEntry
<1> DEFINE i == entry.source.index
           refs == (old.slots[i].refs \ {entry.target}) \cup {forwarding[entry.target]}
<1>3. OldType(old') /\ FreeListOK' /\ SameSlots(old'.slots, old.slots)
  <2>1. CASE Occupied(old.slots, i) /\ entry.target \in DOMAIN forwarding
    <3>1. i \in 1..Len(old.slots) /\ old.slots[i] # NoObject /\ old' = SetOldRefs(i, refs)
      BY <2>1 DEF Occupied, UpdateOldReference
    <3>2. old.slots \in Seq(Slot) /\ old.freeList \in Seq(Index)
      BY DEF Inv, TypeOK
    <3>3. refs \in SUBSET HeapId
      <4> DEFINE object == old.slots[i]
      <4>1. object \in HeapObject
        BY <3>1, <3>2 DEF Slot
      <4> HIDE DEF object
      <4>2. object.refs \subseteq HeapId
        BY <4>1 DEF HeapObject
      <4> QED BY <2>1, <4>2 DEF object, Inv, TypeOK
    <3> HIDE DEF i, refs
    <3> DEFINE s == WithRefs(old.slots, i, refs)
    <3>4. s \in Seq(Slot) /\ SameSlots(s, old.slots)
      BY <3>1, <3>2, <3>3, SlotRefs DEF SameSlots
    <3>5. old' = [slots |-> s, freeList |-> old.freeList]
      BY <3>1 DEF SetOldRefs, Inv, TypeOK
    <3> HIDE DEF s
    <3>6. OldType(old') /\ SameSlots(old'.slots, old.slots)
      BY <3>2, <3>4, <3>5 DEF OldType
    <3>7. FreeListOK'
      BY <3>5, <3>6, FreeSame, FreeListIsFree DEF Inv, TypeOK, OldType, FreeOK, FreeListOK
    <3> QED BY <3>6, <3>7
  <2>2. CASE ~(Occupied(old.slots, i) /\ entry.target \in DOMAIN forwarding)
    <3>1. old' = old
      BY <2>2 DEF UpdateOldReference
    <3> QED BY <3>1 DEF Inv, TypeOK, OldType, FreeListOK, SameSlots
  <2> QED BY <2>1, <2>2
<1>4. dead \subseteq DOMAIN old'.slots
  BY <1>3 DEF Inv, TypeOK, OldType, SameSlots
<1>5. TypeOK'
  BY <1>1, <1>3, <1>4 DEF Inv, TypeOK, SemiSpaceOK, OldType, scavengeUnchanged
<1>6. Frames' /\ Phases' /\ ScopesNested'
  BY <1>1, SameScopes DEF Inv, Frames, Phases, Marking, scavengeUnchanged
<1> QED BY <1>3, <1>5, <1>6 DEF Inv

LEMMA FlipInv == ASSUME Inv, Flip PROVE Inv'
<1>1. /\ pc = "flip" /\ from' = to /\ to' = ResetSemi(from) /\ updated' = {}
      /\ pc' = IF pending THEN "allocate" ELSE "mutator"
      /\ UNCHANGED <<old, storeBuffer, handles, globalRoots, todo, worklist, current, pairs,
                     entries, scavengeUnchanged>>
  BY DEF Flip
<1>2. SemiSpaceOK(to')
  BY <1>1, HeapAssumption, EmptySeq DEF Inv, TypeOK, SemiSpaceOK, ResetSemi
<1>3. forwarding' \in [DOMAIN forwarding' -> HeapId] /\ DOMAIN forwarding' = {}
  BY DEF Flip
<1>4. pairs = {}
  BY <1>1 DEF Inv, Phases
<1>5. TypeOK'
  BY <1>1, <1>2, <1>3, <1>4 DEF Inv, TypeOK, Steps, scavengeUnchanged, SemiSpaceOK
<1>6. FreeListOK' /\ ScopesNested'
  BY <1>1, SameScopes DEF Inv, FreeListOK, scavengeUnchanged
<1>7. Frames' /\ Phases'
  BY <1>1, <1>4 DEF Inv, Frames, Phases, Marking, scavengeUnchanged
<1> QED BY <1>5, <1>6, <1>7 DEF Inv

LEMMA AllocateAfterScavengeInv == ASSUME Inv, AllocateAfterScavenge PROVE Inv'
<1>1. /\ pc = "allocate" /\ allocated' = allocated + 1 /\ pending' = FALSE /\ pc' = "mutator"
      /\ UNCHANGED <<to, rootSet, storeBuffer, cycles, frame>>
  BY DEF AllocateAfterScavenge
<1>2. allocated' \in Payloads /\ allocated' \in 0..MaxObjects
  BY <1>1, HeapAssumption DEF Inv, TypeOK, Phases, Payloads
<1>3. NewObject(allocated') \in HeapObject
  BY <1>2, NewObjectSlot
<1>4. /\ SemiSpaceOK(from') /\ OldType(old') /\ FreeListOK' /\ local' \in HeapId
      /\ DOMAIN old.slots \subseteq DOMAIN old'.slots
  <2>1. CASE ~IsFull(from)
    <3>1. /\ from' = PlaceSemi(from, NewObject(allocated')) /\ local' = NextSemiId(from)
          /\ UNCHANGED old
      BY <2>1 DEF AllocateAfterScavenge
    <3>2. SemiSpaceOK(from') /\ local' \in HeapId
      BY <1>3, <2>1, <3>1, PlaceSemiOK DEF Inv, TypeOK
    <3> QED BY <3>1, <3>2 DEF Inv, TypeOK, OldType, FreeListOK
  <2>2. CASE IsFull(from)
    <3>1. /\ old' = PlaceOld(NewObject(allocated')) /\ local' = NextOldId /\ UNCHANGED from
      BY <2>2 DEF AllocateAfterScavenge
    <3>2. /\ OldType(old') /\ FreeOK(old') /\ local' \in HeapId
          /\ Len(old'.slots) >= Len(old.slots)
      BY <1>3, <3>1, PlaceOldOK, FreeListIsFree DEF Inv, TypeOK, OldType
    <3>3. DOMAIN old.slots \subseteq DOMAIN old'.slots
      BY <3>2 DEF Inv, TypeOK, OldType
    <3>4. FreeListOK'
      BY <3>2 DEF FreeListOK, FreeOK
    <3> QED BY <3>1, <3>2, <3>3, <3>4 DEF Inv, TypeOK, SemiSpaceOK
  <2> QED BY <2>1, <2>2
<1>5. TypeOK'
  BY <1>1, <1>2, <1>4 DEF Inv, TypeOK, frame, rootSet, SemiSpaceOK, OldType, Steps
<1>6. pairs = {}
  BY <1>1 DEF Inv, Phases
<1>7. Frames' /\ Phases'
  BY <1>1, <1>6, IdleFrame DEF frame
<1>8. ScopesNested'
  BY <1>1, SameScopes DEF rootSet
<1> QED BY <1>4, <1>5, <1>7, <1>8 DEF Inv

LEMMA ScavengeStepInv == ASSUME Inv, ScavengeStep PROVE Inv'
  BY EvacuateRootInv, ScanReferenceInv, UpdateOldReferenceInv, ScavengeMovesOn, ScanNextInv,
     ScanStoreInv, UpdateHandlesInv, FlipInv
  DEF ScavengeStep

-----------------------------------------------------------------------------
(* The mark-sweep collector *)

LEMMA MarkBeginInv ==
  ASSUME Inv, Mutating, NEW mode \in {"mark", "markConcurrent"}, MarkBegin(mode)
  PROVE  Inv'
<1>1. /\ from' = [from EXCEPT !.slots = ResetColors(@)]
      /\ old' = [old EXCEPT !.slots = ResetColors(@)]
      /\ pc' = mode /\ worklist' = <<>> /\ current' = NoId /\ cursor' = 1 /\ dead' = {}
      /\ cycles' = cycles + 1 /\ local' = NoId
      /\ UNCHANGED <<to, rootSet, storeBuffer, allocated, pending, updated, forwarding, pairs,
                     entries>>
  BY DEF MarkBegin
<1>2. todo' \in SUBSET HeapId
  BY ElementsAt DEF Inv, TypeOK, MarkBegin
<1>3. from.slots \in Seq(Slot) /\ from.generation \in Nat /\ Len(from.slots) <= Capacity
      /\ old.slots \in Seq(Slot) /\ old.freeList \in Seq(Index)
  BY DEF Inv, TypeOK, SemiSpaceOK
<1>4. /\ from' = [slots |-> ResetColors(from.slots), generation |-> from.generation]
      /\ old' = [slots |-> ResetColors(old.slots), freeList |-> old.freeList]
  BY <1>1 DEF Inv, TypeOK, SemiSpaceOK
<1>5. SemiSpaceOK(from')
  BY <1>3, <1>4, ResetSlots DEF SemiSpaceOK
<1>6. OldType(old') /\ SameSlots(old'.slots, old.slots)
  BY <1>3, <1>4, ResetSlots DEF OldType, SameSlots
<1>7. FreeListOK'
  BY <1>4, <1>6, FreeSame, FreeListIsFree DEF Inv, TypeOK, OldType, FreeOK, FreeListOK
<1>8. TypeOK'
  <2>1. SemiSpaceOK(from') /\ SemiSpaceOK(to')
    BY <1>1, <1>5 DEF Inv, TypeOK, SemiSpaceOK
  <2>2. old' \in [slots : Seq(Slot), freeList : Seq(Index)]
    BY <1>6 DEF OldType
  <2>3. /\ pc' \in Steps /\ worklist' \in Seq(HeapId) /\ cursor' \in Index
        /\ cycles' = cycles + 1 /\ dead' \in SUBSET Index /\ local' \in HeapId \cup {NoId}
        /\ current' \in HeapId \cup {NoId}
    BY <1>1 DEF Steps, Index
  <2> QED BY <1>1, <1>2, <2>1, <2>2, <2>3 DEF Inv, TypeOK, rootSet
<1>9. Waiting' = {}
  BY <1>1 DEF Waiting, Elements
<1>10. Frames' /\ Phases'
  BY <1>1, <1>9, IdlePairs DEF Frames, Phases
<1> QED BY <1>1, <1>7, <1>8, <1>10, SameScopes DEF Inv, rootSet

(* What a marking step that only paints leaves as it was. *)
SpacesSame ==
  /\ SemiSpaceOK(from') /\ OldType(old') /\ FreeListOK'
  /\ SameSlots(from'.slots, from.slots) /\ SameSlots(old'.slots, old.slots)

LEMMA NothingPainted == ASSUME Inv, UNCHANGED <<from, old>> PROVE SpacesSame
  BY DEF SpacesSame, Inv, TypeOK, SemiSpaceOK, OldType, FreeListOK, SameSlots

(* set_color, of an object that exists. *)
LEMMA SetColorSame ==
  ASSUME Inv, NEW id \in HeapId, Found(id), NEW color \in Colors, SetColor(id, color)
  PROVE  SpacesSame
<1>1. from.slots \in Seq(Slot) /\ from.generation \in Nat /\ Len(from.slots) <= Capacity
      /\ old.slots \in Seq(Slot) /\ old.freeList \in Seq(Index)
  BY DEF Inv, TypeOK, SemiSpaceOK
<1>2. CASE id.space = "New"
  <2>1. from' = [from EXCEPT !.slots[id.index] = Paint(@, color)] /\ UNCHANGED old
    BY <1>2 DEF SetColor
  <2>2. id.index \in 1..Len(from.slots) /\ from.slots[id.index] # NoObject
    BY <1>2 DEF Found, InBounds, SlotOf
  <2> DEFINE painted == Paint(from.slots[id.index], color)
             s == [from.slots EXCEPT ![id.index] = painted]
  <2>3. from' = [slots |-> s, generation |-> from.generation]
    BY <2>1 DEF Inv, TypeOK, SemiSpaceOK
  <2>4. painted \in Slot /\ painted # NoObject
    BY <1>1, <2>2, PaintSlot
  <2> HIDE DEF painted
  <2>5. s \in Seq(Slot) /\ SameSlots(s, from.slots)
    BY <1>1, <2>2, <2>4, SetSlot DEF SameSlots
  <2> HIDE DEF s
  <2>6. SemiSpaceOK(from') /\ SameSlots(from'.slots, from.slots)
    BY <1>1, <2>3, <2>5 DEF SemiSpaceOK, SameSlots
  <2>7. OldType(old') /\ FreeListOK' /\ SameSlots(old'.slots, old.slots)
    BY <2>1 DEF OldType, FreeListOK, Inv, TypeOK, SameSlots
  <2> QED BY <2>6, <2>7 DEF SpacesSame
<1>3. CASE id.space = "Old"
  <2>1. old' = [old EXCEPT !.slots[id.index] = Paint(@, color)] /\ UNCHANGED from
    BY <1>3 DEF SetColor
  <2>2. id.index \in 1..Len(old.slots) /\ old.slots[id.index] # NoObject
    BY <1>3 DEF Found, InBounds, SlotOf
  <2> DEFINE painted == Paint(old.slots[id.index], color)
             s == [old.slots EXCEPT ![id.index] = painted]
  <2>3. old' = [slots |-> s, freeList |-> old.freeList]
    BY <2>1 DEF Inv, TypeOK
  <2>4. painted \in Slot /\ painted # NoObject
    BY <1>1, <2>2, PaintSlot
  <2> HIDE DEF painted
  <2>5. s \in Seq(Slot) /\ SameSlots(s, old.slots)
    BY <1>1, <2>2, <2>4, SetSlot DEF SameSlots
  <2> HIDE DEF s
  <2>6. OldType(old') /\ SameSlots(old'.slots, old.slots)
    BY <1>1, <2>3, <2>5 DEF OldType
  <2>7. FreeListOK'
    BY <2>3, <2>6, FreeSame, FreeListIsFree DEF Inv, TypeOK, OldType, FreeOK, FreeListOK
  <2> QED BY <2>1, <2>6, <2>7 DEF SpacesSame, Inv, TypeOK, SemiSpaceOK, SameSlots
<1> QED BY <1>2, <1>3 DEF HeapId

(* Ids whose slot was occupied still have one after painting. *)
LEMMA FoundSame ==
  ASSUME Inv, SpacesSame
  PROVE  \A x \in HeapId : Found(x) => Found(x)'
<1>1. /\ from.slots \in Seq(Slot) /\ from'.slots \in Seq(Slot)
      /\ old.slots \in Seq(Slot) /\ old'.slots \in Seq(Slot)
  BY DEF SpacesSame, Inv, TypeOK, SemiSpaceOK, OldType
<1> QED BY <1>1 DEF SpacesSame, SameSlots, Found, InBounds, SlotOf

(* A marking step keeps the invariant when it paints existing objects and  *)
(* waits for existing objects only.                                        *)
LEMMA MarkingStep ==
  ASSUME Inv, Marking, SpacesSame, todo' \in SUBSET HeapId,
         worklist' \in Seq(HeapId), current' \in HeapId \cup {NoId},
         \A x \in Waiting' : Found(x)',
         UNCHANGED <<storeBuffer, pc, cursor, dead, markUnchanged>>
  PROVE  Inv'
<1>1. dead' \subseteq DOMAIN old'.slots
  BY DEF SpacesSame, SameSlots, OldType, Inv, TypeOK
<1>2. TypeOK'
  BY <1>1 DEF SpacesSame, OldType, Inv, TypeOK, SemiSpaceOK, markUnchanged, rootSet
<1>3. Frames' /\ Phases'
  BY DEF Inv, Frames, Phases, Marking, markUnchanged
<1>4. FreeListOK' /\ ScopesNested'
  BY SameScopes DEF Inv, SpacesSame, markUnchanged, rootSet
<1> QED BY <1>2, <1>3, <1>4 DEF Inv

LEMMA WaitingFound ==
  ASSUME Inv, Marking
  PROVE  Waiting \subseteq HeapId /\ \A x \in Waiting : Found(x)
<1>1. Elements(worklist) \subseteq HeapId
  BY ElementsAt DEF Inv, TypeOK
<1> QED BY <1>1 DEF Waiting, Inv, TypeOK, Frames

(* The elements of a sequence and of its extension. *)
LEMMA AppendElements ==
  ASSUME NEW S, NEW s \in Seq(S), NEW x \in S
  PROVE  Append(s, x) \in Seq(S) /\ Elements(Append(s, x)) \subseteq Elements(s) \cup {x}
<1> DEFINE t == Append(s, x)
<1>1. /\ t \in Seq(S) /\ Len(t) = Len(s) + 1 /\ Len(s) \in Nat
      /\ \A i \in 1..Len(s) : t[i] = s[i]
      /\ t[Len(s) + 1] = x
  BY AppendProperties
<1> HIDE DEF t
<1>2. \A i \in 1..Len(t) : i = Len(s) + 1 \/ i \in 1..Len(s)
  BY <1>1
<1>3. Elements(t) \subseteq Elements(s) \cup {x}
  BY <1>1, <1>2, ElementsAt
<1> QED BY <1>1, <1>3 DEF t

LEMMA PaintNextInv == ASSUME Inv, NEW id \in todo, PaintNext(id) PROVE Inv'
<1>1. /\ Marking /\ PaintGrey(id) /\ todo' = todo \ {id}
      /\ UNCHANGED <<storeBuffer, pc, current, cursor, dead, markUnchanged>>
  BY DEF PaintNext
<1>2. id \in HeapId /\ todo' \in SUBSET HeapId /\ worklist \in Seq(HeapId)
      /\ current \in HeapId \cup {NoId}
  BY <1>1 DEF Inv, TypeOK
<1>3. CASE Found(id) /\ SlotOf(id).color = "White"
  <2>1. SetColor(id, "Grey") /\ worklist' = Append(worklist, id)
    BY <1>1, <1>3 DEF PaintGrey
  <2>2. SpacesSame
    BY <1>2, <1>3, <2>1, SetColorSame DEF Colors
  <2>3. worklist' \in Seq(HeapId) /\ Elements(worklist') \subseteq Elements(worklist) \cup {id}
    BY <1>2, <2>1, AppendElements
  <2>4. Waiting' \subseteq Waiting \cup {id}
    BY <1>1, <2>3 DEF Waiting
  <2>5. \A x \in Waiting' : Found(x)'
    BY <1>1, <1>2, <1>3, <2>2, <2>4, WaitingFound, FoundSame
  <2> QED BY <1>1, <1>2, <2>2, <2>3, <2>5, MarkingStep
<1>4. CASE ~(Found(id) /\ SlotOf(id).color = "White")
  <2>1. UNCHANGED <<from, old, worklist>>
    BY <1>1, <1>4 DEF PaintGrey
  <2>2. SpacesSame
    BY <2>1, NothingPainted
  <2>3. Waiting' = Waiting
    BY <1>1, <2>1 DEF Waiting
  <2>4. \A x \in Waiting' : Found(x)'
    BY <1>1, <2>2, <2>3, WaitingFound, FoundSame
  <2> QED BY <1>1, <1>2, <2>1, <2>2, <2>4, MarkingStep
<1> QED BY <1>3, <1>4

LEMMA BlackenInv == ASSUME Inv, Blacken PROVE Inv'
<1>1. /\ Marking /\ current # NoId /\ SetColor(current, "Black") /\ current' = NoId
      /\ UNCHANGED <<storeBuffer, pc, todo, worklist, cursor, dead, markUnchanged>>
  BY DEF Blacken
<1>2. current \in HeapId /\ Found(current) /\ todo' \in SUBSET HeapId
      /\ worklist' \in Seq(HeapId)
  BY <1>1 DEF Inv, TypeOK, Frames, Waiting
<1>3. SpacesSame
  BY <1>1, <1>2, SetColorSame DEF Colors
<1>4. Waiting' \subseteq Waiting
  BY <1>1 DEF Waiting
<1>5. \A x \in Waiting' : Found(x)'
  BY <1>1, <1>3, <1>4, WaitingFound, FoundSame
<1> QED BY <1>1, <1>2, <1>3, <1>5, MarkingStep

LEMMA PopGreyInv == ASSUME Inv, PopGrey PROVE Inv'
<1>1. /\ Marking /\ worklist # <<>> /\ current' = worklist[Len(worklist)]
      /\ worklist' = SubSeq(worklist, 1, Len(worklist) - 1)
      /\ todo' = SlotOf(current').refs
      /\ UNCHANGED <<from, old, storeBuffer, pc, cursor, dead, markUnchanged>>
  BY DEF PopGrey
<1>2. /\ current' \in HeapId /\ current' \in Elements(worklist) /\ worklist' \in Seq(HeapId)
      /\ Elements(worklist') \subseteq Elements(worklist)
  BY <1>1, PopLast DEF Inv, TypeOK
<1>3. Waiting' \subseteq Waiting
  BY <1>2, SlotAssumption DEF Waiting
<1>4. Found(current')
  BY <1>1, <1>2, WaitingFound, SlotAssumption DEF Waiting
<1>5. SlotOf(current') \in HeapObject
  BY <1>2, <1>4 DEF Inv, TypeOK, Found, InBounds, SlotOf, Slot, SemiSpaceOK, HeapId
<1>6. todo' \in SUBSET HeapId
  <2> DEFINE object == SlotOf(current')
  <2>1. object \in HeapObject /\ todo' = object.refs
    BY <1>1, <1>5
  <2> HIDE DEF object
  <2> QED BY <2>1 DEF HeapObject
<1>7. SpacesSame
  BY <1>1, NothingPainted
<1>8. \A x \in Waiting' : Found(x)'
  BY <1>1, <1>3, <1>7, WaitingFound, FoundSame
<1> QED BY <1>1, <1>2, <1>6, <1>7, <1>8, MarkingStep

(* A sweeping step keeps the invariant when it leaves the old space right  *)
(* and the slots the sweeper thread listed and not yet freed occupied.     *)
LEMMA SweepingStep ==
  ASSUME Inv, pc \in {"mark", "join"}, pc = "mark" => MarkDone, SemiSpaceOK(from'),
         OldType(old'), FreeListOK', Len(old'.slots) = Len(old.slots),
         cursor' \in Index, dead' \subseteq dead, pc' \in {pc, "sweepNew"},
         pc' = "join" => \A i \in dead : i >= cursor' => old'.slots[i] # NoObject,
         UNCHANGED <<storeBuffer, todo, worklist, current, markUnchanged>>
  PROVE  Inv'
<1>1. dead' \subseteq DOMAIN old'.slots
  BY DEF OldType, Inv, TypeOK
<1>2. TypeOK'
  BY <1>1 DEF OldType, Inv, TypeOK, SemiSpaceOK, markUnchanged, rootSet, Steps
<1>3. Waiting' = {} \/ ~Marking'
  <2>1. CASE pc = "mark"
    <3>1. worklist' = <<>> /\ current' = NoId
      BY <2>1 DEF MarkDone
    <3>2. Elements(worklist') = {}
      BY <3>1 DEF Elements
    <3> QED BY <3>1, <3>2 DEF Waiting
  <2> QED BY <2>1 DEF Marking
<1>4. Frames'
  BY <1>3 DEF Frames, Marking
<1>5. Phases'
  BY DEF Inv, Phases, markUnchanged
<1> QED BY <1>2, <1>4, <1>5, SameScopes DEF Inv, markUnchanged, rootSet

(* The next old slot is a slot. *)
LEMMA CursorSlot ==
  ASSUME Inv, cursor <= Len(old.slots)
  PROVE  cursor \in DOMAIN old.slots /\ cursor + 1 \in Index /\ cursor \in Nat
  BY DEF Inv, TypeOK, Index

LEMMA SweepOldInv == ASSUME Inv, SweepOld PROVE Inv'
<1>1. /\ pc = "mark" /\ MarkDone /\ cursor <= Len(old.slots) /\ cursor' = cursor + 1
      /\ UNCHANGED <<from, storeBuffer, pc, todo, worklist, current, dead, markUnchanged>>
  BY DEF SweepOld
<1>2. cursor \in DOMAIN old.slots /\ cursor' \in Index
  BY <1>1, CursorSlot
<1>3. OldType(old') /\ FreeListOK' /\ Len(old'.slots) = Len(old.slots)
  <2>1. CASE cursor \in White(old.slots)
    <3>1. Free(cursor) /\ old.slots[cursor] # NoObject
      BY <2>1 DEF SweepOld, White
    <3>2. OldType(old') /\ FreeOK(old') /\ Len(old'.slots) = Len(old.slots)
      BY <1>2, <3>1, FreeSlot, FreeListIsFree DEF Inv, TypeOK, OldType
    <3> QED BY <3>2 DEF FreeListOK, FreeOK
  <2>2. CASE cursor \notin White(old.slots)
    <3>1. old.slots \in Seq(Slot) /\ old.freeList \in Seq(Index) /\ cursor \in 1..Len(old.slots)
      BY <1>2 DEF Inv, TypeOK
    <3> DEFINE painted == Paint(old.slots[cursor], "White")
               s == [old.slots EXCEPT ![cursor] = painted]
    <3>2. old' = [slots |-> s, freeList |-> old.freeList]
      BY <2>2 DEF SweepOld, Inv, TypeOK
    <3>3. painted \in Slot /\ (painted = NoObject <=> old.slots[cursor] = NoObject)
      BY <3>1, PaintSlot DEF Colors
    <3> HIDE DEF painted
    <3>4. s \in Seq(Slot) /\ SameSlots(s, old.slots)
      BY <3>1, <3>3, SetSlot DEF SameSlots
    <3> HIDE DEF s
    <3>5. OldType(old') /\ SameSlots(old'.slots, old.slots)
      BY <3>1, <3>2, <3>4 DEF OldType
    <3>6. FreeListOK'
      BY <3>2, <3>5, FreeSame, FreeListIsFree DEF Inv, TypeOK, OldType, FreeOK, FreeListOK
    <3> QED BY <3>5, <3>6 DEF SameSlots
  <2> QED BY <2>1, <2>2
<1>4. SemiSpaceOK(from')
  BY <1>1 DEF Inv, TypeOK, SemiSpaceOK
<1> QED BY <1>1, <1>2, <1>3, <1>4, SweepingStep

LEMMA SweepOldDoneInv == ASSUME Inv, SweepOldDone PROVE Inv'
<1>1. /\ pc = "mark" /\ MarkDone /\ pc' = "sweepNew"
      /\ UNCHANGED <<from, old, storeBuffer, todo, worklist, current, cursor, dead,
                     markUnchanged>>
  BY DEF SweepOldDone
<1>2. /\ SemiSpaceOK(from') /\ OldType(old') /\ FreeListOK' /\ cursor' \in Index
  BY <1>1 DEF Inv, TypeOK, SemiSpaceOK, OldType, FreeListOK
<1> QED BY <1>1, <1>2, SweepingStep

(* The thread lists occupied slots. *)
LEMMA SpawnSweeperInv == ASSUME Inv, SpawnSweeper PROVE Inv'
<1>1. /\ pc = "markConcurrent" /\ MarkDone /\ dead' = White(old.slots) /\ pc' = "join"
      /\ UNCHANGED <<from, old, storeBuffer, todo, worklist, current, cursor, markUnchanged>>
  BY DEF SpawnSweeper
<1>2. \A i \in dead' : i \in DOMAIN old.slots /\ old.slots[i] # NoObject
  BY <1>1 DEF White
<1>3. TypeOK'
  BY <1>1, <1>2 DEF Inv, TypeOK, SemiSpaceOK, markUnchanged, rootSet, Steps
<1>4. Frames'
  BY <1>1 DEF Frames, Marking
<1>5. Phases'
  BY <1>1, <1>2 DEF Inv, Phases, markUnchanged
<1>6. FreeListOK' /\ ScopesNested'
  BY <1>1, SameScopes DEF Inv, FreeListOK, markUnchanged, rootSet
<1> QED BY <1>3, <1>4, <1>5, <1>6 DEF Inv

LEMMA FreeDeadInv == ASSUME Inv, FreeDead PROVE Inv'
<1>1. /\ pc = "join" /\ cursor <= Len(old.slots) /\ cursor' = cursor + 1
      /\ UNCHANGED <<from, storeBuffer, pc, todo, worklist, current, dead, markUnchanged>>
  BY DEF FreeDead
<1>2. cursor \in DOMAIN old.slots /\ cursor' \in Index /\ cursor \in Nat
  BY <1>1, CursorSlot
<1>3. dead \subseteq DOMAIN old.slots /\ DOMAIN old.slots \subseteq Nat
  BY DEF Inv, TypeOK
<1>4. /\ OldType(old') /\ FreeListOK' /\ Len(old'.slots) = Len(old.slots)
      /\ \A j \in DOMAIN old.slots : j # cursor => old'.slots[j] = old.slots[j]
  <2>1. CASE cursor \in dead
    <3>1. Free(cursor) /\ old.slots[cursor] # NoObject
      BY <1>1, <1>2, <2>1 DEF FreeDead, Inv, Phases
    <3>2. /\ OldType(old') /\ FreeOK(old') /\ Len(old'.slots) = Len(old.slots)
          /\ \A j \in DOMAIN old.slots : j # cursor => old'.slots[j] = old.slots[j]
      BY <1>2, <3>1, FreeSlot, FreeListIsFree DEF Inv, TypeOK, OldType
    <3> QED BY <3>2 DEF FreeListOK, FreeOK
  <2>2. CASE cursor \notin dead
    BY <2>2 DEF FreeDead, Inv, TypeOK, OldType, FreeListOK
  <2> QED BY <2>1, <2>2
<1>5. SemiSpaceOK(from')
  BY <1>1 DEF Inv, TypeOK, SemiSpaceOK
<1>6. \A i \in dead : i >= cursor' => old'.slots[i] # NoObject
  BY <1>1, <1>2, <1>3, <1>4 DEF Inv, Phases
<1> QED BY <1>1, <1>2, <1>4, <1>5, <1>6, SweepingStep

LEMMA ResetSurvivorsInv == ASSUME Inv, ResetSurvivors PROVE Inv'
<1>1. /\ pc = "join" /\ old' = [old EXCEPT !.slots = ResetColors(@)] /\ dead' = {}
      /\ pc' = "sweepNew"
      /\ UNCHANGED <<from, storeBuffer, todo, worklist, current, cursor, markUnchanged>>
  BY DEF ResetSurvivors
<1>2. old.slots \in Seq(Slot) /\ old.freeList \in Seq(Index)
      /\ old' = [slots |-> ResetColors(old.slots), freeList |-> old.freeList]
  BY <1>1 DEF Inv, TypeOK
<1>3. OldType(old') /\ SameSlots(old'.slots, old.slots)
  BY <1>2, ResetSlots DEF OldType, SameSlots
<1>4. FreeListOK'
  BY <1>2, <1>3, FreeSame, FreeListIsFree DEF Inv, TypeOK, OldType, FreeOK, FreeListOK
<1>5. SemiSpaceOK(from') /\ cursor' \in Index
  BY <1>1 DEF Inv, TypeOK, SemiSpaceOK
<1> QED BY <1>1, <1>3, <1>4, <1>5, SweepingStep DEF SameSlots

LEMMA SweepNewInv == ASSUME Inv, SweepNew PROVE Inv'
<1>1. /\ pc = "sweepNew" /\ from' = [from EXCEPT !.slots = Sweep(@)] /\ pc' = "retain"
      /\ UNCHANGED <<old, storeBuffer, todo, worklist, current, cursor, dead, markUnchanged>>
  BY DEF SweepNew
<1>2. from.slots \in Seq(Slot) /\ from.generation \in Nat /\ Len(from.slots) <= Capacity
      /\ from' = [slots |-> Sweep(from.slots), generation |-> from.generation]
  BY <1>1 DEF Inv, TypeOK, SemiSpaceOK
<1>3. Sweep(from.slots) \in Seq(Slot) /\ Len(Sweep(from.slots)) = Len(from.slots)
  <2> DEFINE swept(i) == IF i \in White(from.slots) THEN NoObject ELSE Paint(from.slots[i], "White")
  <2>1. \A i \in 1..Len(from.slots) : swept(i) \in Slot
    <3>1. \A i \in 1..Len(from.slots) : Paint(from.slots[i], "White") \in Slot
      BY <1>2, PaintSlot DEF Colors
    <3> QED BY <3>1 DEF Slot
  <2>2. Sweep(from.slots) = [i \in 1..Len(from.slots) |-> swept(i)]
    BY <1>2 DEF Sweep
  <2> HIDE DEF swept
  <2> QED BY <1>2, <2>1, <2>2
<1>4. SemiSpaceOK(from')
  BY <1>2, <1>3 DEF SemiSpaceOK
<1>5. TypeOK'
  BY <1>1, <1>4 DEF Inv, TypeOK, SemiSpaceOK, markUnchanged, rootSet, Steps
<1>6. Frames' /\ Phases'
  BY <1>1 DEF Inv, Frames, Phases, Marking, markUnchanged
<1> QED BY <1>1, <1>5, <1>6, SameScopes DEF Inv, FreeListOK, markUnchanged, rootSet

LEMMA RetainEntriesInv == ASSUME Inv, RetainEntries PROVE Inv'
<1>1. /\ pc = "retain" /\ cursor' = 1 /\ pc' = "mutator"
      /\ storeBuffer' \subseteq storeBuffer
      /\ UNCHANGED <<from, old, todo, worklist, current, dead, markUnchanged>>
  BY DEF RetainEntries
<1>2. TypeOK'
  BY <1>1 DEF Inv, TypeOK, SemiSpaceOK, markUnchanged, rootSet, Steps, Index
<1>3. Frames' /\ Phases'
  BY <1>1 DEF Inv, Frames, Phases, Marking, markUnchanged
<1> QED BY <1>1, <1>2, <1>3, SameScopes DEF Inv, FreeListOK, markUnchanged, rootSet

LEMMA MarkSweepStepInv == ASSUME Inv, MarkSweepStep PROVE Inv'
  BY PaintNextInv, BlackenInv, PopGreyInv, SweepOldInv, SweepOldDoneInv, SpawnSweeperInv,
     FreeDeadInv, ResetSurvivorsInv, SweepNewInv, RetainEntriesInv
  DEF MarkSweepStep

-----------------------------------------------------------------------------
(* The whole heap *)

LEMMA InitInv == Init => Inv
<1> SUFFICES ASSUME Init PROVE Inv
  OBVIOUS
<1>1. SemiSpaceOK(from) /\ SemiSpaceOK(to)
  BY HeapAssumption, EmptySeq DEF Init, SemiSpaceOK
<1>2. /\ old \in [slots : Seq(Slot), freeList : Seq(Index)]
      /\ handles \in Seq(HeapId) /\ scopeMarks \in Seq(Nat) /\ worklist \in Seq(HeapId)
  BY EmptySeq DEF Init
<1>3. DOMAIN forwarding = {} /\ forwarding \in [DOMAIN forwarding -> HeapId]
  BY DEF Init
<1>4. DOMAIN old.slots = {} /\ DOMAIN old.freeList = {} /\ Elements(old.freeList) = {}
      /\ Elements(worklist) = {} /\ Len(scopeMarks) = 0
  BY DEF Init, Elements
<1>5. TypeOK
  <2>1. pairs \subseteq DOMAIN forwarding /\ dead \subseteq DOMAIN old.slots
    BY DEF Init
  <2>2. cursor \in Index /\ allocated \in 0..MaxObjects /\ cycles \in Nat /\ pc \in Steps
    BY HeapAssumption DEF Init, Index, Steps
  <2> QED BY <1>1, <1>2, <1>3, <2>1, <2>2 DEF Init, TypeOK
<1>6. FreeListOK
  BY <1>4 DEF FreeListOK
<1>7. Frames /\ Phases /\ ScopesNested
  BY <1>4 DEF Init, Frames, Phases, ScopesNested, Marking, Waiting
<1> QED BY <1>5, <1>6, <1>7 DEF Inv

LEMMA ClientInv == ASSUME Inv, Client PROVE Inv'
<1>1. CASE Allocate
  BY <1>1, AllocateInv
<1>2. CASE AllocateWhenFull
  BY <1>2, ScavengeBeginOK DEF AllocateWhenFull
<1>3. CASE AllocateOld
  BY <1>3, AllocateOldInv
<1>4. CASE \E source, target \in Held : WriteBarrier(source, target) \/ DropReference(source, target)
  BY <1>4, WriteBarrierInv
<1>5. CASE \E id \in Held : AddGlobalRoot(id) \/ RemoveGlobalRoot(id)
  BY <1>5, AddGlobalRootInv
<1>6. CASE (\E id \in Held : CreateHandle(id)) \/ OpenHandleScope \/ CloseHandleScope
  BY <1>6, HandlesInv
<1>7. CASE CollectScavenge
  <2>1. pending' = FALSE
    BY <1>7, IdlePairs DEF CollectScavenge
  <2>2. UNCHANGED scopeMarks
    BY <1>7 DEF CollectScavenge, ScavengeBegin, rootSet
  <2> QED BY <1>7, <2>1, <2>2, ScavengeBeginOK DEF CollectScavenge
<1>8. CASE CollectMarkSweep
  BY <1>8, MarkBeginInv DEF CollectMarkSweep
<1>9. CASE CollectConcurrent
  BY <1>9, MarkBeginInv DEF CollectConcurrent
<1> QED BY <1>1, <1>2, <1>3, <1>4, <1>5, <1>6, <1>7, <1>8, <1>9 DEF Client

LEMMA StutterInv == ASSUME Inv, UNCHANGED vars PROVE Inv'
<1>1. UNCHANGED <<spaces, rootSet, storeBuffer, local, allocated, cycles, frame, pc, pending>>
  BY DEF vars
<1>2. TypeOK'
  BY <1>1 DEF Inv, TypeOK, SemiSpaceOK, spaces, rootSet, frame
<1>3. FreeListOK' /\ Phases'
  BY <1>1 DEF Inv, FreeListOK, Phases, spaces, frame
<1>4. Frames'
  BY <1>1 DEF Inv, Frames, Marking, Waiting, InSlot, InSlotOf, Found, InBounds, SlotOf, spaces,
              frame
<1>5. ScopesNested'
  BY <1>1, SameScopes DEF rootSet
<1> QED BY <1>2, <1>3, <1>4, <1>5 DEF Inv

(* The invariant holds in every state the heap can reach, at every step of *)
(* every collection.                                                       *)
THEOREM Invariance == Spec => []Inv
<1>1. Init => Inv
  BY InitInv
<1>2. Inv /\ [Next]_vars => Inv'
  <2> SUFFICES ASSUME Inv, [Next]_vars PROVE Inv'
    OBVIOUS
  <2>1. CASE Client
    BY <2>1, ClientInv
  <2>2. CASE Collector
    BY <2>2, ScavengeStepInv, MarkSweepStepInv, AllocateAfterScavengeInv DEF Collector
  <2>3. CASE UNCHANGED vars
    BY <2>3, StutterInv
  <2> QED BY <2>1, <2>2, <2>3 DEF Next
<1> QED BY <1>1, <1>2, PTL DEF Spec

(* The heap is well-typed, so no semi-space outgrows its capacity, and     *)
(* whatever a collection takes from its worklist names an occupied slot.   *)
THEOREM TypeCorrect == Spec => [](TypeOK /\ Frames)
<1>1. Inv => TypeOK /\ Frames
  BY DEF Inv
<1> QED BY <1>1, Invariance, PTL

(* OldSpace::free, allocate and place never lose a slot nor hand one to    *)
(* two objects: the free list names exactly the empty slots, once each.    *)
THEOREM FreeListCorrect == Spec => []FreeListOK
<1>1. Inv => FreeListOK
  BY DEF Inv
<1> QED BY <1>1, Invariance, PTL

(* CloseHandleScope never asks for handles beyond those registered: the    *)
(* marks of the open scopes lie within the handles, innermost last.        *)
THEOREM ScopesCorrect == Spec => []ScopesNested
<1>1. Inv => ScopesNested
  BY DEF Inv
<1> QED BY <1>1, Invariance, PTL

-----------------------------------------------------------------------------
(* Room in ToSpace *)

NurseryId(i) == [space |-> "New", index |-> i, generation |-> from.generation]

(* The slots of FromSpace whose object was evacuated. *)
Left == {i \in 1..Len(from.slots) : NurseryId(i) \in DOMAIN forwarding}

Scavenging == pc \in {"evacuate", "scan", "handles", "oldReferences", "flip"}

(* ToSpace holds at most one object for each slot evacuated. *)
Room ==
  /\ pc \in {"evacuate", "scan"} => Len(to.slots) <= Cardinality(Left)
  /\ ~Scavenging => to.slots = <<>>

LEMMA LeftFinite ==
  ASSUME TypeOK
  PROVE  IsFiniteSet(Left) /\ Cardinality(Left) \in Nat /\ Cardinality(Left) <= Len(from.slots)
<1>1. Len(from.slots) \in Nat
  BY DEF TypeOK, SemiSpaceOK
<1>2. IsFiniteSet(1..Len(from.slots)) /\ Cardinality(1..Len(from.slots)) = Len(from.slots)
  BY <1>1, FS_Interval
<1>3. Left \in SUBSET (1..Len(from.slots))
  BY DEF Left
<1> QED BY <1>2, <1>3, FS_Subset, FS_CardinalityType

(* An id of FromSpace is the id of its slot. *)
LEMMA ContainedId ==
  ASSUME NEW id \in HeapId, Contains(from, id)
  PROVE  id.index \in 1..Len(from.slots) /\ id = NurseryId(id.index)
  BY DEF Contains, HeapId, NurseryId

(* An object still to be evacuated is not among those that left. *)
LEMMA StillThere ==
  ASSUME TypeOK, NEW id \in HeapId, Contains(from, id), Moves(id)
  PROVE  Cardinality(Left) < Len(from.slots)
<1>1. Len(from.slots) \in Nat
  BY DEF TypeOK, SemiSpaceOK
<1>2. IsFiniteSet(1..Len(from.slots)) /\ Cardinality(1..Len(from.slots)) = Len(from.slots)
  BY <1>1, FS_Interval
<1>3. Left \in SUBSET (1..Len(from.slots)) /\ Left # 1..Len(from.slots)
  BY ContainedId DEF Left, Moves
<1> HIDE DEF Left
<1>4. Cardinality(Left) <= Len(from.slots) /\ Cardinality(Left) # Len(from.slots)
  BY <1>2, <1>3, FS_Subset
<1> QED BY <1>1, <1>4, LeftFinite

(* evacuate_object makes room before it takes any. *)
LEMMA EvacuateRoom ==
  ASSUME TypeOK, NEW id \in HeapId, Contains(from, id), Evacuate(id), UNCHANGED from,
         Len(to.slots) <= Cardinality(Left)
  PROVE  Len(to'.slots) <= Cardinality(Left')
<1>1. Len(to.slots) \in Nat
  BY DEF TypeOK, SemiSpaceOK
<1>2. CASE ~Moves(id)
  BY <1>2 DEF Evacuate, Left, NurseryId
<1>3. CASE Moves(id)
  <2>1. Len(to'.slots) <= Len(to.slots) + 1 /\ Len(to'.slots) \in Nat
    <3>1. CASE Tenured(id)
      BY <1>1, <1>3, <3>1 DEF Evacuate
    <3>2. CASE ~Tenured(id)
      <4>1. to' = PlaceSemi(to, Aged(id))
        BY <1>3, <3>2 DEF Evacuate
      <4>2. to'.slots = Append(to.slots, Aged(id)) /\ to.slots \in Seq(Slot)
        BY <4>1, SemiRecord DEF PlaceSemi, TypeOK, SemiSpaceOK
      <4>3. Len(to'.slots) = Len(to.slots) + 1
        BY <4>2
      <4> QED BY <1>1, <4>3
    <3> QED BY <3>1, <3>2
  <2>2. DOMAIN forwarding' = DOMAIN forwarding \cup {id}
    BY <1>3 DEF Evacuate, Forward
  <2>3. Left' = Left \cup {id.index} /\ id.index \notin Left
    <3>1. \A i \in 1..Len(from.slots) : NurseryId(i) = id <=> i = id.index
      BY ContainedId DEF NurseryId
    <3> QED BY <1>3, <2>2, <3>1, ContainedId DEF Left, NurseryId, Moves
  <2> HIDE DEF Left
  <2>4. Cardinality(Left') = Cardinality(Left) + 1
    BY <2>3, LeftFinite, FS_AddElement
  <2> QED BY <1>1, <2>1, <2>4, LeftFinite
<1> QED BY <1>2, <1>3

LEMMA RoomInit == Init => Room
  BY DEF Init, Room, Scavenging

LEMMA SameRoom ==
  ASSUME Room, UNCHANGED <<from, to, forwarding>>,
         pc' \in {"evacuate", "scan"} => pc \in {"evacuate", "scan"}, Scavenging => Scavenging'
  PROVE  Room'
  BY DEF Room, Left, NurseryId, Scavenging

LEMMA RoomBegin == ASSUME Inv, Room, Mutating, ScavengeBegin PROVE Room'
<1>1. to'.slots = <<>> /\ pc' = "evacuate"
  BY DEF ScavengeBegin, Room, Scavenging, Mutating, spaces
<1>2. Cardinality(Left') >= 0
  <2>1. Left' = {}
    BY DEF ScavengeBegin, Left
  <2> HIDE DEF Left
  <2> QED BY <2>1, FS_EmptySet
<1> QED BY <1>1, <1>2 DEF Room, Scavenging

LEMMA RoomClient == ASSUME Inv, Room, Client PROVE Room'
<1>1. CASE Mutating /\ UNCHANGED <<pc, to>>
  BY <1>1 DEF Room, Scavenging, Mutating
<1>2. CASE AllocateWhenFull \/ CollectScavenge
  BY <1>2, RoomBegin DEF AllocateWhenFull, CollectScavenge
<1>3. CASE CollectMarkSweep \/ CollectConcurrent
  BY <1>3 DEF CollectMarkSweep, CollectConcurrent, MarkBegin, Room, Scavenging, Mutating
<1> QED BY <1>1, <1>2, <1>3
        DEF Client, Allocate, AllocateOld, WriteBarrier, DropReference, AddGlobalRoot,
            RemoveGlobalRoot, CreateHandle, OpenHandleScope, CloseHandleScope, spaces

LEMMA RoomScavenge == ASSUME Inv, Room, ScavengeStep PROVE Room'
<1>1. CASE \E root \in todo : EvacuateRoot(root)
  <2>1. PICK root \in todo : EvacuateRoot(root)
    BY <1>1
  <2>2. CASE Contains(from, root)
    BY <2>1, <2>2, EvacuateRoom DEF EvacuateRoot, Room, Scavenging, Inv, TypeOK
  <2>3. CASE ~Contains(from, root)
    BY <2>1, <2>3, SameRoom DEF EvacuateRoot, Scavenging
  <2> QED BY <2>2, <2>3
<1>2. CASE \E ref \in todo : ScanReference(ref)
  <2>1. PICK ref \in todo : ScanReference(ref)
    BY <1>2
  <2>2. CASE Contains(from, ref)
    BY <2>1, <2>2, EvacuateRoom DEF ScanReference, Room, Scavenging, Inv, TypeOK
  <2>3. CASE ~Contains(from, ref)
    BY <2>1, <2>3, SameRoom DEF ScanReference, Scavenging
  <2> QED BY <2>2, <2>3
<1>3. CASE EvacuateRootsDone \/ ScanNext \/ ScanDone \/ UpdateHandles \/ UpdateGlobalRoots
           \/ KeepEntries \/ \E entry \in entries : UpdateOldReference(entry)
  BY <1>3, SameRoom
  DEF EvacuateRootsDone, ScanNext, ScanDone, UpdateHandles, UpdateGlobalRoots, KeepEntries,
      UpdateOldReference, Scavenging, spaces, frame
<1>4. CASE ScanStore
  <2>1. UNCHANGED <<from, forwarding, pc>> /\ pc = "scan" /\ current # NoId
    BY <1>4 DEF ScanStore
  <2>2. Len(to'.slots) = Len(to.slots)
    <3>1. CASE current.space = "New"
      <4>1. to' = SetToRefs(current.index, updated)
        BY <1>4, <3>1 DEF ScanStore
      <4>2. to' = [slots |-> WithRefs(to.slots, current.index, updated),
                   generation |-> to.generation]
        BY <4>1 DEF SetToRefs, Inv, TypeOK, SemiSpaceOK
      <4>3. InSlot(current)
        BY <2>1 DEF Inv, Frames, Waiting
      <4>4. current.index \in 1..Len(to.slots) /\ to.slots[current.index] # NoObject
        BY <3>1, <4>3 DEF InSlot, InSlotOf, Occupied
      <4>5. Len(WithRefs(to.slots, current.index, updated)) = Len(to.slots)
        BY <4>4, SlotRefs DEF Inv, TypeOK, SemiSpaceOK
      <4> QED BY <4>2, <4>5
    <3>2. CASE current.space # "New"
      BY <1>4, <3>2 DEF ScanStore
    <3> QED BY <3>1, <3>2
  <2> QED BY <2>1, <2>2 DEF Room, Left, NurseryId, Scavenging
<1>5. CASE Flip
  <2>1. pc' \notin {"evacuate", "scan"} /\ to' = ResetSemi(from)
    BY <1>5 DEF Flip
  <2> QED BY <2>1 DEF Room, ResetSemi
<1> QED BY <1>1, <1>2, <1>3, <1>4, <1>5 DEF ScavengeStep

LEMMA RoomCollector ==
  ASSUME Inv, Room, MarkSweepStep \/ AllocateAfterScavenge \/ UNCHANGED vars PROVE Room'
<1>1. CASE ~Scavenging /\ ~Scavenging' /\ UNCHANGED to
  BY <1>1 DEF Room, Scavenging
<1>2. CASE UNCHANGED vars
  BY <1>2, SameRoom DEF vars, spaces, frame, Scavenging
<1>3. CASE AllocateAfterScavenge
  BY <1>1, <1>3 DEF AllocateAfterScavenge, Scavenging
<1>4. CASE MarkSweepStep
  BY <1>1, <1>4
  DEF MarkSweepStep, PaintNext, Blacken, PopGrey, SweepOld, SweepOldDone, SpawnSweeper, FreeDead,
      ResetSurvivors, SweepNew, RetainEntries, markUnchanged, Marking, MarkDone, Scavenging
<1> QED BY <1>2, <1>3, <1>4

(* Scavenger::collect never panics with "ToSpace capacity exceeded": what  *)
(* it copies came from as many slots of a FromSpace no larger, also when   *)
(* ids of both semi-spaces carry the same generation.                      *)
THEOREM ToSpaceCorrect == Spec => []ToSpaceSuffices
<1>1. Init => Room
  BY RoomInit
<1>2. Inv /\ Room /\ [Next]_vars => Room'
  BY RoomClient, RoomScavenge, RoomCollector DEF Next, Collector
<1>3. Inv /\ Room => ToSpaceSuffices
  <2> SUFFICES ASSUME Inv, Room, pc = "evacuate" \/ (pc = "scan" /\ current # NoId),
                      NEW id \in todo, Contains(from, id), PanicsOn(id)
               PROVE  FALSE
    BY DEF ToSpaceSuffices
  <2>1. Moves(id) /\ IsFull(to) /\ id \in HeapId
    BY DEF PanicsOn, Inv, TypeOK
  <2>2. Cardinality(Left) < Len(from.slots)
    BY <2>1, StillThere DEF Inv
  <2>3. Len(to.slots) <= Cardinality(Left) /\ Len(from.slots) <= Capacity
        /\ Len(to.slots) >= Capacity
    BY <2>1 DEF Room, IsFull, Inv, TypeOK, SemiSpaceOK
  <2>4. Len(to.slots) \in Nat /\ Len(from.slots) \in Nat /\ Cardinality(Left) \in Nat
    BY LeftFinite DEF Inv, TypeOK, SemiSpaceOK
  <2> QED BY <2>2, <2>3, <2>4, HeapAssumption
<1> QED BY <1>1, <1>2, <1>3, Invariance, PTL DEF Spec

-----------------------------------------------------------------------------
(* What marking reaches *)

Roots == globalRoots \cup Elements(handles)
Live(id) == ObjectAt(Address(id)).color # "White"

(* The tri-color invariant, while nothing is swept yet.                    *)
Tricolor ==
  Marking /\ cursor = 1 =>
    /\ \A a \in Objects : ObjectAt(a).color # "White" => a \in Reachable
    /\ \A id \in todo : Found(id) => Address(id) \in Reachable
    /\ \A id \in Waiting : Live(id)
    /\ \A id \in Roots : Found(id) => id \in todo \/ Live(id)
    /\ \A a \in Objects : ObjectAt(a).color = "Black" =>
         \A r \in ObjectAt(a).refs : Found(r) => Live(r)
    /\ current # NoId =>
         \A r \in ObjectAt(Address(current)).refs : Found(r) => r \in todo \/ Live(r)
    /\ \A a \in Objects : ObjectAt(a).color = "Grey" => \E id \in Waiting : Address(id) = a

LEMMA RootIds == ASSUME TypeOK PROVE Roots \subseteq HeapId
<1>1. handles \in Seq(HeapId) /\ globalRoots \subseteq HeapId
  BY DEF TypeOK
<1> QED BY <1>1, ElementsAt DEF Roots

(* An id the collector finds leads to the object at its address. *)
LEMMA FoundObject ==
  ASSUME TypeOK, NEW id \in HeapId
  PROVE  /\ Found(id) <=> Address(id) \in Objects
         /\ SlotOf(id) = ObjectAt(Address(id))
<1>1. DOMAIN from.slots = 1..Len(from.slots) /\ DOMAIN old.slots = 1..Len(old.slots)
  BY DEF TypeOK, SemiSpaceOK
<1>2. id.space = "New" \/ id.space = "Old"
  BY DEF HeapId
<1>3. SlotOf(id) = ObjectAt(Address(id))
  BY <1>2 DEF SlotOf, ObjectAt, Address
<1>4. Address(id) \in Objects <=> Found(id)
  BY <1>1, <1>2, <1>3 DEF Objects, Address, Found, InBounds, SlotOf, ObjectAt
<1> QED BY <1>3, <1>4

LEMMA ObjectType ==
  ASSUME TypeOK, NEW a \in Objects
  PROVE  ObjectAt(a) \in HeapObject /\ ObjectAt(a).refs \in SUBSET HeapId
         /\ ObjectAt(a).color \in Colors
<1>1. ObjectAt(a) \in HeapObject
  BY DEF Objects, ObjectAt, TypeOK, SemiSpaceOK, Slot
<1> QED BY <1>1 DEF HeapObject

(* What is reachable is closed. *)
LEMMA ReachableClosed ==
  ASSUME TypeOK
  PROVE  Closed(Reachable)
<1>1. AddressesOf(Roots) \subseteq Reachable
  <2> SUFFICES ASSUME NEW id \in Roots, Found(id) PROVE Address(id) \in Reachable
    BY DEF AddressesOf
  <2>1. id \in HeapId
    BY ElementsAt DEF Roots, TypeOK
  <2> QED BY <2>1, FoundObject DEF Reachable, Closed, AddressesOf, Roots
<1>2. \A a \in Reachable : AddressesOf(ObjectAt(a).refs) \subseteq Reachable
  <2> SUFFICES ASSUME NEW a \in Reachable, NEW id \in ObjectAt(a).refs, Found(id)
               PROVE  Address(id) \in Reachable
    BY DEF AddressesOf
  <2>1. a \in Objects /\ id \in HeapId
    BY ObjectType DEF Reachable
  <2>2. Address(id) \in Objects
    BY <2>1, FoundObject
  <2>3. \A S \in SUBSET Objects : Closed(S) => Address(id) \in S
    BY DEF Reachable, Closed, AddressesOf
  <2> QED BY <2>2, <2>3 DEF Reachable
<1> QED BY <1>1, <1>2 DEF Closed, Roots

(* Objects of the same slots, with the same references. *)
SameGraph ==
  /\ Objects' = Objects
  /\ \A a \in Objects : ObjectAt(a)'.refs = ObjectAt(a).refs
  /\ \A id \in HeapId : Found(id)' <=> Found(id)

LEMMA SameReachable ==
  ASSUME TypeOK, SameGraph, UNCHANGED <<handles, globalRoots>>
  PROVE  Reachable' = Reachable
<1>1. \A ids \in SUBSET HeapId : AddressesOf(ids)' = AddressesOf(ids)
  BY DEF SameGraph, AddressesOf
<1>2. Roots \in SUBSET HeapId /\ Roots' = Roots
  BY ElementsAt DEF Roots, TypeOK
<1>3. AddressesOf(Roots)' = AddressesOf(Roots)
  BY <1>2 DEF SameGraph, AddressesOf
<1>4. \A a \in Objects : AddressesOf(ObjectAt(a).refs)' = AddressesOf(ObjectAt(a).refs)
  BY ObjectType DEF SameGraph, AddressesOf
<1>5. \A S \in SUBSET Objects : Closed(S)' <=> Closed(S)
  BY <1>3, <1>4 DEF Closed, Roots
<1> QED BY <1>5 DEF Reachable, SameGraph

(* Painting one slot changes its color alone. *)
LEMMA PaintedSlots ==
  ASSUME NEW slots \in Seq(Slot), NEW i \in 1..Len(slots), slots[i] # NoObject,
         NEW color \in Colors
  PROVE  LET painted == [slots EXCEPT ![i] = Paint(slots[i], color)]
         IN /\ painted \in Seq(Slot) /\ DOMAIN painted = DOMAIN slots
            /\ painted[i] # NoObject /\ painted[i].color = color
            /\ painted[i].refs = slots[i].refs
            /\ \A j \in 1..Len(slots) : j # i => painted[j] = slots[j]
<1> DEFINE object == [slots[i] EXCEPT !.color = color]
<1>1. slots[i] \in HeapObject /\ Paint(slots[i], color) = object
  BY DEF Slot, Paint
<1>2. object \in HeapObject /\ object.color = color /\ object.refs = slots[i].refs
  BY <1>1 DEF HeapObject
<1> HIDE DEF object
<1>3. object \in Slot /\ object # NoObject
  BY <1>2, SlotAssumption DEF Slot
<1> QED BY <1>1, <1>2, <1>3, SetSlot

(* set_color keeps the graph and colors the one object. *)
LEMMA SetColorGraph ==
  ASSUME TypeOK, NEW id \in HeapId, Found(id), NEW color \in Colors, SetColor(id, color)
  PROVE  /\ SameGraph
         /\ \A a \in Objects : ObjectAt(a)'.color =
              IF a = Address(id) THEN color ELSE ObjectAt(a).color
<1>1. /\ from.slots \in Seq(Slot) /\ DOMAIN from.slots = 1..Len(from.slots)
      /\ old.slots \in Seq(Slot) /\ DOMAIN old.slots = 1..Len(old.slots)
  BY DEF TypeOK, SemiSpaceOK
<1>2. CASE id.space = "New"
  <2>1. id.index \in 1..Len(from.slots) /\ from.slots[id.index] # NoObject
    BY <1>2 DEF Found, InBounds, SlotOf
  <2> DEFINE painted == [from.slots EXCEPT ![id.index] = Paint(from.slots[id.index], color)]
  <2>2. from'.slots = painted /\ UNCHANGED old
    BY <1>2 DEF SetColor, TypeOK, SemiSpaceOK
  <2>3. /\ DOMAIN painted = DOMAIN from.slots
        /\ painted[id.index] # NoObject /\ painted[id.index].color = color
        /\ painted[id.index].refs = from.slots[id.index].refs
        /\ \A j \in 1..Len(from.slots) : j # id.index => painted[j] = from.slots[j]
    BY <1>1, <2>1, PaintedSlots
  <2> HIDE DEF painted
  <2>4. \A j \in DOMAIN from.slots : painted[j] = NoObject <=> from.slots[j] = NoObject
    BY <1>1, <2>1, <2>3
  <2>5. Objects' = Objects
    BY <2>2, <2>3, <2>4 DEF Objects, ObjectAt
  <2>6. \A a \in Objects : /\ ObjectAt(a)'.refs = ObjectAt(a).refs
                           /\ ObjectAt(a)'.color = IF a = Address(id) THEN color
                                                   ELSE ObjectAt(a).color
    BY <1>1, <1>2, <2>2, <2>3 DEF Objects, ObjectAt, Address
  <2>7. \A x \in HeapId : Found(x)' <=> Found(x)
    BY <1>1, <2>2, <2>3, <2>4 DEF Found, InBounds, SlotOf
  <2> QED BY <2>5, <2>6, <2>7 DEF SameGraph
<1>3. CASE id.space = "Old"
  <2>1. id.index \in 1..Len(old.slots) /\ old.slots[id.index] # NoObject
    BY <1>3 DEF Found, InBounds, SlotOf
  <2> DEFINE painted == [old.slots EXCEPT ![id.index] = Paint(old.slots[id.index], color)]
  <2>2. old'.slots = painted /\ UNCHANGED from
    BY <1>3 DEF SetColor, TypeOK
  <2>3. /\ DOMAIN painted = DOMAIN old.slots
        /\ painted[id.index] # NoObject /\ painted[id.index].color = color
        /\ painted[id.index].refs = old.slots[id.index].refs
        /\ \A j \in 1..Len(old.slots) : j # id.index => painted[j] = old.slots[j]
    BY <1>1, <2>1, PaintedSlots
  <2> HIDE DEF painted
  <2>4. \A j \in DOMAIN old.slots : painted[j] = NoObject <=> old.slots[j] = NoObject
    BY <1>1, <2>1, <2>3
  <2>5. Objects' = Objects
    BY <2>2, <2>3, <2>4 DEF Objects, ObjectAt
  <2>6. \A a \in Objects : /\ ObjectAt(a)'.refs = ObjectAt(a).refs
                           /\ ObjectAt(a)'.color = IF a = Address(id) THEN color
                                                   ELSE ObjectAt(a).color
    BY <1>1, <1>3, <2>2, <2>3 DEF Objects, ObjectAt, Address
  <2>7. \A x \in HeapId : Found(x)' <=> Found(x)
    BY <1>1, <2>2, <2>3, <2>4 DEF Found, InBounds, SlotOf
  <2> QED BY <2>5, <2>6, <2>7 DEF SameGraph
<1> QED BY <1>2, <1>3 DEF HeapId

LEMMA NothingChanged ==
  ASSUME UNCHANGED <<from, old>>
  PROVE  SameGraph /\ \A a \in Objects : ObjectAt(a)'.color = ObjectAt(a).color
  BY DEF SameGraph, Objects, ObjectAt, Found, InBounds, SlotOf

-----------------------------------------------------------------------------
(* The tri-color invariant, step by step *)

LEMMA ResetWhite ==
  ASSUME NEW slots \in Seq(Slot), NEW i \in 1..Len(slots), slots[i] # NoObject
  PROVE  ResetColors(slots)[i].color = "White"
<1>1. slots[i] \in HeapObject
  BY DEF Slot
<1>2. [slots[i] EXCEPT !.color = "White"].color = "White"
  BY <1>1 DEF HeapObject
<1> QED BY <1>2 DEF ResetColors, Paint

LEMMA BeginTricolor ==
  ASSUME Inv, Inv', NEW mode \in {"mark", "markConcurrent"}, MarkBegin(mode)
  PROVE  Tricolor'
<1>1. /\ from'.slots = ResetColors(from.slots) /\ old'.slots = ResetColors(old.slots)
      /\ worklist' = <<>> /\ current' = NoId
      /\ todo' = Roots' /\ UNCHANGED rootSet
  BY DEF MarkBegin, Inv, TypeOK, SemiSpaceOK, Roots, rootSet, Elements
<1>2. from.slots \in Seq(Slot) /\ old.slots \in Seq(Slot)
      /\ from'.slots \in Seq(Slot) /\ old'.slots \in Seq(Slot)
  BY DEF Inv, TypeOK, SemiSpaceOK
<1>3. \A a \in Objects' : ObjectAt(a)'.color = "White"
  <2> SUFFICES ASSUME NEW a \in Objects' PROVE ObjectAt(a)'.color = "White"
    OBVIOUS
  <2>1. CASE a[1] = "New"
    <3>1. a[2] \in 1..Len(from.slots) /\ from.slots[a[2]] # NoObject
      BY <1>1, <1>2, <2>1, ResetSlots DEF Objects, ObjectAt
    <3> QED BY <1>1, <1>2, <2>1, <3>1, ResetWhite DEF ObjectAt
  <2>2. CASE a[1] # "New"
    <3>1. a[2] \in 1..Len(old.slots) /\ old.slots[a[2]] # NoObject
      BY <1>1, <1>2, <2>2, ResetSlots DEF Objects, ObjectAt
    <3> QED BY <1>1, <1>2, <2>2, <3>1, ResetWhite DEF ObjectAt
  <2> QED BY <2>1, <2>2
<1>4. Waiting' = {}
  BY <1>1 DEF Waiting, Elements
<1>5. \A id \in todo' : Found(id)' => Address(id) \in Reachable'
  <2> SUFFICES ASSUME NEW id \in todo', Found(id)' PROVE Address(id) \in Reachable'
    OBVIOUS
  <2>1. id \in HeapId
    BY DEF Inv, TypeOK
  <2>2. Address(id) \in Objects'
    <3>1. DOMAIN from'.slots = 1..Len(from'.slots) /\ DOMAIN old'.slots = 1..Len(old'.slots)
      BY <1>2
    <3> QED BY <2>1, <3>1 DEF Found, InBounds, SlotOf, Objects, ObjectAt, Address, HeapId
  <2> QED BY <1>1, <2>2 DEF Reachable, Closed, AddressesOf, Roots
<1> QED BY <1>1, <1>3, <1>4, <1>5 DEF Tricolor

(* The elements of a sequence after a push and after a pop. *)
LEMMA PushElements ==
  ASSUME NEW S, NEW s \in Seq(S), NEW x \in S
  PROVE  Elements(Append(s, x)) = Elements(s) \cup {x}
<1> DEFINE t == Append(s, x)
<1>1. /\ t \in Seq(S) /\ Len(t) = Len(s) + 1 /\ Len(s) \in Nat
      /\ \A i \in 1..Len(s) : t[i] = s[i]
      /\ t[Len(s) + 1] = x
  BY AppendProperties
<1> HIDE DEF t
<1>2. \A i : i \in 1..Len(t) <=> i = Len(s) + 1 \/ i \in 1..Len(s)
  BY <1>1
<1>3. Elements(t) = Elements(s) \cup {x}
  BY <1>1, <1>2, ElementsAt
<1> QED BY <1>3 DEF t

LEMMA PopElements ==
  ASSUME NEW S, NEW s \in Seq(S), s # <<>>
  PROVE  Elements(s) = Elements(SubSeq(s, 1, Len(s) - 1)) \cup {s[Len(s)]}
<1> DEFINE t == SubSeq(s, 1, Len(s) - 1)
<1>1. Len(s) \in Nat \ {0} /\ DOMAIN s = 1..Len(s)
  BY EmptySeq
<1>2. t \in Seq(S) /\ Len(t) = Len(s) - 1 /\ \A i \in 1..(Len(s) - 1) : t[i] = s[i]
  <2>1. \A i \in 1..(Len(s) - 1) : s[i] \in S
    BY <1>1
  <2> QED BY <1>1, <2>1, SubSeqProperties
<1> HIDE DEF t
<1>3. \A i : i \in 1..Len(s) <=> i = Len(s) \/ i \in 1..Len(t)
  BY <1>1, <1>2
<1>4. Elements(s) = Elements(t) \cup {s[Len(s)]}
  BY <1>1, <1>2, <1>3, ElementsAt
<1> QED BY <1>4 DEF t

(* paint_grey of the next root or reference. *)
LEMMA PaintTricolor ==
  ASSUME Inv, Tricolor, NEW id \in todo, PaintNext(id), cursor = 1
  PROVE  Tricolor'
<1>1. /\ Marking /\ PaintGrey(id) /\ todo' = todo \ {id}
      /\ UNCHANGED <<pc, current, cursor, handles, globalRoots>>
  BY DEF PaintNext, markUnchanged, rootSet
<1>2. id \in HeapId /\ todo \in SUBSET HeapId /\ worklist \in Seq(HeapId) /\ TypeOK
      /\ current \in HeapId \cup {NoId}
  BY <1>1 DEF Inv, TypeOK
<1>3. /\ \A a \in Objects : ObjectAt(a).color # "White" => a \in Reachable
      /\ \A x \in todo : Found(x) => Address(x) \in Reachable
      /\ \A x \in Waiting : Live(x)
      /\ \A x \in Roots : Found(x) => x \in todo \/ Live(x)
      /\ \A a \in Objects : ObjectAt(a).color = "Black" =>
           \A r \in ObjectAt(a).refs : Found(r) => Live(r)
      /\ current # NoId =>
           \A r \in ObjectAt(Address(current)).refs : Found(r) => r \in todo \/ Live(r)
      /\ \A a \in Objects : ObjectAt(a).color = "Grey" => \E x \in Waiting : Address(x) = a
  BY <1>1 DEF Tricolor
<1>4. Roots' = Roots /\ Roots \subseteq HeapId
  BY <1>1, <1>2, RootIds DEF Roots
<1>5. /\ SameGraph /\ Waiting \subseteq Waiting' /\ Waiting' \subseteq Waiting \cup {id}
      /\ \A a \in Objects : ObjectAt(a)'.color = ObjectAt(a).color
                            \/ (a = Address(id) /\ ObjectAt(a)'.color = "Grey" /\ id \in Waiting')
      /\ Found(id) => Live(id)' /\ (Live(id) \/ id \in Waiting')
      /\ \A x \in HeapId : Found(x) /\ Live(x) => Live(x)'
      /\ id \in Waiting' => id \in Waiting \/ Found(id)
  <2>1. CASE Found(id) /\ SlotOf(id).color = "White"
    <3>1. SetColor(id, "Grey") /\ worklist' = Append(worklist, id)
      BY <1>1, <2>1 DEF PaintGrey
    <3>2. Elements(worklist') = Elements(worklist) \cup {id}
      BY <1>2, <3>1, PushElements
    <3>3. Waiting' = Waiting \cup {id}
      BY <1>1, <1>2, <3>2, SlotAssumption DEF Waiting
    <3>4. SameGraph /\ \A a \in Objects : ObjectAt(a)'.color =
                          IF a = Address(id) THEN "Grey" ELSE ObjectAt(a).color
      BY <1>2, <2>1, <3>1, SetColorGraph DEF Colors
    <3>5. Address(id) \in Objects /\ \A x \in HeapId : Found(x) => Address(x) \in Objects
      BY <1>2, <2>1, FoundObject
    <3> QED BY <2>1, <3>3, <3>4, <3>5 DEF Live
  <2>2. CASE ~(Found(id) /\ SlotOf(id).color = "White")
    <3>1. UNCHANGED <<from, old, worklist>>
      BY <1>1, <2>2 DEF PaintGrey
    <3>2. SameGraph /\ \A a \in Objects : ObjectAt(a)'.color = ObjectAt(a).color
      BY <3>1, NothingChanged
    <3>3. Waiting' = Waiting
      BY <1>1, <3>1 DEF Waiting
    <3>4. \A x \in HeapId : Found(x) => Address(x) \in Objects /\ SlotOf(x) = ObjectAt(Address(x))
      BY <1>2, FoundObject
    <3> QED BY <1>2, <2>2, <3>2, <3>3, <3>4 DEF Live
  <2> QED BY <2>1, <2>2
<1>6. Reachable' = Reachable
  BY <1>1, <1>2, <1>5, SameReachable
<1>7. Reachable \subseteq Objects
  BY DEF Reachable
<1>8. \A a \in Objects' : ObjectAt(a)'.color # "White" => a \in Reachable'
  <2>1. Found(id) => Address(id) \in Reachable
    BY <1>3
  <2>2. id \in Waiting => Found(id)
    BY <1>1, WaitingFound
  <2> QED BY <1>3, <1>5, <1>6, <2>1, <2>2 DEF SameGraph
<1>9. \A x \in todo' : Found(x)' => Address(x) \in Reachable'
  BY <1>1, <1>2, <1>3, <1>5, <1>6 DEF SameGraph
<1>10. \A x \in Waiting' : Live(x)'
  BY <1>1, <1>3, <1>5, WaitingFound
<1>11. \A x \in Roots' : Found(x)' => x \in todo' \/ Live(x)'
  BY <1>1, <1>3, <1>4, <1>5 DEF SameGraph
<1>12. \A a \in Objects' : ObjectAt(a)'.color = "Black" =>
         \A r \in ObjectAt(a)'.refs : Found(r)' => Live(r)'
  BY <1>2, <1>3, <1>5, ObjectType DEF SameGraph
<1>13. current' # NoId =>
         \A r \in ObjectAt(Address(current))'.refs : Found(r)' => r \in todo' \/ Live(r)'
  <2> SUFFICES ASSUME current # NoId, NEW r \in ObjectAt(Address(current))'.refs, Found(r)'
               PROVE  r \in todo' \/ Live(r)'
    BY <1>1
  <2>1. current \in Waiting /\ Found(current) /\ current \in HeapId
    BY <1>1, <1>2, WaitingFound DEF Waiting
  <2>2. Address(current) \in Objects
    BY <1>2, <2>1, FoundObject
  <2>4. r \in ObjectAt(Address(current)).refs
    BY <1>1, <1>5, <2>2 DEF SameGraph
  <2>5. r \in HeapId /\ Found(r)
    BY <1>2, <1>5, <2>2, <2>4, ObjectType DEF SameGraph
  <2> QED BY <1>1, <1>3, <1>5, <2>4, <2>5
<1>14. \A a \in Objects' : ObjectAt(a)'.color = "Grey" => \E x \in Waiting' : Address(x) = a
  BY <1>3, <1>5 DEF SameGraph
<1> QED BY <1>8, <1>9, <1>10, <1>11, <1>12, <1>13, <1>14 DEF Tricolor

(* Every reference of the current object has been painted. *)
LEMMA BlackenTricolor == ASSUME Inv, Tricolor, Blacken, cursor = 1 PROVE Tricolor'
<1>1. /\ Marking /\ todo = {} /\ current # NoId /\ SetColor(current, "Black")
      /\ current' = NoId /\ UNCHANGED <<pc, todo, worklist, cursor, handles, globalRoots>>
  BY DEF Blacken, markUnchanged, rootSet
<1>2. TypeOK /\ current \in HeapId /\ current \in Waiting /\ Found(current)
  BY <1>1, WaitingFound DEF Inv, TypeOK, Waiting
<1>3. /\ \A a \in Objects : ObjectAt(a).color # "White" => a \in Reachable
      /\ \A x \in Waiting : Live(x)
      /\ \A x \in Roots : Found(x) => Live(x)
      /\ \A a \in Objects : ObjectAt(a).color = "Black" =>
           \A r \in ObjectAt(a).refs : Found(r) => Live(r)
      /\ \A r \in ObjectAt(Address(current)).refs : Found(r) => Live(r)
      /\ \A a \in Objects : ObjectAt(a).color = "Grey" => \E x \in Waiting : Address(x) = a
  BY <1>1 DEF Tricolor
<1>4. /\ SameGraph
      /\ \A a \in Objects : ObjectAt(a)'.color =
           IF a = Address(current) THEN "Black" ELSE ObjectAt(a).color
  BY <1>1, <1>2, SetColorGraph DEF Colors
<1>5. Roots' = Roots /\ Roots \subseteq HeapId
  BY <1>1, <1>2, RootIds DEF Roots
<1>6. Waiting' \subseteq Waiting /\ Waiting \subseteq Waiting' \cup {current}
  BY <1>1 DEF Waiting
<1>7. Address(current) \in Objects /\ \A x \in HeapId : Found(x) => Address(x) \in Objects
  BY <1>2, FoundObject
<1>8. \A x \in HeapId : Found(x) /\ Live(x) => Live(x)'
  BY <1>4, <1>7 DEF Live
<1>9. Reachable' = Reachable
  BY <1>1, <1>2, <1>4, SameReachable
<1>10. \A a \in Objects' : ObjectAt(a)'.color # "White" => a \in Reachable'
  BY <1>2, <1>3, <1>4, <1>9 DEF SameGraph, Live
<1>11. \A x \in Waiting' : Live(x)'
  BY <1>1, <1>3, <1>6, <1>8, WaitingFound
<1>12. \A x \in Roots' : Found(x)' => x \in todo' \/ Live(x)'
  BY <1>3, <1>4, <1>5, <1>8 DEF SameGraph
<1>13. \A a \in Objects' : ObjectAt(a)'.color = "Black" =>
         \A r \in ObjectAt(a)'.refs : Found(r)' => Live(r)'
  <2> SUFFICES ASSUME NEW a \in Objects, ObjectAt(a)'.color = "Black",
                      NEW r \in ObjectAt(a).refs, Found(r)'
               PROVE  Live(r)'
    BY <1>4 DEF SameGraph
  <2>1. r \in HeapId /\ Found(r)
    BY <1>2, <1>4, ObjectType DEF SameGraph
  <2>2. a = Address(current) \/ ObjectAt(a).color = "Black"
    BY <1>4
  <2> QED BY <1>3, <1>8, <2>1, <2>2
<1>14. \A a \in Objects' : ObjectAt(a)'.color = "Grey" => \E x \in Waiting' : Address(x) = a
  BY <1>3, <1>4, <1>6 DEF SameGraph
<1> QED BY <1>1, <1>10, <1>11, <1>12, <1>13, <1>14 DEF Tricolor

(* Pop a grey object and list its references. *)
LEMMA PopTricolor == ASSUME Inv, Tricolor, PopGrey, cursor = 1 PROVE Tricolor'
<1>1. /\ Marking /\ todo = {} /\ current = NoId /\ worklist # <<>>
      /\ current' = worklist[Len(worklist)]
      /\ worklist' = SubSeq(worklist, 1, Len(worklist) - 1)
      /\ todo' = SlotOf(current').refs
      /\ UNCHANGED <<from, old, pc, cursor, handles, globalRoots>>
  BY DEF PopGrey, markUnchanged, rootSet
<1>2. TypeOK /\ worklist \in Seq(HeapId) /\ current' \in HeapId
  BY <1>1, PopLast DEF Inv, TypeOK
<1>3. Waiting' = Waiting /\ current' \in Waiting
  <2>1. Elements(worklist) = Elements(worklist') \cup {current'}
    BY <1>1, <1>2, PopElements
  <2> QED BY <1>1, <1>2, <2>1, SlotAssumption DEF Waiting
<1>4. /\ \A a \in Objects : ObjectAt(a).color # "White" => a \in Reachable
      /\ \A x \in Waiting : Live(x)
      /\ \A x \in Roots : Found(x) => Live(x)
      /\ \A a \in Objects : ObjectAt(a).color = "Black" =>
           \A r \in ObjectAt(a).refs : Found(r) => Live(r)
      /\ \A a \in Objects : ObjectAt(a).color = "Grey" => \E x \in Waiting : Address(x) = a
  BY <1>1 DEF Tricolor
<1>5. SameGraph /\ \A a \in Objects : ObjectAt(a)'.color = ObjectAt(a).color
  BY <1>1, NothingChanged
<1>6. Reachable' = Reachable /\ Roots' = Roots /\ Roots \subseteq HeapId
  BY <1>1, <1>2, <1>5, SameReachable, RootIds DEF Roots
<1>7. \A x \in HeapId : Found(x) /\ Live(x) => Live(x)'
  BY <1>2, <1>5, FoundObject DEF Live
<1>8. \A a \in Objects' : ObjectAt(a)'.color # "White" => a \in Reachable'
  BY <1>4, <1>5, <1>6 DEF SameGraph
<1>9. Found(current') /\ Address(current') \in Objects /\ Address(current') \in Reachable
      /\ todo' = ObjectAt(Address(current')).refs /\ todo' \subseteq HeapId
  <2> DEFINE c == current'
  <2>1. c \in HeapId /\ Found(c) /\ Live(c) /\ todo' = SlotOf(c).refs
    BY <1>1, <1>2, <1>3, <1>4, WaitingFound
  <2> HIDE DEF c
  <2>2. Address(c) \in Objects /\ SlotOf(c) = ObjectAt(Address(c))
    BY <1>2, <2>1, FoundObject
  <2>3. Found(c) /\ Address(c) \in Objects /\ Address(c) \in Reachable
        /\ todo' = ObjectAt(Address(c)).refs /\ todo' \subseteq HeapId
    BY <1>2, <1>4, <2>1, <2>2, ObjectType DEF Live
  <2> QED BY <2>3 DEF c
<1>10. \A x \in todo' : Found(x)' => Address(x) \in Reachable'
  <2> SUFFICES ASSUME NEW x \in todo', Found(x)' PROVE Address(x) \in Reachable
    BY <1>6
  <2>1. Found(x)
    BY <1>5, <1>9 DEF SameGraph
  <2>2. \A a \in Reachable : AddressesOf(ObjectAt(a).refs) \subseteq Reachable
    BY <1>2, ReachableClosed DEF Closed
  <2> QED BY <1>9, <2>1, <2>2 DEF AddressesOf
<1>11. \A x \in Waiting' : Live(x)'
  BY <1>1, <1>3, <1>4, <1>7, WaitingFound
<1>12. \A x \in Roots' : Found(x)' => x \in todo' \/ Live(x)'
  BY <1>4, <1>5, <1>6, <1>7 DEF SameGraph
<1>13. \A a \in Objects' : ObjectAt(a)'.color = "Black" =>
         \A r \in ObjectAt(a)'.refs : Found(r)' => Live(r)'
  BY <1>2, <1>4, <1>5, <1>7, ObjectType DEF SameGraph
<1>14. \A r \in ObjectAt(Address(current))'.refs : r \in todo'
  BY <1>5, <1>9 DEF SameGraph
<1>15. \A a \in Objects' : ObjectAt(a)'.color = "Grey" => \E x \in Waiting' : Address(x) = a
  BY <1>3, <1>4, <1>5 DEF SameGraph
<1> QED BY <1>8, <1>10, <1>11, <1>12, <1>13, <1>14, <1>15 DEF Tricolor

LEMMA MarkSweepTricolor == ASSUME Inv, Tricolor, MarkSweepStep PROVE Tricolor'
<1>1. CASE ~(Marking' /\ cursor' = 1)
  BY <1>1 DEF Tricolor
<1>2. CASE (\E id \in todo : PaintNext(id)) \/ Blacken \/ PopGrey
  <2>1. cursor' = cursor
    BY <1>2 DEF PaintNext, Blacken, PopGrey
  <2> QED BY <1>1, <1>2, <2>1, PaintTricolor, BlackenTricolor, PopTricolor
<1>3. CASE SweepOld \/ SweepOldDone \/ SpawnSweeper \/ FreeDead \/ ResetSurvivors
           \/ SweepNew \/ RetainEntries
  <2>1. cursor \in Nat \ {0}
    BY DEF Inv, TypeOK, Index
  <2>2. ~Marking' \/ (SweepOld /\ cursor' = cursor + 1)
    BY <1>3 DEF SweepOld, SweepOldDone, SpawnSweeper, FreeDead, ResetSurvivors, SweepNew,
                RetainEntries, Marking
  <2> QED BY <1>1, <2>1, <2>2
<1> QED BY <1>2, <1>3 DEF MarkSweepStep

LEMMA OtherTricolor ==
  ASSUME Inv, Inv', Tricolor, Client \/ ScavengeStep \/ AllocateAfterScavenge \/ UNCHANGED vars
  PROVE  Tricolor'
<1>1. CASE ~Marking'
  BY <1>1 DEF Tricolor
<1>2. CASE CollectMarkSweep \/ CollectConcurrent
  BY <1>2, BeginTricolor DEF CollectMarkSweep, CollectConcurrent
<1>3. CASE UNCHANGED vars
  BY <1>3 DEF vars, spaces, rootSet, frame, Tricolor, Marking, Objects, ObjectAt, Reachable,
              Closed, AddressesOf, Found, InBounds, SlotOf, Roots, Waiting, Live
<1>4. CASE Client /\ ~CollectMarkSweep /\ ~CollectConcurrent
  BY <1>1, <1>4
  DEF Client, Allocate, AllocateWhenFull, AllocateOld, WriteBarrier, DropReference,
      AddGlobalRoot, RemoveGlobalRoot, CreateHandle, OpenHandleScope, CloseHandleScope,
      CollectScavenge, ScavengeBegin, Mutating, Marking
<1>5. CASE ScavengeStep
  BY <1>1, <1>5
  DEF ScavengeStep, EvacuateRoot, ScanReference, UpdateOldReference, EvacuateRootsDone,
      ScanNext, ScanStore, ScanDone, UpdateHandles, UpdateGlobalRoots, KeepEntries, Flip, Marking
<1>6. CASE AllocateAfterScavenge
  BY <1>1, <1>6 DEF AllocateAfterScavenge, Marking
<1> QED BY <1>2, <1>3, <1>4, <1>5, <1>6

(* Marking ends with exactly the objects the roots reach not white: the    *)
(* sweep of mark_sweep.rs frees all the garbage, cycles included, and no   *)
(* object that is still in use, whatever the graph of objects.             *)
THEOREM MarkingCorrect == Spec => []MarksReachable
<1>1. Init => Tricolor
  BY DEF Init, Tricolor, Marking
<1>2. Inv /\ Inv' /\ Tricolor /\ [Next]_vars => Tricolor'
  BY MarkSweepTricolor, OtherTricolor DEF Next, Collector
<1>3. Inv /\ Tricolor => MarksReachable
  <2> SUFFICES ASSUME Inv, Tricolor, Marking, MarkDone, cursor = 1
               PROVE  {a \in Objects : ObjectAt(a).color # "White"} = Reachable
    BY DEF MarksReachable
  <2> DEFINE S == {a \in Objects : ObjectAt(a).color # "White"}
  <2>1. TypeOK /\ todo = {} /\ current = NoId /\ Waiting = {}
    BY DEF MarkDone, Inv, Waiting, Elements
  <2>2. /\ \A a \in Objects : ObjectAt(a).color # "White" => a \in Reachable
        /\ \A id \in Roots : Found(id) => Live(id)
        /\ \A a \in Objects : ObjectAt(a).color = "Black" =>
             \A r \in ObjectAt(a).refs : Found(r) => Live(r)
        /\ \A a \in Objects : ObjectAt(a).color # "Grey"
    BY <2>1 DEF Tricolor
  <2>3. AddressesOf(Roots) \subseteq S
    BY <2>1, <2>2, RootIds, FoundObject DEF AddressesOf, Live
  <2>4. \A a \in S : AddressesOf(ObjectAt(a).refs) \subseteq S
    <3> SUFFICES ASSUME NEW a \in S, NEW r \in ObjectAt(a).refs, Found(r)
                 PROVE  Address(r) \in S
      BY DEF AddressesOf
    <3>1. ObjectAt(a).color = "Black" /\ r \in HeapId
      BY <2>1, <2>2, ObjectType DEF Colors
    <3> QED BY <2>1, <2>2, <3>1, FoundObject DEF Live
  <2>5. Closed(S)
    BY <2>3, <2>4 DEF Closed, Roots
  <2> QED BY <2>2, <2>5 DEF Reachable
<1> QED BY <1>1, <1>2, <1>3, Invariance, PTL DEF Spec
=============================================================================
