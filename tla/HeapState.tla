----------------------------- MODULE HeapState -----------------------------
(***************************************************************************)
(* The managed heap of src/src/heap: two semi-spaces for young objects, a  *)
(* slot-recycling old space, the store buffer, the handle scopes, the      *)
(* global roots, and the frame of the collection in progress.  This module *)
(* holds the state and the slot-level operations; Scavenger and MarkSweep  *)
(* add the steps of the two collectors and Heap the operations of clients. *)
(*                                                                         *)
(* Vectors of slots, handles and worklists are sequences, so slot i of the *)
(* code is slot i + 1 here.  The vectors the code keeps free of duplicates *)
(* (references, global roots, store buffer) are sets, visited in any       *)
(* order.  The payload of an object is its allocation number: it tells two *)
(* objects apart for good, which an id (a slot and a generation) does not. *)
(***************************************************************************)
EXTENDS Naturals, Sequences

CONSTANTS Capacity,   \* slots of a semi-space
          Tenuring,   \* TENURING_THRESHOLD
          MaxObjects, \* bound: objects ever allocated
          MaxCycles,  \* bound: collections ever started
          NoObject,   \* an empty slot (None)
          NoId        \* no id at all

ASSUME HeapAssumption ==
  /\ Capacity \in Nat \ {0}
  /\ Tenuring \in Nat \ {0}
  /\ MaxObjects \in Nat
  /\ MaxCycles \in Nat

Colors == {"White", "Grey", "Black"}
Payloads == 1..MaxObjects
Index == Nat \ {0}
OldGeneration == 100
(* The ids the spaces make: a generation tells those of the nursery apart. *)
HeapId == [space : {"New"}, index : Index, generation : Nat]
            \cup [space : {"Old"}, index : Index, generation : {OldGeneration}]
HeapObject == [payload : Payloads, age : Nat, color : Colors, refs : SUBSET HeapId]
Slot == HeapObject \cup {NoObject}
StoreBufferEntry == [source : HeapId, target : HeapId]

ASSUME SlotAssumption == NoObject \notin HeapObject /\ NoId \notin HeapId

VARIABLES
  from, to,     \* the semi-spaces: slots and generation_id
  old,          \* the old space: slots and free_list
  storeBuffer,  \* the remembered set
  handles,      \* every registered handle, the innermost scope last
  scopeMarks,   \* where each open scope starts in handles
  globalRoots,
  local,        \* an id the client keeps in a local variable, or NoId
  allocated,    \* objects allocated so far
  cycles        \* collections started so far

VARIABLES       \* the frame of the running collection
  pc,           \* its next step; "mutator" when none is running
  todo,         \* roots not yet visited, or references not yet scanned
  worklist,     \* a stack: grey objects, or evacuated ones not yet scanned
  current,      \* the object being scanned, or NoId
  updated,      \* updated_references of the object being scanned
  forwarding,   \* forwarding_map
  pairs,        \* sources of forwarding not yet applied to the handles
  entries,      \* store-buffer entries not yet applied to the old space
  cursor,       \* the next old slot to sweep
  dead,         \* slots the sweeper thread found white
  pending       \* the collection was started by a full allocate()

spaces == <<from, to, old>>
rootSet == <<handles, scopeMarks, globalRoots>>
frame == <<todo, worklist, current, updated, forwarding, pairs, entries, cursor, dead>>

-----------------------------------------------------------------------------
NewObject(p) == [payload |-> p, age |-> 0, color |-> "White", refs |-> {}]

Occupied(slots, i) == i \in 1..Len(slots) /\ slots[i] # NoObject

(* SemiSpace::contains: the generation and the bounds, not the occupancy. *)
Contains(semi, id) ==
  /\ id.space = "New"
  /\ id.generation = semi.generation
  /\ id.index \in 1..Len(semi.slots)

(* Mutant: one object too many (`>` for `>=`). *)
MutIsFull(semi) == Len(semi.slots) > Capacity
IsFull(semi) == Len(semi.slots) >= Capacity

NextSemiId(semi) ==
  [space |-> "New", index |-> Len(semi.slots) + 1, generation |-> semi.generation]

(* SemiSpace::allocate and place: append at the bump pointer. *)
PlaceSemi(semi, object) == [semi EXCEPT !.slots = Append(@, object)]

(* SemiSpace::reset *)
ResetSemi(semi) == [slots |-> <<>>, generation |-> semi.generation + 1]

(* The slot OldSpace::allocate and place take: the last one freed, or a new one. *)
NextOldIndex ==
  IF old.freeList # <<>> THEN old.freeList[Len(old.freeList)] ELSE Len(old.slots) + 1

NextOldId == [space |-> "Old", index |-> NextOldIndex, generation |-> OldGeneration]

(* Mutant: the slot taken stays on the free list. *)
MutPlaceOld(object) ==
  IF old.freeList # <<>>
  THEN [old EXCEPT !.slots[NextOldIndex] = object]
  ELSE [old EXCEPT !.slots = Append(@, object)]

PlaceOld(object) ==
  IF old.freeList # <<>>
  THEN [slots |-> [old.slots EXCEPT ![NextOldIndex] = object],
        freeList |-> SubSeq(old.freeList, 1, Len(old.freeList) - 1)]
  ELSE [old EXCEPT !.slots = Append(@, object)]

(* OldSpace::get looks at the index alone. *)
SlotOf(id) == IF id.space = "New" THEN from.slots[id.index] ELSE old.slots[id.index]

InBounds(id) ==
  id.index \in 1..(IF id.space = "New" THEN Len(from.slots) ELSE Len(old.slots))

(* Heap::get(id).is_some() *)
Resolves(id) ==
  /\ InBounds(id) /\ SlotOf(id) # NoObject
  /\ id.space = "New" => id.generation = from.generation

(* The collectors' view of an id, which ignores its generation. *)
Found(id) == InBounds(id) /\ SlotOf(id) # NoObject

(* get_mut(id) and an assignment of its references. *)
WithRefs(slots, i, refs) == [slots EXCEPT ![i].refs = refs]

SetFromRefs(i, refs) == [from EXCEPT !.slots = WithRefs(@, i, refs)]
(* Mutant: the updated references are not stored. *)
MutSetToRefs(i, refs) == to
SetToRefs(i, refs) == [to EXCEPT !.slots = WithRefs(@, i, refs)]
SetOldRefs(i, refs) == [old EXCEPT !.slots = WithRefs(@, i, refs)]

(* StoreBuffer::record_write: an edge from an old to a young object. *)
OldToNew(entry) == entry.source.space = "Old" /\ entry.target.space = "New"

RecordWrite(source, target) ==
  storeBuffer \cup {e \in {[source |-> source, target |-> target]} : OldToNew(e)}
=============================================================================
