----------------------------- MODULE MarkSweep -----------------------------
(***************************************************************************)
(* The tri-color collector of the whole heap (src/src/heap/mark_sweep.rs): *)
(* collect and collect_concurrent, which differ in how the old space is    *)
(* swept.                                                                  *)
(***************************************************************************)
EXTENDS HeapState

markUnchanged ==
  <<to, rootSet, local, allocated, cycles, pending, updated, forwarding, pairs, entries>>

Paint(object, color) ==
  IF object = NoObject THEN NoObject ELSE [object EXCEPT !.color = color]

(* reset_all_colors *)
ResetColors(slots) == [i \in DOMAIN slots |-> Paint(slots[i], "White")]

(* 1. Reset every color; seed with the global roots, then the handles. *)
MarkBegin(mode) ==
  /\ from' = [from EXCEPT !.slots = ResetColors(@)]
  /\ old' = [old EXCEPT !.slots = ResetColors(@)]
  /\ pc' = mode
  /\ todo' = globalRoots \cup {handles[i] : i \in DOMAIN handles}
  /\ worklist' = <<>> /\ current' = NoId /\ cursor' = 1 /\ dead' = {}
  /\ cycles' = cycles + 1
  /\ local' = NoId
  /\ UNCHANGED <<to, rootSet, storeBuffer, allocated, pending, updated, forwarding, pairs,
                 entries>>

(* set_color *)
SetColor(id, color) ==
  IF id.space = "New"
  THEN /\ from' = [from EXCEPT !.slots[id.index] = Paint(@, color)]
       /\ UNCHANGED old
  ELSE /\ old' = [old EXCEPT !.slots[id.index] = Paint(@, color)]
       /\ UNCHANGED from

(* paint_grey: an object still white turns grey and is pushed. *)
PaintGrey(id) ==
  IF Found(id) /\ SlotOf(id).color = "White"
  THEN /\ SetColor(id, "Grey")
       /\ worklist' = Append(worklist, id)
  ELSE UNCHANGED <<from, old, worklist>>

Marking == pc \in {"mark", "markConcurrent"}

(* Mutant: only ids of the current nursery are painted. *)
MutPaintNext(id) ==
  /\ Marking
  /\ IF Contains(from, id) THEN PaintGrey(id) ELSE UNCHANGED <<from, old, worklist>>
  /\ todo' = todo \ {id}
  /\ UNCHANGED <<storeBuffer, pc, current, cursor, dead, markUnchanged>>

(* The next root, or the next reference of the object being scanned. *)
PaintNext(id) ==
  /\ Marking
  /\ PaintGrey(id)
  /\ todo' = todo \ {id}
  /\ UNCHANGED <<storeBuffer, pc, current, cursor, dead, markUnchanged>>

(* Every reference of the current object has been painted. *)
Blacken ==
  /\ Marking /\ todo = {} /\ current # NoId
  /\ SetColor(current, "Black")
  /\ current' = NoId
  /\ UNCHANGED <<storeBuffer, pc, todo, worklist, cursor, dead, markUnchanged>>

(* Pop a grey object and list its references. *)
PopGrey ==
  /\ Marking /\ todo = {} /\ current = NoId /\ worklist # <<>>
  /\ current' = worklist[Len(worklist)]
  /\ worklist' = SubSeq(worklist, 1, Len(worklist) - 1)
  /\ todo' = SlotOf(current').refs
  /\ UNCHANGED <<from, old, storeBuffer, pc, cursor, dead, markUnchanged>>

MarkDone == Marking /\ todo = {} /\ current = NoId /\ worklist = <<>>

White(slots) == {i \in DOMAIN slots : slots[i] # NoObject /\ slots[i].color = "White"}

(* OldSpace::free, of an occupied slot. *)
Free(i) ==
  old' = [slots |-> [old.slots EXCEPT ![i] = NoObject], freeList |-> Append(old.freeList, i)]

(* 3. Free the next old slot if its object is white; else turn it white. *)
SweepOld ==
  /\ pc = "mark" /\ MarkDone /\ cursor <= Len(old.slots)
  /\ IF cursor \in White(old.slots)
     THEN Free(cursor)
     ELSE old' = [old EXCEPT !.slots[cursor] = Paint(@, "White")]
  /\ cursor' = cursor + 1
  /\ UNCHANGED <<from, storeBuffer, pc, todo, worklist, current, dead, markUnchanged>>

SweepOldDone ==
  /\ pc = "mark" /\ MarkDone /\ cursor > Len(old.slots)
  /\ pc' = "sweepNew"
  /\ UNCHANGED <<from, old, storeBuffer, todo, worklist, current, cursor, dead, markUnchanged>>

(* sweep_concurrent: a thread lists the white slots of a snapshot... *)
SpawnSweeper ==
  /\ pc = "markConcurrent" /\ MarkDone
  /\ dead' = White(old.slots)
  /\ pc' = "join"
  /\ UNCHANGED <<from, old, storeBuffer, todo, worklist, current, cursor, markUnchanged>>

(* ... and the collector, which waited for it, frees the slots it listed... *)
FreeDead ==
  /\ pc = "join" /\ cursor <= Len(old.slots)
  /\ IF cursor \in dead THEN Free(cursor) ELSE UNCHANGED old
  /\ cursor' = cursor + 1
  /\ UNCHANGED <<from, storeBuffer, pc, todo, worklist, current, dead, markUnchanged>>

(* ... and turns the survivors white. *)
ResetSurvivors ==
  /\ pc = "join" /\ cursor > Len(old.slots)
  /\ old' = [old EXCEPT !.slots = ResetColors(@)]
  /\ dead' = {}
  /\ pc' = "sweepNew"
  /\ UNCHANGED <<from, storeBuffer, todo, worklist, current, cursor, markUnchanged>>

(* Turn the survivors of FromSpace white, empty its white slots. *)
Sweep(slots) ==
  [i \in DOMAIN slots |-> IF i \in White(slots) THEN NoObject ELSE Paint(slots[i], "White")]

(* The slots emptied in FromSpace are not reused before a flip. *)
SweepNew ==
  /\ pc = "sweepNew"
  /\ from' = [from EXCEPT !.slots = Sweep(@)]
  /\ pc' = "retain"
  /\ UNCHANGED <<old, storeBuffer, todo, worklist, current, cursor, dead, markUnchanged>>

(* 4. Retain the entries whose source and target look alive. *)
RetainEntries ==
  /\ pc = "retain"
  /\ storeBuffer' = {e \in storeBuffer :
                       /\ e.source.space = "Old" /\ Occupied(old.slots, e.source.index)
                       /\ \/ Contains(from, e.target)
                          \/ e.target.space = "Old" /\ Occupied(old.slots, e.target.index)}
  /\ cursor' = 1
  /\ pc' = "mutator"
  /\ UNCHANGED <<from, old, todo, worklist, current, dead, markUnchanged>>

MarkSweepStep ==
  \/ \E id \in todo : PaintNext(id)
  \/ Blacken \/ PopGrey
  \/ SweepOld \/ SweepOldDone \/ SpawnSweeper \/ FreeDead \/ ResetSurvivors
  \/ SweepNew \/ RetainEntries
=============================================================================
