----------------------------- MODULE Scavenger -----------------------------
(***************************************************************************)
(* The copying collector of the young generation (src/src/heap/scavenger.rs): *)
(* Scavenger::collect, one action per iteration of its loops.              *)
(***************************************************************************)
EXTENDS HeapState

scavengeUnchanged == <<scopeMarks, local, allocated, cycles, pending, cursor, dead>>

(* 1. Gather the roots: handles, global roots, store-buffer targets. *)
ScavengeRoots ==
  {handles[i] : i \in DOMAIN handles} \cup globalRoots \cup {e.target : e \in storeBuffer}

ScavengeBegin ==
  /\ pc' = "evacuate"
  /\ todo' = ScavengeRoots
  /\ worklist' = <<>> /\ forwarding' = <<>>
  /\ current' = NoId /\ updated' = {} /\ pairs' = {} /\ entries' = {}
  /\ cursor' = 1 /\ dead' = {}
  /\ cycles' = cycles + 1
  /\ local' = NoId
  /\ UNCHANGED <<spaces, rootSet, storeBuffer, allocated>>

(* evacuate_object: where the object goes, and what it returns. *)
Victim(id) == from.slots[id.index]
Aged(id) == [Victim(id) EXCEPT !.age = @ + 1]
(* Mutant: evacuate_object does not look the id up in the forwarding map. *)
MutMoves(id) == Victim(id) # NoObject
Moves(id) == id \notin DOMAIN forwarding /\ Victim(id) # NoObject
Tenured(id) == Aged(id).age >= Tenuring

Destination(id) ==
  IF id \in DOMAIN forwarding THEN forwarding[id]
  ELSE IF Victim(id) = NoObject THEN id
  ELSE IF Tenured(id) THEN NextOldId ELSE NextSemiId(to)

Forward(id, dest) ==
  forwarding' = [x \in DOMAIN forwarding \cup {id} |-> IF x = id THEN dest ELSE forwarding[x]]

(* evacuate_object's effect; place() on a full ToSpace panics (expect). *)
Evacuate(id) ==
  IF Moves(id)
  THEN /\ Tenured(id) \/ ~IsFull(to)
       /\ IF Tenured(id)
          THEN old' = PlaceOld(Aged(id)) /\ UNCHANGED to
          ELSE to' = PlaceSemi(to, Aged(id)) /\ UNCHANGED old
       /\ Forward(id, Destination(id))
       /\ worklist' = Append(worklist, Destination(id))
  ELSE UNCHANGED <<old, to, forwarding, worklist>>

PanicsOn(id) == Moves(id) /\ ~Tenured(id) /\ IsFull(to)

(* Mutant: the forwarding address is looked up and not used. *)
MutForwarded(id) == id

(* forwarding_map.get(&id), or the id itself. *)
Forwarded(id) == IF id \in DOMAIN forwarding THEN forwarding[id] ELSE id

(* 2. Evacuate the next root, if it lies in FromSpace. *)
EvacuateRoot(root) ==
  /\ pc = "evacuate"
  /\ IF Contains(from, root) THEN Evacuate(root)
                             ELSE UNCHANGED <<old, to, forwarding, worklist>>
  /\ todo' = todo \ {root}
  /\ UNCHANGED <<from, storeBuffer, handles, globalRoots, pc, current, updated, pairs,
                 entries, scavengeUnchanged>>

EvacuateRootsDone ==
  /\ pc = "evacuate" /\ todo = {}
  /\ pc' = "scan"
  /\ UNCHANGED <<spaces, storeBuffer, handles, globalRoots, frame, scopeMarks, local,
                 allocated, cycles, pending>>

(* get_object_references: of an object already evacuated. *)
Copied(id) == IF id.space = "New" THEN to.slots[id.index] ELSE old.slots[id.index]

(* 3. Cheney scan: take the last evacuated object not scanned yet... *)
ScanNext ==
  /\ pc = "scan" /\ current = NoId /\ worklist # <<>>
  /\ current' = worklist[Len(worklist)]
  /\ worklist' = SubSeq(worklist, 1, Len(worklist) - 1)
  /\ todo' = Copied(current').refs
  /\ updated' = {}
  /\ UNCHANGED <<spaces, storeBuffer, handles, globalRoots, pc, forwarding, pairs,
                 entries, scavengeUnchanged>>

(* ... evacuate or forward each of its references... *)
ScanReference(ref) ==
  /\ pc = "scan" /\ current # NoId
  /\ IF Contains(from, ref)
     THEN /\ Evacuate(ref)
          /\ updated' = updated \cup {Destination(ref)}
     ELSE /\ UNCHANGED <<old, to, forwarding, worklist>>
          /\ updated' = updated \cup {Forwarded(ref)}
  /\ todo' = todo \ {ref}
  /\ UNCHANGED <<from, storeBuffer, handles, globalRoots, pc, current, pairs, entries,
                 scavengeUnchanged>>

(* ... and store the updated references (update_object_references). *)
ScanStore ==
  /\ pc = "scan" /\ current # NoId /\ todo = {}
  /\ IF current.space = "New"
     THEN to' = SetToRefs(current.index, updated) /\ UNCHANGED old
     ELSE old' = SetOldRefs(current.index, updated) /\ UNCHANGED to
  /\ current' = NoId
  /\ UNCHANGED <<from, storeBuffer, handles, globalRoots, pc, todo, worklist, updated,
                 forwarding, pairs, entries, scavengeUnchanged>>

ScanDone ==
  /\ pc = "scan" /\ current = NoId /\ worklist = <<>>
  /\ pc' = "handles"
  /\ pairs' = DOMAIN forwarding
  /\ UNCHANGED <<spaces, storeBuffer, handles, globalRoots, todo, worklist, current,
                 updated, forwarding, entries, scavengeUnchanged>>

(* 4. update_forwarded for the next pair of the HashMap, in any order. *)
UpdateHandles ==
  /\ pc = "handles"
  /\ \E source \in pairs :
       /\ handles' = [i \in DOMAIN handles |->
                        IF handles[i] = source THEN forwarding[source] ELSE handles[i]]
       /\ pairs' = pairs \ {source}
  /\ UNCHANGED <<spaces, storeBuffer, globalRoots, pc, todo, worklist, current, updated,
                 forwarding, entries, scavengeUnchanged>>

(* 5. Update the global roots, each with one lookup. *)
UpdateGlobalRoots ==
  /\ pc = "handles" /\ pairs = {}
  /\ globalRoots' = {Forwarded(root) : root \in globalRoots}
  /\ pc' = "oldReferences"
  /\ entries' = storeBuffer
  /\ UNCHANGED <<spaces, storeBuffer, handles, todo, worklist, current, updated,
                 forwarding, pairs, scavengeUnchanged>>

(* 6. Update the old object of one store-buffer entry. *)
UpdateOldReference(entry) ==
  /\ pc = "oldReferences"
  /\ LET i == entry.source.index
     IN old' = IF Occupied(old.slots, i) /\ entry.target \in DOMAIN forwarding
               THEN SetOldRefs(i, (old.slots[i].refs \ {entry.target})
                                    \cup {forwarding[entry.target]})
               ELSE old
  /\ entries' = entries \ {entry}
  /\ UNCHANGED <<from, to, storeBuffer, handles, globalRoots, pc, todo, worklist, current,
                 updated, forwarding, pairs, scavengeUnchanged>>

(* 7. Keep the entries, forwarded, whose targets are still young. *)
KeepEntries ==
  /\ pc = "oldReferences" /\ entries = {}
  /\ storeBuffer' = {e \in {[source |-> e.source, target |-> Forwarded(e.target)] :
                               e \in storeBuffer} : OldToNew(e)}
  /\ pc' = "flip"
  /\ UNCHANGED <<spaces, handles, globalRoots, todo, worklist, current, updated, forwarding,
                 pairs, entries, scavengeUnchanged>>

(* 8. NewSpace::flip; a pending allocate() then continues. *)
Flip ==
  /\ pc = "flip"
  /\ from' = to
  /\ to' = ResetSemi(from)
  /\ forwarding' = <<>> /\ updated' = {}
  /\ pc' = IF pending THEN "allocate" ELSE "mutator"
  /\ UNCHANGED <<old, storeBuffer, handles, globalRoots, todo, worklist, current, pairs,
                 entries, scavengeUnchanged>>

ScavengeStep ==
  \/ \E root \in todo : EvacuateRoot(root)
  \/ \E ref \in todo : ScanReference(ref)
  \/ \E entry \in entries : UpdateOldReference(entry)
  \/ EvacuateRootsDone \/ ScanNext \/ ScanStore \/ ScanDone
  \/ UpdateHandles \/ UpdateGlobalRoots \/ KeepEntries \/ Flip
=============================================================================
