-------------------------------- MODULE Heap --------------------------------
(***************************************************************************)
(* The heap as its clients use it (src/src/heap/heap.rs, handle.rs,        *)
(* factory.rs): allocation, the write barrier, roots, handle scopes, and   *)
(* the collections a client asks for or a full nursery starts.             *)
(*                                                                         *)
(* A client is disciplined: it works on ids it can still look up, read     *)
(* from a root, a handle, a reference of one of these or a local variable, *)
(* and forgets its local variable when a collection starts.                *)
(***************************************************************************)
EXTENDS Scavenger, MarkSweep, FiniteSets

CONSTANTS MaxRoots,   \* bound: global roots at a time
          MaxHandles, \* bound: handles registered at a time
          MaxScopes,  \* bound: scopes open at a time
          MaxEdges    \* bound: references between objects

ASSUME ClientAssumption == MaxRoots \in Nat /\ MaxHandles \in Nat /\ MaxScopes \in Nat /\ MaxEdges \in Nat

VARIABLES       \* history: what the client asked for, in payloads
  handleOf,     \* the object each handle was created for
  rooted,       \* the objects made global roots
  edges         \* edges[p]: the objects p was made to refer to

history == <<handleOf, rooted, edges>>
vars == <<spaces, rootSet, storeBuffer, local, allocated, cycles, frame, pc, pending, history>>

Init ==
  /\ from = [slots |-> <<>>, generation |-> 0]
  /\ to = [slots |-> <<>>, generation |-> 1]
  /\ old = [slots |-> <<>>, freeList |-> <<>>]
  /\ storeBuffer = {} /\ handles = <<>> /\ scopeMarks = <<>> /\ globalRoots = {}
  /\ local = NoId /\ allocated = 0 /\ cycles = 0
  /\ pc = "mutator" /\ pending = FALSE
  /\ todo = {} /\ worklist = <<>> /\ current = NoId /\ updated = {}
  /\ forwarding = <<>> /\ pairs = {} /\ entries = {} /\ cursor = 1 /\ dead = {}
  /\ handleOf = <<>> /\ rooted = {} /\ edges = [p \in Payloads |-> {}]

-----------------------------------------------------------------------------
Elements(s) == {s[i] : i \in DOMAIN s}
Named == {id \in {local} \cup Elements(handles) \cup globalRoots : id # NoId /\ Resolves(id)}
Held == Named \cup {id \in UNION {SlotOf(n).refs : n \in Named} : Resolves(id)}
PayloadOf(id) == SlotOf(id).payload

Mutating == pc = "mutator"

(* Heap::allocate with room in the nursery. *)
Allocate ==
  /\ Mutating /\ allocated < MaxObjects /\ ~IsFull(from)
  /\ allocated' = allocated + 1
  /\ from' = PlaceSemi(from, NewObject(allocated'))
  /\ local' = NextSemiId(from)
  /\ UNCHANGED <<to, old, rootSet, storeBuffer, cycles, frame, pc, pending, history>>

(* Heap::allocate with a full nursery: it scavenges first... *)
AllocateWhenFull ==
  /\ Mutating /\ allocated < MaxObjects /\ IsFull(from) /\ cycles < MaxCycles
  /\ pending' = TRUE
  /\ ScavengeBegin
  /\ UNCHANGED <<scopeMarks, history>>

(* ... then tries the nursery again, and the old space if it is still full. *)
AllocateAfterScavenge ==
  /\ pc = "allocate"
  /\ allocated' = allocated + 1
  /\ IF ~IsFull(from)
     THEN /\ from' = PlaceSemi(from, NewObject(allocated'))
          /\ local' = NextSemiId(from)
          /\ UNCHANGED old
     ELSE /\ old' = PlaceOld(NewObject(allocated'))
          /\ local' = NextOldId
          /\ UNCHANGED from
  /\ pending' = FALSE
  /\ pc' = "mutator"
  /\ UNCHANGED <<to, rootSet, storeBuffer, cycles, frame, history>>

(* Heap::allocate_old *)
AllocateOld ==
  /\ Mutating /\ allocated < MaxObjects
  /\ allocated' = allocated + 1
  /\ old' = PlaceOld(NewObject(allocated'))
  /\ local' = NextOldId
  /\ UNCHANGED <<from, to, rootSet, storeBuffer, cycles, frame, pc, pending, history>>

SetRefs(id, refs) ==
  IF id.space = "New"
  THEN from' = SetFromRefs(id.index, refs) /\ UNCHANGED old
  ELSE old' = SetOldRefs(id.index, refs) /\ UNCHANGED from

EdgeCount == Cardinality({e \in Payloads \X Payloads : e[2] \in edges[e[1]]})

(* Heap::write_barrier *)
WriteBarrier(source, target) ==
  /\ Mutating /\ EdgeCount < MaxEdges
  /\ SetRefs(source, SlotOf(source).refs \cup {target})
  /\ storeBuffer' = RecordWrite(source, target)
  /\ edges' = [edges EXCEPT ![PayloadOf(source)] = @ \cup {PayloadOf(target)}]
  /\ UNCHANGED <<to, rootSet, local, allocated, cycles, frame, pc, pending, handleOf, rooted>>

(* get_mut(source).remove_reference(target): the store buffer is not told. *)
DropReference(source, target) ==
  /\ Mutating
  /\ target \in SlotOf(source).refs
  /\ SetRefs(source, SlotOf(source).refs \ {target})
  /\ edges' = [edges EXCEPT ![PayloadOf(source)] = @ \ {PayloadOf(target)}]
  /\ UNCHANGED <<to, rootSet, storeBuffer, local, allocated, cycles, frame, pc, pending,
                 handleOf, rooted>>

(* Heap::add_global_root *)
AddGlobalRoot(id) ==
  /\ Mutating /\ id \notin globalRoots /\ Cardinality(globalRoots) < MaxRoots
  /\ globalRoots' = globalRoots \cup {id}
  /\ rooted' = rooted \cup {PayloadOf(id)}
  /\ UNCHANGED <<spaces, handles, scopeMarks, storeBuffer, local, allocated, cycles, frame,
                 pc, pending, handleOf, edges>>

(* Heap::remove_global_root *)
RemoveGlobalRoot(id) ==
  /\ Mutating /\ id \in globalRoots
  /\ globalRoots' = globalRoots \ {id}
  /\ rooted' = rooted \ {PayloadOf(id)}
  /\ UNCHANGED <<spaces, handles, scopeMarks, storeBuffer, local, allocated, cycles, frame,
                 pc, pending, handleOf, edges>>

(* HandleScopeManager::open_scope *)
OpenHandleScope ==
  /\ Mutating /\ Len(scopeMarks) < MaxScopes
  /\ scopeMarks' = Append(scopeMarks, Len(handles))
  /\ UNCHANGED <<spaces, handles, globalRoots, storeBuffer, local, allocated, cycles, frame,
                 pc, pending, history>>

(* HandleScopeManager::close_scope: truncate to the innermost mark. *)
CloseHandleScope ==
  /\ Mutating /\ scopeMarks # <<>>
  /\ LET mark == scopeMarks[Len(scopeMarks)]
     IN /\ handles' = SubSeq(handles, 1, mark)
        /\ handleOf' = SubSeq(handleOf, 1, mark)
  /\ scopeMarks' = SubSeq(scopeMarks, 1, Len(scopeMarks) - 1)
  /\ UNCHANGED <<spaces, globalRoots, storeBuffer, local, allocated, cycles, frame, pc,
                 pending, rooted, edges>>

(* Heap::create_handle *)
CreateHandle(id) ==
  /\ Mutating /\ Len(handles) < MaxHandles
  /\ handles' = Append(handles, id)
  /\ handleOf' = Append(handleOf, PayloadOf(id))
  /\ UNCHANGED <<spaces, scopeMarks, globalRoots, storeBuffer, local, allocated, cycles, frame,
                 pc, pending, rooted, edges>>

(* Heap::collect_garbage *)
CollectScavenge ==
  /\ Mutating /\ cycles < MaxCycles
  /\ ScavengeBegin
  /\ UNCHANGED <<pending, history>>

CollectMarkSweep ==
  /\ Mutating /\ cycles < MaxCycles
  /\ MarkBegin("mark")
  /\ UNCHANGED history

CollectConcurrent ==
  /\ Mutating /\ cycles < MaxCycles
  /\ MarkBegin("markConcurrent")
  /\ UNCHANGED history

Client ==
  \/ Allocate \/ AllocateWhenFull \/ AllocateOld
  \/ \E source, target \in Held : WriteBarrier(source, target) \/ DropReference(source, target)
  \/ \E id \in Held : AddGlobalRoot(id) \/ RemoveGlobalRoot(id) \/ CreateHandle(id)
  \/ OpenHandleScope \/ CloseHandleScope
  \/ CollectScavenge \/ CollectMarkSweep \/ CollectConcurrent

Collector ==
  \/ ScavengeStep /\ UNCHANGED history
  \/ MarkSweepStep /\ UNCHANGED history
  \/ AllocateAfterScavenge

Next == Client \/ Collector

Spec == Init /\ [][Next]_vars
-----------------------------------------------------------------------------
(* Properties *)

SemiSpaceOK(semi) ==
  /\ semi \in [slots : Seq(Slot), generation : Nat]
  /\ Len(semi.slots) <= Capacity

Steps == {"mutator", "allocate", "evacuate", "scan", "handles", "oldReferences", "flip",
          "mark", "markConcurrent", "join", "sweepNew", "retain"}

(* Every variable ranges over the values of its Rust type, a semi-space    *)
(* never outgrows its capacity, and what is left to do of a collection is  *)
(* part of what it set out to do.                                          *)
TypeOK ==
  /\ SemiSpaceOK(from) /\ SemiSpaceOK(to)
  /\ old \in [slots : Seq(Slot), freeList : Seq(Index)]
  /\ storeBuffer \in SUBSET StoreBufferEntry /\ entries \in SUBSET StoreBufferEntry
  /\ handles \in Seq(HeapId) /\ globalRoots \in SUBSET HeapId /\ scopeMarks \in Seq(Nat)
  /\ local \in HeapId \cup {NoId}
  /\ allocated \in 0..MaxObjects /\ cycles \in Nat
  /\ pc \in Steps /\ pending \in BOOLEAN
  /\ todo \in SUBSET HeapId /\ worklist \in Seq(HeapId) /\ updated \in SUBSET HeapId
  /\ current \in HeapId \cup {NoId}
  /\ forwarding \in [DOMAIN forwarding -> HeapId] /\ DOMAIN forwarding \subseteq HeapId
  /\ pairs \subseteq DOMAIN forwarding
  /\ cursor \in Index
  /\ dead \subseteq DOMAIN old.slots

(* The free list names exactly the empty slots of the old space, each of   *)
(* them once, whatever mix of promotions, allocations and sweeps came      *)
(* before: a slot listed twice, or listed and occupied, would be handed to *)
(* two objects (OldSpace::allocate, place, free, sweep_concurrent).        *)
FreeListOK ==
  /\ \A i \in DOMAIN old.slots : old.slots[i] = NoObject <=> i \in Elements(old.freeList)
  /\ Elements(old.freeList) \subseteq DOMAIN old.slots
  /\ \A i, j \in DOMAIN old.freeList : old.freeList[i] = old.freeList[j] => i = j

(* The expect("ToSpace capacity exceeded during scavenge") never fires: no *)
(* FromSpace slot is evacuated twice, even in the collections in which ids *)
(* of both semi-spaces carry the same generation.                          *)
ToSpaceSuffices ==
  pc = "evacuate" \/ (pc = "scan" /\ current # NoId) =>
    \A id \in todo : Contains(from, id) => ~PanicsOn(id)

(* Between collections every global root still names the very object that  *)
(* was rooted, however often that object has moved or been promoted, and   *)
(* no slot it left behind was given to another object meanwhile.           *)
GlobalRootsFollow ==
  Mutating => /\ \A id \in globalRoots : Resolves(id)
              /\ {PayloadOf(id) : id \in globalRoots} = rooted

(* Between collections the references of every nursery object lead to      *)
(* exactly the objects it was made to refer to: the Cheney scan updates    *)
(* each reference once and a sweep never frees what a survivor refers to.  *)
NurseryEdgesIntact ==
  Mutating => \A i \in DOMAIN from.slots : from.slots[i] # NoObject =>
    /\ \A r \in from.slots[i].refs : Resolves(r)
    /\ {PayloadOf(r) : r \in from.slots[i].refs} = edges[from.slots[i].payload]

Address(id) == <<id.space, id.index>>
ObjectAt(a) == IF a[1] = "New" THEN from.slots[a[2]] ELSE old.slots[a[2]]
Objects ==
  {a \in ({"New"} \X DOMAIN from.slots) \cup ({"Old"} \X DOMAIN old.slots) : ObjectAt(a) # NoObject}
AddressesOf(ids) == {Address(id) : id \in {x \in ids : Found(x)}}

(* What the roots reach, following references by slot as the collector     *)
(* does: the least set of objects with the roots and all it refers to.     *)
Closed(S) ==
  /\ AddressesOf(globalRoots \cup Elements(handles)) \subseteq S
  /\ \A a \in S : AddressesOf(ObjectAt(a).refs) \subseteq S
Reachable == {a \in Objects : \A S \in SUBSET Objects : Closed(S) => a \in S}

(* When marking ends the black objects are exactly the reachable ones, so  *)
(* the sweep frees all the garbage, cycles included, and nothing else.     *)
MarksReachable ==
  Marking /\ MarkDone /\ cursor = 1 =>
    {a \in Objects : ObjectAt(a).color # "White"} = Reachable

(* The store buffer remembers every reference from an old object to a      *)
(* young one between collections: "Tracks Old-to-Young references across   *)
(* generations" (store_buffer.rs).                                         *)
RememberedSetComplete ==
  Mutating => \A i \in DOMAIN old.slots : old.slots[i] # NoObject =>
    \A r \in old.slots[i].refs : r.space = "New" =>
      \E e \in storeBuffer : e.source.index = i /\ e.target = r

(* A registered handle names, after any collection, the object it was      *)
(* created for: "registered handles are automatically updated with the     *)
(* forwarding addresses" (handle.rs).                                      *)
HandlesFollow ==
  Mutating => \A i \in DOMAIN handles :
    Resolves(handles[i]) /\ PayloadOf(handles[i]) = handleOf[i]
=============================================================================
