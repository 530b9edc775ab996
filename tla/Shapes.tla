------------------------------- MODULE Shapes -------------------------------
(***************************************************************************)
(* Hidden classes and the caches that trust them: the transition tree of   *)
(* src/src/objects/map.rs, the properties of src/src/objects/js_object.rs  *)
(* with the pool of recycled objects, and the per-instruction caches with  *)
(* which src/src/interpreter/interpreter.rs loads, stores and creates      *)
(* named properties.                                                       *)
(*                                                                         *)
(* Property names are numbers, the literal { ... } of the program          *)
(* initialises 1, 2, ... LiteralSize in this order.  Objects are plain: no *)
(* accessors, no proxies.  A map is named by its address, map.as_ptr().    *)
(* The caches compare addresses and hold no reference, so the map of an    *)
(* entry may be freed and its address given to another map.  The history   *)
(* variable dangling tells which entries this has happened to.             *)
(***************************************************************************)
EXTENDS Naturals, Sequences, FiniteSets

CONSTANTS
  Names,        \* how many property names
  Loads,        \* the names the program loads, with an instruction for each
  Stores,       \* the names it stores, with an instruction for each
  Keyed,        \* the names it stores by a computed key
  Deletes,      \* the names it deletes
  LiteralSize,  \* properties of the literal
  Scanned,      \* how many of them the scan for the boilerplate sees
  Data,         \* values that are not functions
  Functions,    \* values that are
  Stored,       \* <<name, value>>: what it stores under which name
  PoolSize,     \* capacity of RECYCLED_OBJECTS
  MaxObjects,   \* bound: objects at a time
  Address,      \* bound: where maps can be, as many as are held at a time
  RootMap,      \* the address of ROOT_OBJECT_MAP
  Undefined,    \* no value
  Nobody        \* no object, no address

ASSUME ShapesAssumption ==
  /\ Names \in Nat /\ Loads \cup Stores \cup Keyed \cup Deletes \subseteq 1..Names
  /\ Stored \subseteq (1..Names) \X (Data \cup Functions)
  /\ LiteralSize \in 0..Names /\ Scanned \in 0..LiteralSize
  /\ PoolSize \in Nat /\ MaxObjects \in Nat
  /\ RootMap \in Address
  /\ Undefined \notin Data \cup Functions /\ Nobody \notin Nat \cup Address

Name == 1..Names
Value == Data \cup Functions
Object == 1..MaxObjects

(* descriptors are the names in the order of their fields.                 *)
Map == [descriptors : Seq(Name), transitions : [Name -> Address \cup {Nobody}],
        prototype : Object \cup {Nobody}, dictionary : BOOLEAN]
JSObject == [map : Address \cup {Nobody}, properties : Seq(Value \cup {Undefined}),
             dictionary : [Name -> Value \cup {Undefined}]]

(* The instructions with a cache: loads, stores, initialisers of the literal. *)
LoadSite(n) == <<"load", n>>
StoreSite(n) == <<"store", n>>
InitSite(n) == <<"init", n>>
Site == ({"load"} \X Loads) \cup ({"store"} \X Stores) \cup ({"init"} \X (1..LiteralSize))
FieldEntry == [map : Address, field : Nat \ {0}]
MethodEntry == [map : Address, method : Functions]
TransitionEntry == [map : Address, target : Address]
Entry == {"field", "method", "transition"} \X Site

VARIABLES
  maps,             \* what is at each address
  held,             \* the addresses of maps with a strong reference
  objects,          \* the objects; a free one has no map
  pool,             \* RECYCLED_OBJECTS, the last one pushed last
  propertyCache,    \* site -> FieldEntry or Nobody
  methodCache,      \* proto_method_cache: site -> MethodEntry or Nobody
  transitionCache,  \* site -> TransitionEntry or Nobody
  boilerplate,      \* boilerplate_map_cache of the literal, or Nobody
  literal           \* the literal being evaluated: its object and next name

VARIABLES            \* history
  written,          \* what each object was last given under each name
  dangling,         \* the entries whose map was freed after they were written
  misled            \* a store has gone through one of them

caches == <<propertyCache, methodCache, transitionCache, boilerplate>>
vars == <<maps, held, objects, pool, caches, literal, written, dangling, misled>>

NoProperties == [n \in Name |-> Undefined]
Blank == [map |-> Nobody, properties |-> <<>>, dictionary |-> NoProperties]
NewMap(prototype, dictionary) ==
  [descriptors |-> <<>>, transitions |-> [n \in Name |-> Nobody],
   prototype |-> prototype, dictionary |-> dictionary]
NoLiteral == [object |-> Nobody, next |-> 1]

Init ==
  /\ maps = [a \in Address |-> NewMap(Nobody, FALSE)] /\ held = {RootMap}
  /\ objects = [o \in Object |-> Blank] /\ pool = <<>>
  /\ propertyCache = [s \in Site |-> Nobody] /\ methodCache = [s \in Site |-> Nobody]
  /\ transitionCache = [s \in Site |-> Nobody] /\ boilerplate = Nobody
  /\ literal = NoLiteral /\ written = [o \in Object |-> NoProperties]
  /\ dangling = {} /\ misled = FALSE

-----------------------------------------------------------------------------
(* Reading *)

Elements(s) == {s[i] : i \in DOMAIN s}
Pooled == Elements(pool)
Live == {o \in Object : objects[o].map # Nobody} \ Pooled
MapOf(o) == maps[objects[o].map]
PrototypeOf(o) == MapOf(o).prototype

(* The maps that something other than a map refers to: the root, the maps  *)
(* of objects, pooled ones included, and those of caches.  What is         *)
(* referenced is the least set with these and the maps they lead to.       *)
MapRoots ==
  LET cached == {boilerplate} \cup
                {transitionCache[s].target : s \in {x \in Site : transitionCache[x] # Nobody}}
  IN {RootMap} \cup {objects[o].map : o \in Live \cup Pooled} \cup (cached \ {Nobody})

Led(S) == \A m \in S, n \in Name : maps[m].transitions[n] \in S \cup {Nobody}
Referenced ==
  LET closed == {S \in SUBSET Address : Led(S)}
      roots == MapRoots
  IN {m \in Address : \A S \in closed : roots \subseteq S => m \in S}

(* Where the allocator may put the next map: it reuses what was freed.     *)
Available == Address \ held

EntryOf(e) ==
  CASE e[1] = "field" -> propertyCache[e[2]]
    [] e[1] = "method" -> methodCache[e[2]]
    [] OTHER -> transitionCache[e[2]]

(* find_field_index *)
HasField(map, n) == n \in Elements(map.descriptors)
FieldOf(map, n) == CHOOSE i \in DOMAIN map.descriptors : map.descriptors[i] = n

(* The value in a slot, if the object has that slot. *)
SlotValue(o, i) == IF i \in DOMAIN objects[o].properties THEN objects[o].properties[i] ELSE Undefined

Own(o, n) ==
  IF MapOf(o).dictionary THEN objects[o].dictionary[n]
  ELSE IF HasField(MapOf(o), n) THEN SlotValue(o, FieldOf(MapOf(o), n))
  ELSE Undefined

(* The prototype chain of o, Nobody after its end. *)
Chain(o) ==
  LET up[k \in 0..MaxObjects] ==
        IF k = 0 THEN o ELSE IF up[k - 1] = Nobody THEN Nobody ELSE PrototypeOf(up[k - 1])
  IN up

(* has_accessor_in_chain and get_property never return on a cyclic chain.  *)
Ends(o) == Chain(o)[MaxObjects] = Nobody

(* get_property: the first object of the chain that has the name. *)
Lookup(o, n) ==
  LET holders == {k \in 0..MaxObjects : Chain(o)[k] # Nobody /\ Own(Chain(o)[k], n) # Undefined}
  IN IF holders = {} THEN Undefined
     ELSE Own(Chain(o)[CHOOSE k \in holders : \A j \in holders : k <= j], n)

(* Mutant: the address is not compared. *)
MutMatches(entry, map) == entry # Nobody
Matches(entry, map) == entry # Nobody /\ entry.map = map

FieldHit(s, o) ==
  /\ Matches(propertyCache[s], objects[o].map)
  /\ propertyCache[s].field \in DOMAIN objects[o].properties

MethodHit(s, o) == ~Matches(propertyCache[s], objects[o].map) /\ Matches(methodCache[s], objects[o].map)

(* What LdaNamedProperty leaves in the accumulator. *)
Loaded(n, o) ==
  LET s == LoadSite(n)
  IN IF FieldHit(s, o) THEN SlotValue(o, propertyCache[s].field)
     ELSE IF MethodHit(s, o) THEN methodCache[s].method
     ELSE Lookup(o, n)

-----------------------------------------------------------------------------
(* Writing *)

Target(m, n) == maps[m].transitions[n]

(* Mutant: the new map starts with the transitions of the old one. *)
MutExtended(m, n) == [maps[m] EXCEPT !.descriptors = Append(@, n)]
Extended(m, n) ==
  [maps[m] EXCEPT !.descriptors = Append(@, n), !.transitions = [x \in Name |-> Nobody]]

(* transition_to_property: the maps when m leads to t with the name n, and *)
(* the addresses t can be.                                                 *)
WithTransition(m, n, t) ==
  IF Target(m, n) # Nobody THEN maps
  ELSE [maps EXCEPT ![m].transitions[n] = t, ![t] = Extended(m, n)]
Targets(m, n) == IF Target(m, n) # Nobody THEN {Target(m, n)} ELSE Available

Put(slots, i, v) ==
  [j \in 1..(IF i > Len(slots) THEN i ELSE Len(slots)) |->
     IF j = i THEN v ELSE IF j <= Len(slots) THEN slots[j] ELSE Undefined]

Wrote(o, n, v) == written' = [written EXCEPT ![o][n] = v]

(* set_property on a plain object. *)
SetProperty(o, n, v) ==
  LET m == objects[o].map
  IN IF MapOf(o).dictionary
     THEN objects' = [objects EXCEPT ![o].dictionary[n] = v] /\ UNCHANGED maps
     ELSE IF HasField(MapOf(o), n)
     THEN /\ objects' = [objects EXCEPT ![o].properties = Put(@, FieldOf(MapOf(o), n), v)]
          /\ UNCHANGED maps
     ELSE \E t \in Targets(m, n) :
            /\ maps' = WithTransition(m, n, t)
            /\ objects' = [objects EXCEPT ![o].map = t, ![o].properties = Append(@, v)]

(* StaNamedProperty, by what its caches say about the map of the object.   *)
StoreField(s, o, n, v) ==
  /\ FieldHit(s, o)
  /\ objects' = [objects EXCEPT ![o].properties[propertyCache[s].field] = v]
  /\ UNCHANGED <<maps, propertyCache, transitionCache>>

StoreTransition(s, o, n, v) ==
  /\ ~FieldHit(s, o) /\ Matches(transitionCache[s], objects[o].map)
  /\ objects' = [objects EXCEPT ![o].map = transitionCache[s].target,
                                ![o].properties = Append(@, v)]
  /\ UNCHANGED <<maps, propertyCache, transitionCache>>

Remember(s, o, n) ==
  LET before == objects[o].map
      after == objects'[o].map
  IN IF before # after
     THEN /\ transitionCache' = [transitionCache EXCEPT ![s] = [map |-> before, target |-> after]]
          /\ UNCHANGED propertyCache
     ELSE /\ propertyCache' = [propertyCache EXCEPT ![s] =
               IF ~maps'[after].dictionary /\ HasField(maps'[after], n)
               THEN [map |-> after, field |-> FieldOf(maps'[after], n)] ELSE @]
          /\ UNCHANGED transitionCache

StoreSlow(s, o, n, v) ==
  /\ ~FieldHit(s, o) /\ ~Matches(transitionCache[s], objects[o].map)
  /\ Ends(o)
  /\ SetProperty(o, n, v)
  /\ Remember(s, o, n)

Misleads(s, o) ==
  \/ FieldHit(s, o) /\ <<"field", s>> \in dangling
  \/ /\ ~FieldHit(s, o) /\ Matches(transitionCache[s], objects[o].map)
     /\ <<"transition", s>> \in dangling

StoreAt(s, o, n, v) ==
  /\ StoreField(s, o, n, v) \/ StoreTransition(s, o, n, v) \/ StoreSlow(s, o, n, v)
  /\ Wrote(o, n, v)
  /\ misled' = Misleads(s, o)
  /\ UNCHANGED <<pool, methodCache, boilerplate>>

Store(n, o, v) ==
  /\ o # literal.object /\ <<n, v>> \in Stored
  /\ StoreAt(StoreSite(n), o, n, v) /\ UNCHANGED literal

(* StaKeyedProperty has no cache. *)
KeyedStore(n, o, v) ==
  /\ o # literal.object /\ <<n, v>> \in Stored
  /\ SetProperty(o, n, v)
  /\ Wrote(o, n, v)
  /\ UNCHANGED <<pool, caches, literal, misled>>

(* LdaNamedProperty: a miss fills one of the two caches. *)
Load(n, o) ==
  LET s == LoadSite(n)
      m == objects[o].map
      value == Lookup(o, n)
      own == ~MapOf(o).dictionary /\ HasField(MapOf(o), n)
  IN /\ o # literal.object
     /\ ~Matches(propertyCache[s], m) /\ ~MethodHit(s, o) /\ Ends(o)
     /\ IF own
        THEN /\ propertyCache' = [propertyCache EXCEPT ![s] =
                  IF FieldOf(MapOf(o), n) \in DOMAIN objects[o].properties
                  THEN [map |-> m, field |-> FieldOf(MapOf(o), n)] ELSE @]
             /\ UNCHANGED methodCache
        ELSE /\ methodCache' = [methodCache EXCEPT ![s] =
                  IF ~MapOf(o).dictionary /\ value \in Functions
                  THEN [map |-> m, method |-> value] ELSE @]
             /\ UNCHANGED propertyCache
     /\ UNCHANGED <<maps, objects, pool, transitionCache, boilerplate, literal, written, misled>>

(* delete_property: to a dictionary first. *)
Delete(n, o) ==
  /\ o # literal.object
  /\ IF MapOf(o).dictionary
     THEN objects' = [objects EXCEPT ![o].dictionary[n] = Undefined] /\ UNCHANGED maps
     ELSE \E a \in Available :
            /\ maps' = [maps EXCEPT ![a] = NewMap(PrototypeOf(o), TRUE)]
            /\ objects' = [objects EXCEPT ![o] =
                 [map |-> a, properties |-> <<>>,
                  dictionary |-> [x \in Name |-> IF x = n THEN Undefined ELSE Own(o, x)]]]
  /\ Wrote(o, n, Undefined)
  /\ UNCHANGED <<pool, caches, literal, misled>>

-----------------------------------------------------------------------------
(* Objects come and go. *)

Free == {o \in Object : objects[o].map = Nobody}

(* Where a new object lives: the last one recycled, or new memory.         *)
NewObject == IF pool # <<>> THEN pool[Len(pool)] ELSE CHOOSE o \in Free : \A p \in Free : o <= p
CanMake == pool # <<>> \/ Free # {}

(* Mutant: the properties of a recycled object are not cleared. *)
MutFresh(o, m) == [objects[o] EXCEPT !.map = m]
(* new_empty resets a recycled object. *)
Fresh(o, m) == [Blank EXCEPT !.map = m]

Make(o, object) ==
  /\ objects' = [objects EXCEPT ![o] = object]
  /\ pool' = IF pool # <<>> THEN SubSeq(pool, 1, Len(pool) - 1) ELSE pool
  /\ written' = [written EXCEPT ![o] = NoProperties]

(* new Object, Object.create(null) *)
Create ==
  /\ CanMake /\ Make(NewObject, Fresh(NewObject, RootMap))
  /\ UNCHANGED <<maps, caches, literal, misled>>

(* Object.create(p), new C: a root map of its own, made before the object  *)
(* leaves the pool.                                                        *)
CreateFrom(p) ==
  /\ CanMake /\ p # literal.object
  /\ \E a \in Available :
       /\ maps' = [maps EXCEPT ![a] = NewMap(p, FALSE)]
       /\ Make(NewObject, Fresh(NewObject, a))
  /\ UNCHANGED <<caches, literal, misled>>

(* The map at the end of the transitions 1, 2, ... of the literal, if all  *)
(* of them exist.                                                          *)
Resolved ==
  LET end[k \in 0..Scanned] ==
        IF k = 0 THEN RootMap ELSE IF end[k - 1] = Nobody THEN Nobody ELSE Target(end[k - 1], k)
  IN end[Scanned]

(* new_with_map: as many undefined slots as the map has fields. *)
Sized(m) ==
  [Fresh(NewObject, m) EXCEPT !.properties = [i \in 1..Len(maps[m].descriptors) |-> Undefined]]

(* CreateEmptyObjectLiteral *)
BeginLiteral ==
  /\ literal = NoLiteral /\ CanMake
  /\ literal' = [object |-> NewObject, next |-> 1]
  /\ IF boilerplate # Nobody
     THEN Make(NewObject, Sized(boilerplate)) /\ UNCHANGED <<propertyCache, boilerplate>>
     ELSE IF Scanned > 0 /\ Resolved # Nobody
     THEN /\ Make(NewObject, Sized(Resolved))
          /\ boilerplate' = Resolved
          /\ propertyCache' = [s \in Site |->
               IF s[1] = "init" /\ s[2] <= Scanned
               THEN [map |-> Resolved, field |-> s[2]] ELSE propertyCache[s]]
     ELSE /\ Make(NewObject, Fresh(NewObject, RootMap))
          /\ UNCHANGED <<propertyCache, boilerplate>>
  /\ UNCHANGED <<maps, methodCache, transitionCache, misled>>

InitLiteral(v) ==
  /\ literal # NoLiteral /\ literal.next <= LiteralSize /\ <<literal.next, v>> \in Stored
  /\ StoreAt(InitSite(literal.next), literal.object, literal.next, v)
  /\ literal' = [literal EXCEPT !.next = @ + 1]

EndLiteral ==
  /\ literal # NoLiteral /\ literal.next > LiteralSize
  /\ literal' = NoLiteral
  /\ UNCHANGED <<maps, objects, pool, caches, written, misled>>

Prototypes == {maps[m].prototype : m \in held}

(* The last variable that holds the object is overwritten. *)
Drop(o) ==
  /\ o # literal.object /\ o \notin Prototypes
  /\ \/ /\ Len(pool) < PoolSize /\ pool' = Append(pool, o) /\ UNCHANGED objects
     \/ objects' = [objects EXCEPT ![o] = Blank] /\ UNCHANGED pool
  /\ written' = [written EXCEPT ![o] = NoProperties]
  /\ UNCHANGED <<maps, caches, literal, misled>>

-----------------------------------------------------------------------------
(* Prototypes *)

(* Rc::strong_count(&obj.map) > 1 *)
Shared(o) ==
  LET m == objects[o].map
  IN \/ m = RootMap \/ m = boilerplate
     \/ \E p \in (Live \cup Pooled) \ {o} : objects[p].map = m
     \/ \E s \in Site : transitionCache[s] # Nobody /\ transitionCache[s].target = m
     \/ \E h \in held, n \in Name : maps[h].transitions[n] = m

(* Object.setPrototypeOf(o, p): a copy of a shared map, else in place.     *)
SetPrototypeOf(o, p) ==
  /\ o # literal.object /\ p # literal.object
  /\ IF Shared(o)
     THEN \E a \in Available :
            /\ maps' = [maps EXCEPT ![a] = [MapOf(o) EXCEPT !.prototype = p]]
            /\ objects' = [objects EXCEPT ![o].map = a]
     ELSE /\ maps' = [maps EXCEPT ![objects[o].map].prototype = p]
          /\ UNCHANGED objects
  /\ UNCHANGED <<pool, caches, literal, written, misled>>

(* o.__proto__ = p: in the map, whoever shares it. *)
AssignProto(o, p) ==
  /\ o # literal.object /\ p # literal.object
  /\ maps' = [maps EXCEPT ![objects[o].map].prototype = p]
  /\ UNCHANGED <<objects, pool, caches, literal, written, misled>>

Step ==
  \/ Create \/ BeginLiteral \/ EndLiteral
  \/ \E v \in Value : InitLiteral(v)
  \/ \E o \in Live :
       \/ CreateFrom(o) \/ Drop(o)
       \/ \E n \in Loads : Load(n, o)
       \/ \E n \in Stores, v \in Value : Store(n, o, v)
       \/ \E n \in Keyed, v \in Value : KeyedStore(n, o, v)
       \/ \E n \in Deletes : Delete(n, o)
       \/ \E p \in (Live \ {o}) \cup {Nobody} : SetPrototypeOf(o, p) \/ AssignProto(o, p)

(* Rc: a map is freed with the last reference to it. *)
Release == held' = Referenced'

(* An entry dangles from when its map is freed until it is written again.  *)
Dangle ==
  dangling' = {e \in Entry :
    /\ EntryOf(e)' # Nobody
    /\ EntryOf(e)'.map \notin held' \/ (e \in dangling /\ EntryOf(e)' = EntryOf(e))}

(* Bound: a run ends with the first store that was misled. *)
Next == ~misled /\ Step /\ Release /\ Dangle

Spec == Init /\ [][Next]_vars

-----------------------------------------------------------------------------
(* Properties *)

(* Every variable has its type; until a store is misled, what is held      *)
(* leads only to what is held, with one name more, and an object has a     *)
(* slot for each field of its map.                                         *)
TypeOK ==
  /\ maps \in [Address -> Map] /\ held \subseteq Address
  /\ objects \in [Object -> JSObject]
  /\ pool \in Seq(Object) /\ Len(pool) <= PoolSize
  /\ propertyCache \in [Site -> FieldEntry \cup {Nobody}]
  /\ methodCache \in [Site -> MethodEntry \cup {Nobody}]
  /\ transitionCache \in [Site -> TransitionEntry \cup {Nobody}]
  /\ boilerplate \in Address \cup {Nobody}
  /\ literal \in [object : Object \cup {Nobody}, next : 1..Names + 1]
  /\ written \in [Object -> [Name -> Value \cup {Undefined}]]
  /\ dangling \subseteq Entry /\ misled \in BOOLEAN
  /\ ~misled =>
       /\ \A m \in held, n \in Name : Target(m, n) # Nobody =>
            /\ Target(m, n) \in held
            /\ maps[Target(m, n)].descriptors = Append(maps[m].descriptors, n)
       /\ \A o \in Live : Len(objects[o].properties) = Len(MapOf(o).descriptors)

(* The load of n from o would take its value from an entry whose map was   *)
(* freed, because another map is now where that one was.                   *)
Misread(n, o) ==
  LET s == LoadSite(n)
  IN \/ FieldHit(s, o) /\ <<"field", s>> \in dangling
     \/ MethodHit(s, o) /\ <<"method", s>> \in dangling

(* Whatever its caches saw before, a load of a name the object has gives   *)
(* the value last stored in that object under that name, unless the map of *)
(* the very entry it hits was freed since the entry was written, or a      *)
(* store has gone through such an entry before.                            *)
OwnLoadsRight ==
  ~misled => \A o \in Live, n \in Loads :
    written[o][n] # Undefined /\ ~Misread(n, o) => Loaded(n, o) = written[o][n]

(* Stores, deletions, literals and recycling leave every object with       *)
(* exactly the properties it was given: none of another object with the    *)
(* same map, none of the object that had its memory before.  Nothing but a *)
(* store through an entry whose map was freed breaks this: not the reuse   *)
(* of addresses itself, nor the entries left behind as long as they do not *)
(* hit.                                                                    *)
StoresLand == ~misled => \A o \in Live, n \in Name : Own(o, n) = written[o][n]
=============================================================================
