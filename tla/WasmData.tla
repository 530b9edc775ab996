------------------------------- MODULE WasmData -------------------------------
(***************************************************************************)
(* The instructions of wasm/interpreter.rs that go on to the next one:     *)
(* what they do to the operand stack, the locals and the instance (the     *)
(* memories and globals of wasm/instance.rs and the objects of the GC      *)
(* proposal).  A state s is a record of these and of the trap met, if any. *)
(*                                                                         *)
(* One opcode stands for the others of its class: i32 for the numeric      *)
(* types, eqz for the comparisons, add and div_s for the arithmetic, two   *)
(* lanes for the vector shapes.  A memory is made of cells of one value.   *)
(***************************************************************************)
EXTENDS WasmBinary

CONSTANTS
  PageSize,       \* WASM_PAGE_SIZE, in cells
  Cells           \* the most cells an array is made with; a longer one is out of memory
ASSUME DataAssumption == PageSize \in Nat \ {0} /\ Cells \in Nat

Unsigned(n) == n % (2 ^ Width)
I32(n) == [type |-> "i32", n |-> Unsigned(n)]
I31(n) == [type |-> "i31", n |-> n % (2 ^ (Width - 1))]
V128(lanes) == [type |-> "v128", n |-> lanes]
Ref(kind, n) == [type |-> kind, n |-> n]     \* n = 0 is null; otherwise an object, or a function counted from 1
Truth(b) == I32(IF b THEN 1 ELSE 0)

(* default_for a value type. *)
Default(valtype) == CASE valtype = 127 -> I32(0) [] valtype = 108 -> I31(0)
                      [] valtype = 123 -> V128([i \in {1, 2} |-> 0]) [] OTHER -> Ref("func", 0)

Last_(stack, n) == SubSeq(stack, Len(stack) - n + 1, Len(stack))
Cut(stack, n) == SubSeq(stack, 1, Len(stack) - n)

(* n operands are replaced by the results. *)
Yield(s, n, results) == [s EXCEPT !.stack = Cut(@, n) \o results]
Fail(s, kind) == [s EXCEPT !.trap = kind]
Operand(s, i) == s.stack[Len(s.stack) + 1 - i]      \* the i-th from the top
Num(s, i) == Operand(s, i).n
Usize(n) == Signed(n) % (2 ^ (2 * Width))           \* an i32 used as an index: its sign is extended

-----------------------------------------------------------------------------
(* Parametric, locals, globals *)

Select(s) == Yield(s, 3, <<IF Num(s, 1) # 0 THEN Operand(s, 3) ELSE Operand(s, 2)>>)

Local(op, i, s) ==
  IF i >= Len(s.locals) THEN Fail(s, "TypeMismatch")
  ELSE CASE op = "local.get" -> Yield(s, 0, <<s.locals[i + 1]>>)
         [] op = "local.set" -> Yield([s EXCEPT !.locals[i + 1] = Operand(s, 1)], 1, <<>>)
         [] op = "local.tee" -> [s EXCEPT !.locals[i + 1] = Operand(s, 1)]

GlobalGet(i, s) ==
  IF i >= Len(s.globals) THEN Fail(s, "TypeMismatch") ELSE Yield(s, 0, <<s.globals[i + 1].value>>)
GlobalSet(i, s) ==
  IF i >= Len(s.globals) \/ ~s.globals[i + 1].mutable THEN Fail(s, "TypeMismatch")
  ELSE Yield([s EXCEPT !.globals[i + 1].value = Operand(s, 1)], 1, <<>>)

-----------------------------------------------------------------------------
(* Memory *)

OutOfBounds == "OutOfBoundsMemoryAccess"
Inside(s, m, address, size) == m < Len(s.memories) /\ address + size <= Len(s.memories[m + 1].data)

(* Replaces n operands by what the cell at an address gives, when it is inside. *)
LoadCell(s, m, address, n) ==
  IF Inside(s, m, address, 1) THEN Yield(s, n, <<I32(s.memories[m + 1].data[address + 1])>>)
  ELSE Fail(s, OutOfBounds)
StoreCell(s, m, address, value, n) ==
  IF Inside(s, m, address, 1) THEN Yield([s EXCEPT !.memories[m + 1].data[address + 1] = value], n, <<>>)
  ELSE Fail(s, OutOfBounds)

Load(offset, s) == LoadCell(s, 0, Num(s, 1) + offset, 1)
Store(offset, s) == StoreCell(s, 0, Num(s, 2) + offset, Num(s, 1), 2)

Pages(s, m) == IF m >= Len(s.memories) THEN 0 ELSE Len(s.memories[m + 1].data) \div PageSize
MemorySize(m, s) == Yield(s, 0, <<I32(Pages(s, m))>>)
(* max is a sequence: <<>> when the memory has no limit. *)
MemoryGrow(m, s) ==
  LET pages == Pages(s, m) + Num(s, 1)
      refused == \/ m >= Len(s.memories)
                 \/ s.memories[m + 1].max # <<>> /\ pages > s.memories[m + 1].max[1]
      grown(data) == data \o [i \in 1..(PageSize * Num(s, 1)) |-> 0]
  IN  IF refused THEN Yield(s, 1, <<I32(-1)>>)
      ELSE Yield([s EXCEPT !.memories[m + 1].data = grown(@)], 1, <<I32(Pages(s, m))>>)

(* A range of a bulk operation: its end may wrap, and a range whose end *)
(* lies before its start aborts the process when it is sliced.          *)
RangeTrap(s, m, start, size) ==
  LET end == (start + size) % (2 ^ (2 * Width))
  IN  CASE m >= Len(s.memories) \/ end > Len(s.memories[m + 1].data) -> OutOfBounds
        [] start > end -> "panic"
        [] OTHER -> ""
Bulk(op, imm, s) ==
  LET size == Usize(Num(s, 1))
      to == Usize(Num(s, 3))
      from == Usize(Num(s, 2))
      Written(data, Byte(_)) ==
        [i \in DOMAIN data |-> IF i \in (to + 1)..(to + size) THEN Byte(i - to) ELSE data[i]]
      source == IF op = "memory.copy" THEN RangeTrap(s, imm[2], from, size) ELSE ""
      trap == IF source # "" THEN source ELSE RangeTrap(s, imm[1], to, size)
  IN  IF trap # "" THEN Fail(s, trap)
      ELSE Yield([s EXCEPT !.memories[imm[1] + 1].data =
                    Written(@, LAMBDA i : IF op = "memory.fill" THEN Num(s, 2)
                                          ELSE s.memories[imm[2] + 1].data[from + i])], 3, <<>>)

-----------------------------------------------------------------------------
(* Numbers *)

Compare(s) == Yield(s, 1, <<Truth(Num(s, 1) = 0)>>)
Add(s) == Yield(s, 2, <<I32(Num(s, 2) + Num(s, 1))>>)

(* div_s traps in two ways, and rounds to zero. *)
DivTrap(a, b) ==
  IF b = 0 THEN "DivisionByZero"
  ELSE IF Signed(a) = -(2 ^ (Width - 1)) /\ Signed(b) = -1 THEN "IntegerOverflow" ELSE ""
Quotient(a, b) ==
  LET Size(z) == IF Signed(z) < 0 THEN -Signed(z) ELSE Signed(z)
      q == Size(a) \div Size(b)
  IN  IF (Signed(a) < 0) = (Signed(b) < 0) THEN q ELSE -q
Divide(s) ==
  IF DivTrap(Num(s, 2), Num(s, 1)) # "" THEN Fail(s, DivTrap(Num(s, 2), Num(s, 1)))
  ELSE Yield(s, 2, <<I32(Quotient(Num(s, 2), Num(s, 1)))>>)

(* Vectors, lane by lane; the index of a lane is masked, and another value *)
(* in the place of a vector is read as zeros (as_v128).                    *)
Lanes(s, i) == IF Operand(s, i).type = "v128" THEN Num(s, i) ELSE [lane \in {1, 2} |-> 0]
LaneAt(imm) == (imm % 2) + 1
VectorMemory(op, offset, s) ==
  LET address == (IF op = "v128.load" THEN Num(s, 1) ELSE Num(s, 2)) + offset
  IN  CASE ~Inside(s, 0, address, 2) -> Fail(s, OutOfBounds)
        [] op = "v128.load"  -> Yield(s, 1, <<V128([i \in {1, 2} |-> s.memories[1].data[address + i]])>>)
        [] op = "v128.store" ->
             Yield([s EXCEPT !.memories[1].data =
                      [i \in DOMAIN @ |-> IF i - address \in {1, 2} THEN Lanes(s, 1)[i - address] ELSE @[i]]], 2, <<>>)
Splat(s) == Yield(s, 1, <<V128([i \in {1, 2} |-> Num(s, 1)])>>)
ExtractLane(imm, s) == Yield(s, 1, <<I32(Lanes(s, 1)[LaneAt(imm)])>>)
ReplaceLane(imm, s) == Yield(s, 2, <<V128([Lanes(s, 2) EXCEPT ![LaneAt(imm)] = Num(s, 1)])>>)
VectorEqual(s) == Yield(s, 2, <<V128([i \in {1, 2} |-> IF Lanes(s, 2)[i] = Lanes(s, 1)[i] THEN Unsigned(-1) ELSE 0])>>)
VectorAdd(s) == Yield(s, 2, <<V128([i \in {1, 2} |-> Unsigned(Lanes(s, 2)[i] + Lanes(s, 1)[i])])>>)

-----------------------------------------------------------------------------
(* References and objects *)

RefNull(imm, s) == Yield(s, 0, <<Ref(IF imm = 111 THEN "extern" ELSE "func", 0)>>)
RefIsNull(s) == Yield(s, 1, <<Truth(Operand(s, 1).type \in {"func", "extern"} /\ Num(s, 1) = 0)>>)
RefFunc(f, s) == Yield(s, 0, <<Ref("func", f + 1)>>)

Alloc(s, n, kind, type, fields) ==
  Yield([s EXCEPT !.objects = Append(@, [type |-> type, fields |-> fields])], n, <<Ref(kind, Len(s.objects) + 1)>>)

(* The i-th operand must be an object of a kind: a null traps, another value is a mismatch. *)
ObjectTrap(s, i, kind) == CASE Operand(s, i).type # kind -> "TypeMismatch"
                            [] Num(s, i) = 0 -> "NullReference"
                            [] OTHER -> ""
FieldsOf(s, i) == s.objects[Num(s, i)].fields

Struct(op, fields, imm, s) ==
  CASE op = "struct.new" ->
         IF Len(s.stack) < Len(fields) THEN Fail(s, "TypeMismatch")
         ELSE Alloc(s, Len(fields), "struct", imm[1], Last_(s.stack, Len(fields)))
    [] op = "struct.new_default" ->
         Alloc(s, 0, "struct", imm[1], [i \in DOMAIN fields |-> Default(fields[i][1])])
    [] op = "struct.get" ->
         IF ObjectTrap(s, 1, "struct") # "" THEN Fail(s, ObjectTrap(s, 1, "struct"))
         ELSE IF imm[2] >= Len(FieldsOf(s, 1)) THEN Fail(s, "TypeMismatch")
         ELSE Yield(s, 1, <<FieldsOf(s, 1)[imm[2] + 1]>>)
    [] op = "struct.set" ->
         IF ObjectTrap(s, 2, "struct") # "" THEN Fail(s, ObjectTrap(s, 2, "struct"))
         ELSE IF imm[2] >= Len(FieldsOf(s, 2)) THEN Fail(s, "TypeMismatch")
         ELSE Yield([s EXCEPT !.objects[Num(s, 2)].fields[imm[2] + 1] = Operand(s, 1)], 2, <<>>)

Array(op, imm, s) ==
  LET position == IF op = "array.len" THEN 1 ELSE IF op = "array.get" THEN 2 ELSE 3
      index == Usize(Num(s, position - 1))
      trap == ObjectTrap(s, position, "array")
  IN
  CASE op = "array.new" ->
         IF Usize(Num(s, 1)) > Cells THEN Fail(s, "panic")
         ELSE Alloc(s, 2, "array", imm[1], [i \in 1..Num(s, 1) |-> Operand(s, 2)])
    [] op = "array.len" -> IF trap # "" THEN Fail(s, trap) ELSE Yield(s, 1, <<I32(Len(FieldsOf(s, 1)))>>)
    [] op = "array.get" ->
         IF trap # "" THEN Fail(s, trap)
         ELSE IF index >= Len(FieldsOf(s, 2)) THEN Fail(s, OutOfBounds)
         ELSE Yield(s, 2, <<FieldsOf(s, 2)[index + 1]>>)
    [] op = "array.set" ->
         IF trap # "" THEN Fail(s, trap)
         ELSE IF index >= Len(FieldsOf(s, 3)) THEN Fail(s, OutOfBounds)
         ELSE Yield([s EXCEPT !.objects[Num(s, 3)].fields[index + 1] = Operand(s, 1)], 3, <<>>)

(* Whether a value is of a heap type: any, eq, i31, struct, array or a type of the module. *)
IsOf(s, v, heap) ==
  CASE v.type = "i31" -> heap \in {-17, -18, -19}
    [] v.type \in {"struct", "array"} /\ v.n # 0 ->
         \/ heap \in {-17, -18}
         \/ heap = (IF v.type = "struct" THEN -20 ELSE -21)
         \/ heap >= 0 /\ s.objects[v.n].type = heap
    [] OTHER -> FALSE
IsNull(v) == v.type \in {"struct", "array", "func", "extern"} /\ v.n = 0
RefTest(nullable, heap, s) ==
  Yield(s, 1, <<Truth((nullable /\ IsNull(Operand(s, 1))) \/ IsOf(s, Operand(s, 1), heap))>>)
RefCast(nullable, heap, s) ==
  IF (nullable /\ IsNull(Operand(s, 1))) \/ IsOf(s, Operand(s, 1), heap) THEN s ELSE Fail(s, "TypeMismatch")
I31New(s) == Yield(s, 1, <<I31(Num(s, 1))>>)
I31Get(signed, s) ==
  IF Operand(s, 1).type # "i31" THEN Fail(s, "TypeMismatch")
  ELSE Yield(s, 1, <<I32(IF signed /\ Num(s, 1) >= 2 ^ (Width - 2) THEN Num(s, 1) - 2 ^ (Width - 1) ELSE Num(s, 1))>>)

-----------------------------------------------------------------------------
(* Atomics: the address is the last operand, the values lie below it. *)

AtomicLoad(offset, s) == LoadCell(s, 0, Num(s, 1) + offset, 1)
AtomicStore(offset, s) == StoreCell(s, 0, Num(s, 1) + offset, Num(s, 2), 2)
(* Read, write, give the value before. *)
AtomicUpdate(s, offset, n, Update(_)) ==
  LET read == LoadCell(s, 0, Num(s, 1) + offset, n)
      old == Operand(read, 1).n
  IN  IF read.trap # "" THEN read
      ELSE [read EXCEPT !.memories[1].data[Num(s, 1) + offset + 1] = Update(old)]
AtomicRmw(offset, s) == AtomicUpdate(s, offset, 2, LAMBDA old : Unsigned(old + Num(s, 2)))
AtomicCmpxchg(offset, s) == AtomicUpdate(s, offset, 3, LAMBDA old : IF old = Num(s, 3) THEN Num(s, 2) ELSE old)
(* A wait compares and never blocks, a notification wakes nobody. *)
AtomicWait(offset, s) ==
  LET read == LoadCell(s, 0, Num(s, 1) + offset, 3)
  IN  IF read.trap # "" THEN read ELSE Yield(read, 1, <<Truth(Operand(read, 1).n # Num(s, 3))>>)
AtomicNotify(offset, s) ==
  IF Inside(s, 0, Num(s, 1) + offset, 1) THEN Yield(s, 2, <<I32(0)>>) ELSE Fail(s, OutOfBounds)

-----------------------------------------------------------------------------
(* The opcodes: <<name, bytes, immediates, types of the operands>>. *)

PlainOps == {
  <<"nop", <<1>>, 0, <<>>>>,                  <<"const", <<65>>, 1, <<>>>>,
  <<"drop", <<26>>, 0, <<"any">>>>,           <<"select", <<27>>, 0, <<"any", "any", "i32">>>>,
  <<"local.get", <<32>>, 1, <<>>>>,           <<"local.set", <<33>>, 1, <<"any">>>>,
  <<"local.tee", <<34>>, 1, <<"any">>>>,      <<"global.get", <<35>>, 1, <<>>>>,
  <<"global.set", <<36>>, 1, <<"any">>>>,     <<"load", <<40>>, 2, <<"i32">>>>,
  <<"store", <<54>>, 2, <<"i32", "i32">>>>,   <<"memory.size", <<63>>, 1, <<>>>>,
  <<"memory.grow", <<64>>, 1, <<"i32">>>>,    <<"eqz", <<69>>, 0, <<"i32">>>>,
  <<"add", <<106>>, 0, <<"i32", "i32">>>>,    <<"div_s", <<109>>, 0, <<"i32", "i32">>>>,
  <<"ref.null", <<208>>, 1, <<>>>>,           <<"ref.is_null", <<209>>, 0, <<"any">>>>,
  <<"ref.func", <<210>>, 1, <<>>>>,
  <<"memory.copy", <<252, 10>>, 2, <<"i32", "i32", "i32">>>>,
  <<"memory.fill", <<252, 11>>, 1, <<"i32", "i32", "i32">>>>,
  <<"v128.load", <<253, 0>>, 2, <<"i32">>>>,  <<"v128.store", <<253, 11>>, 2, <<"i32", "any">>>>,
  <<"splat", <<253, 17>>, 0, <<"i32">>>>,     <<"extract_lane", <<253, 27>>, 1, <<"any">>>>,
  <<"replace_lane", <<253, 28>>, 1, <<"any", "i32">>>>,
  <<"vector.eq", <<253, 55>>, 0, <<"any", "any">>>>,
  <<"vector.add", <<253, 110>>, 0, <<"any", "any">>>>,
  <<"struct.new", <<251, 0>>, 1, <<>>>>,      <<"struct.new_default", <<251, 1>>, 1, <<>>>>,
  <<"struct.get", <<251, 2>>, 2, <<"any">>>>, <<"struct.set", <<251, 5>>, 2, <<"any", "any">>>>,
  <<"array.new", <<251, 6>>, 1, <<"any", "i32">>>>,
  <<"array.get", <<251, 11>>, 1, <<"any", "i32">>>>,
  <<"array.set", <<251, 14>>, 1, <<"any", "i32", "any">>>>,
  <<"array.len", <<251, 15>>, 0, <<"any">>>>,
  <<"ref.test", <<251, 20>>, 1, <<"any">>>>,  <<"ref.test_null", <<251, 21>>, 1, <<"any">>>>,
  <<"ref.cast", <<251, 22>>, 1, <<"any">>>>,  <<"ref.cast_null", <<251, 23>>, 1, <<"any">>>>,
  <<"i31.new", <<251, 28>>, 0, <<"i32">>>>,
  <<"i31.get_s", <<251, 29>>, 0, <<"any">>>>, <<"i31.get_u", <<251, 30>>, 0, <<"any">>>>,
  <<"atomic.notify", <<254, 0>>, 2, <<"i32", "i32">>>>,
  <<"atomic.wait", <<254, 1>>, 2, <<"i32", "i32", "i32">>>>,
  <<"atomic.load", <<254, 16>>, 2, <<"i32">>>>, <<"atomic.store", <<254, 23>>, 2, <<"i32", "i32">>>>,
  <<"atomic.rmw", <<254, 30>>, 2, <<"i32", "i32">>>>,
  <<"atomic.cmpxchg", <<254, 72>>, 2, <<"i32", "i32", "i32">>>>}

PlainNames == {p[1] : p \in PlainOps}
PlainOf(name) == CHOOSE p \in PlainOps : p[1] = name

(* An instruction with its immediates, given the types defined; too few operands, or of other types, are a mismatch. *)
Apply(defined, op, imm, s) ==
  LET types == PlainOf(op)[4]
      given == IF Len(s.stack) < Len(types) THEN <<>> ELSE Last_(s.stack, Len(types))
      n == IF imm = <<>> THEN 0 ELSE imm[1]
      IsStruct(type) == type < Len(defined) /\ defined[type + 1][1] = "struct"
      Fields(type) == IF IsStruct(type) THEN defined[type + 1][2] ELSE <<>>
  IN
  IF Len(given) # Len(types) \/ \E i \in DOMAIN types : types[i] \notin {"any", given[i].type} THEN Fail(s, "TypeMismatch")
  ELSE
  CASE op = "nop" -> s
    [] op = "const" -> Yield(s, 0, <<I32(n)>>)
    [] op = "drop" -> Yield(s, 1, <<>>)
    [] op = "select" -> Select(s)
    [] op \in {"local.get", "local.set", "local.tee"} -> Local(op, n, s)
    [] op = "global.get" -> GlobalGet(n, s)
    [] op = "global.set" -> GlobalSet(n, s)
    [] op = "load" -> Load(imm[2], s)
    [] op = "store" -> Store(imm[2], s)
    [] op = "memory.size" -> MemorySize(n, s)
    [] op = "memory.grow" -> MemoryGrow(n, s)
    [] op = "eqz" -> Compare(s)
    [] op = "add" -> Add(s)
    [] op = "div_s" -> Divide(s)
    [] op \in {"memory.copy", "memory.fill"} -> Bulk(op, imm, s)
    [] op \in {"v128.load", "v128.store"} -> VectorMemory(op, imm[2], s)
    [] op = "splat" -> Splat(s)
    [] op = "extract_lane" -> ExtractLane(n, s)
    [] op = "replace_lane" -> ReplaceLane(n, s)
    [] op = "vector.eq" -> VectorEqual(s)
    [] op = "vector.add" -> VectorAdd(s)
    [] op = "ref.null" -> RefNull(n, s)
    [] op = "ref.is_null" -> RefIsNull(s)
    [] op = "ref.func" -> RefFunc(n, s)
    [] op \in {"struct.new", "struct.new_default"} /\ ~IsStruct(n) -> Fail(s, "TypeMismatch")
    [] op \in {"struct.new", "struct.new_default", "struct.get", "struct.set"} -> Struct(op, Fields(n), imm, s)
    [] op \in {"array.new", "array.get", "array.set", "array.len"} -> Array(op, imm, s)
    [] op \in {"ref.test", "ref.test_null"} -> RefTest(op = "ref.test_null", n, s)
    [] op \in {"ref.cast", "ref.cast_null"} -> RefCast(op = "ref.cast_null", n, s)
    [] op = "i31.new" -> I31New(s)
    [] op \in {"i31.get_s", "i31.get_u"} -> I31Get(op = "i31.get_s", s)
    [] op = "atomic.notify" -> AtomicNotify(imm[2], s)
    [] op = "atomic.wait" -> AtomicWait(imm[2], s)
    [] op = "atomic.load" -> AtomicLoad(imm[2], s)
    [] op = "atomic.store" -> AtomicStore(imm[2], s)
    [] op = "atomic.rmw" -> AtomicRmw(imm[2], s)
    [] op = "atomic.cmpxchg" -> AtomicCmpxchg(imm[2], s)
===============================================================================
