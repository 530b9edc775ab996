-------------------------------- MODULE SmiLoop --------------------------------
(***************************************************************************)
(* The paths of src/src/interpreter/interpreter.rs that leave out the      *)
(* frames and values of a loop or a recursive function on small integers.  *)
(*                                                                         *)
(* A loop whose header compares a register with a limit, and whose body is *)
(* made of few kinds of instructions, is decoded into operations on        *)
(* sixteen integers and run to its end by one JumpLoop; an object literal  *)
(* of the body becomes up to eight integers, and one array is read or      *)
(* written in place.  A function of the shape of fib is run by itself.     *)
(***************************************************************************)
EXTENDS Values, Bytecode

At(body, p) == IF p \in DOMAIN body THEN body[p] ELSE <<"End">>

-----------------------------------------------------------------------------
(* The header of a loop: i < limit, i <= limit, or i < a.length *)

Header(code, start) ==
  LET Is(k, op) == At(code, start + k)[1] = op
      limited == Is(1, "<") \/ Is(1, "<=")
      counted == /\ Is(1, "Star") /\ Is(2, "LdaNamedProperty") /\ At(code, start + 2)[3] = "length"
                 /\ Is(3, "Star") /\ Is(4, "Ldar") /\ Is(5, "<") /\ Is(6, "JumpIfFalse")
      test == IF limited THEN 1 ELSE 5
  IN IF Is(0, "Ldar") /\ ((limited /\ Is(2, "JumpIfFalse")) \/ counted)
     THEN <<[index |-> code[start][2], op |-> code[start + test][1], limit |-> code[start + test][2],
             array |-> IF limited THEN <<>> ELSE <<code[start + 2][2]>>,
             exit |-> start + test + 1, body |-> start + test + 2]>>
     ELSE <<>>

LengthOf(heap, v) ==
  CASE v[1] = "array" -> Smi(Len(heap[v[2]].elements))
    [] v[1] = "object" /\ Property(heap[v[2]], <<"length">>)[1] = "number" -> Property(heap[v[2]], <<"length">>)
    [] OTHER -> Smi(0)

-----------------------------------------------------------------------------
(* decode_smi_loop_body.  made is the register of the object literal that  *)
(* has no variable yet, alias the variable it went to, push the array and  *)
(* registers of a call of push that is not complete.                       *)

Undecoded == [ok |-> TRUE, p |-> 1, ops |-> <<>>, at |-> <<>>, made |-> <<>>, alias |-> <<>>, names |-> <<>>, push |-> <<>>]
Refuse(d) == [d EXCEPT !.ok = FALSE]
Take(d, op, n) == [d EXCEPT !.ops = Append(@, op), !.at = Append(@, d.p), !.p = @ + n]
Compact(r) == Slot(r) < 16
OnSlots(d, registers, op) == IF \A r \in registers : Compact(r) THEN Take(d, op, 1) ELSE Refuse(d)

BeginsPush(body, p) ==
  /\ Compact(body[p][2]) /\ At(body, p + 1)[1] = "Star" /\ At(body, p + 3)[1] = "Star"
  /\ At(body, p + 2) = <<"LdaNamedProperty", body[p + 1][2], "push">>

DecodeLoad(body, d, r) ==
  IF BeginsPush(body, d.p)
  THEN [d EXCEPT !.push = <<Slot(r), body[d.p + 1][2], body[d.p + 3][2]>>, !.p = @ + 4]
  ELSE IF d.made = <<r>> /\ At(body, d.p + 1)[1] = "Star"
  THEN [d EXCEPT !.made = <<>>, !.alias = <<body[d.p + 1][2]>>, !.p = @ + 2]
  ELSE IF <<r>> \in {d.made, d.alias} THEN Refuse(d)
  ELSE OnSlots(d, {r}, <<"Load", Slot(r)>>)

Named(d, x) == SelectInSeq(d.names, LAMBDA name : name = x)
DecodeNamed(d, i) ==
  IF <<i[2]>> \notin {d.made, d.alias} THEN Refuse(d)
  ELSE IF Named(d, i[3]) # 0
  THEN Take(d, <<IF i[1] = "StaNamedProperty" THEN "SetProp" ELSE "GetProp", Named(d, i[3])>>, 1)
  ELSE IF i[1] = "StaNamedProperty" /\ Len(d.names) < 8
  THEN Take([d EXCEPT !.names = Append(@, i[3])], <<"SetProp", Len(d.names) + 1>>, 1)
  ELSE Refuse(d)

DecodeOne(body, d) ==
  LET i == body[d.p]
  IN CASE i[1] = "Star" -> IF d.alias = <<i[2]>> THEN Refuse(d) ELSE OnSlots(d, {i[2]}, <<"Store", Slot(i[2])>>)
       [] i[1] = "Ldar" -> DecodeLoad(body, d, i[2])
       [] i[1] = "CreateEmptyObjectLiteral" ->
            IF d.made # <<>> \/ At(body, d.p + 1)[1] # "Star" THEN Refuse(d)
            ELSE Take([d EXCEPT !.made = <<body[d.p + 1][2]>>], <<"ResetObject">>, 2)
       [] i[1] \in {"StaNamedProperty", "LdaNamedProperty"} -> DecodeNamed(d, i)
       [] i[1] = "LdaZero" -> Take(d, <<"Const", 0>>, 1)
       [] i[1] = "LdaSmi" -> Take(d, <<"Const", i[2]>>, 1)
       [] i[1] = "LdaConstant" /\ i[2][1] = "number" -> Take(d, <<"Const", i[2][2]>>, 1)
       [] i[1] \in {"+", "-", "*", "%", "&", "|", "^"} -> OnSlots(d, {i[2]}, <<"Reg", i[1], Slot(i[2])>>)
       [] i[1] = "Smi" /\ i[2] \in {"+", "-", "*", "&", "|", "^", "<<", ">>"} -> Take(d, <<"Imm", i[2], i[3]>>, 1)
       [] i[1] = "StaKeyedProperty" -> OnSlots(d, {i[2], i[3]}, <<"StoreKeyed", Slot(i[2]), Slot(i[3])>>)
       [] i[1] = "LdaKeyedProperty" -> OnSlots(d, {i[2], i[3]}, <<"LoadKeyed", Slot(i[2]), Slot(i[3])>>)
       [] i[1] = "CallProperty" /\ d.push # <<>> /\ <<i[3], i[2]>> = Tail(d.push) /\ i[5] = 1 /\ Compact(i[4]) ->
            Take([d EXCEPT !.push = <<>>], <<"ArrayPush", d.push[1], Slot(i[4])>>, 1)
       [] i[1] = "===" -> OnSlots(d, {i[2]}, <<"TestEqualStrict", Slot(i[2])>>)
       [] i[1] = "JumpIfFalse" ->
            IF d.p + i[2] > Len(body) + 1 THEN Refuse(d) ELSE Take(d, <<"JumpIfFalse", d.p + i[2]>>, 1)
       [] OTHER -> Refuse(d)

RECURSIVE DecodeFrom(_, _)
DecodeFrom(body, d) == IF ~d.ok \/ d.p > Len(body) THEN d ELSE DecodeFrom(body, DecodeOne(body, d))

(* The register of the object that the loop leaves behind. *)
ObjectRegister(d) == IF d.alias # <<>> THEN d.alias ELSE d.made

(* A load of the index at the start of the body is left out. *)
Decode(body, header) ==
  LET d == DecodeFrom(body, [Undecoded EXCEPT !.p = IF At(body, 1) = <<"Ldar", header.index>> THEN 2 ELSE 1])
      lands == \A k \in DOMAIN d.ops :
                 d.ops[k][1] = "JumpIfFalse" => d.ops[k][2] \in ToSet(d.at) \cup {Len(body) + 1}
      object == ObjectRegister(d)
  IN IF /\ d.push = <<>> /\ lands /\ Compact(header.index) /\ Compact(header.limit)
        /\ object # <<>> => Compact(object[1]) /\ d.names # <<>>
     THEN d ELSE Refuse(d)

-----------------------------------------------------------------------------
(* A run of the decoded loop: m has the accumulator, the integers of the   *)
(* slots and of the object, and the array.                                 *)

OnArray == {"StoreKeyed", "LoadKeyed", "ArrayPush"}

(* The array the loop works on: that of the last operation on one.         *)
Targets(d, slots) == SelectSeq(d.ops, LAMBDA op : op[1] \in OnArray /\ slots[op[2]][1] = "array")
CanRun(d, slots, heap) ==
  LET targets == Targets(d, slots)
  IN IF targets = <<>> THEN \A k \in DOMAIN d.ops : d.ops[k][1] \notin OnArray
     ELSE (\E k \in DOMAIN d.ops : d.ops[k][1] = "LoadKeyed" /\ d.ops[k][2] = Last(targets)[2])
          => \A e \in ToSet(heap[slots[Last(targets)[2]][2]].elements) : e[1] = "number"

RunOp(m, op) ==
  CASE op[1] = "Load" -> [m EXCEPT !.acc = m.regs[op[2]]]
    [] op[1] = "Store" -> [m EXCEPT !.regs[op[2]] = m.acc]
    [] op[1] = "Const" -> [m EXCEPT !.acc = op[2]]
    [] op[1] = "Imm" -> [m EXCEPT !.acc = Numeric(op[2], @, op[3])]
    [] op[1] = "Reg" -> IF op[2] = "%" /\ m.regs[op[3]] = 0 THEN m
                        ELSE [m EXCEPT !.acc = Numeric(op[2], @, m.regs[op[3]])]
    [] op[1] = "TestEqualStrict" -> [m EXCEPT !.acc = IF @ = m.regs[op[2]] THEN 1 ELSE 0]
    [] op[1] = "ResetObject" -> [m EXCEPT !.props = [k \in 1..8 |-> 0]]
    [] op[1] = "SetProp" -> [m EXCEPT !.props[op[2]] = m.acc]
    [] op[1] = "GetProp" -> [m EXCEPT !.acc = m.props[op[2]]]
    [] op[1] = "StoreKeyed" -> [m EXCEPT !.array = SetElement(@, m.regs[op[3]], Smi(m.acc))]
    [] op[1] = "LoadKeyed" -> [m EXCEPT !.acc = AsInteger(ToNumber(Element(m.array, m.regs[op[3]])))]
    [] op[1] = "ArrayPush" -> [m EXCEPT !.array.elements = Append(@, Smi(m.regs[op[3]]))]

RECURSIVE RunOps(_, _, _)
RunOps(d, k, m) ==
  IF k > Len(d.ops) THEN m
  ELSE IF d.ops[k][1] # "JumpIfFalse" THEN RunOps(d, k + 1, RunOp(m, d.ops[k]))
  ELSE IF m.acc # 0 THEN RunOps(d, k + 1, m)
  ELSE RunOps(d, Len(SelectSeq(d.at, LAMBDA p : p < d.ops[k][2])) + 1, m)

RECURSIVE Iterate(_, _, _, _)
Iterate(d, header, limit, m) ==
  LET after == RunOps(d, 1, m)
      i == after.regs[Slot(header.index)]
  IN IF Test(header.op, Smi(i), Smi(limit)) THEN Iterate(d, header, limit, [after EXCEPT !.acc = i]) ELSE after

(* The slots and the heap behind the loop. *)
Written(d) == {d.ops[k][2] : k \in {k \in DOMAIN d.ops : d.ops[k][1] = "Store"}}
WriteBack(d, m, slots, heap) ==
  LET targets == Targets(d, slots)
      array == IF targets = <<>> THEN {} ELSE {Last(targets)[2]}
      object == ObjectRegister(d)
      made == FoldLeft(LAMBDA o, k : SetProperty(o, <<d.names[k]>>, Smi(m.props[k])), EmptyObject,
                       [k \in DOMAIN d.names |-> k])
      changed == IF array = {} THEN heap ELSE [heap EXCEPT ![slots[Last(targets)[2]][2]] = m.array]
      kept == [s \in 0..15 |-> IF s \notin array /\ (slots[s][1] = "number" \/ s \in Written(d))
                               THEN Smi(m.regs[s]) ELSE slots[s]]
  IN IF object = <<>> THEN [slots |-> kept, heap |-> changed]
     ELSE [slots |-> [kept EXCEPT ![Slot(object[1])] = Reference("object", Len(heap) + 1)],
           heap |-> Append(changed, made)]

(* slots: the first sixteen of the frame; i and limit are integers.        *)
RunLoop(d, header, slots, heap) ==
  LET targets == Targets(d, slots)
      m == [acc |-> slots[Slot(header.index)][2],
            regs |-> [s \in 0..15 |-> IF slots[s][1] = "number" THEN slots[s][2] ELSE 0],
            props |-> [k \in 1..8 |-> 0],
            array |-> IF targets = <<>> THEN ArrayOf(<<>>) ELSE heap[slots[Last(targets)[2]][2]]]
  IN WriteBack(d, Iterate(d, header, slots[Slot(header.limit)][2], m), slots, heap)

-----------------------------------------------------------------------------
(* quick_smi_base_case and recursive_smi_spec: if (n <= k) return n, and   *)
(* behind it return f(n - d1) + f(n - d2).                                 *)

Argument == <<"Ldar", Parameter(1)>>
BaseCase(code) ==
  IF /\ Len(code) >= 7 /\ code[1][1] = "LdaSmi" /\ code[2] = <<"Star", 0>> /\ code[3] = Argument
     /\ code[4] \in {<<"<", 0>>, <<"<=", 0>>} /\ code[5] = <<"JumpIfFalse", 3>>
     /\ code[6] = Argument /\ code[7] = <<"Return">>
  THEN <<IF code[4][1] = "<=" THEN code[1][2] ELSE code[1][2] - 1>> ELSE <<>>

IsSmiCall(code, p) ==   \* of whatever function is in the register
  /\ code[p] = Argument /\ code[p + 1][1] = "Smi" /\ code[p + 1][2] = "-"
  /\ code[p + 2][1] = "Star" /\ code[p + 2][2] \in 0..5
  /\ code[p + 3][1] = "CallUndefinedReceiver" /\ code[p + 3][4] = 1
RecursiveSpec(code) ==
  IF /\ BaseCase(code) # <<>> /\ Len(code) >= 20 /\ code[8][1] = "LdaGlobal"
     /\ code[9][1] = "Star" /\ code[9][2] \in 0..5 /\ IsSmiCall(code, 10)
     /\ code[14][1] = "Star" /\ code[14][2] \in 0..5 /\ IsSmiCall(code, 15)
     /\ code[19][1] = "+" /\ code[20] = <<"Return">>
  THEN <<code[11][3], code[16][3]>> ELSE <<>>

RecursiveSmi(code, n) ==
  LET spec == RecursiveSpec(code)
      value[k \in Int] == IF k <= BaseCase(code)[1] THEN k ELSE value[k - spec[1]] + value[k - spec[2]]
  IN value[n]

(* Whether a call with one integer is answered without a frame. *)
Quick(code, n) == BaseCase(code) # <<>> /\ (RecursiveSpec(code) = <<>> => n <= BaseCase(code)[1])
QuickResult(code, n) == IF RecursiveSpec(code) # <<>> THEN RecursiveSmi(code, n) ELSE n
===============================================================================
