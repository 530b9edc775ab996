--------------------------- MODULE BytecodeGenerator ---------------------------
(***************************************************************************)
(* The compiler from trees to bytecode                                     *)
(* (src/src/interpreter/bytecode_generator.rs and the BytecodeArrayBuilder *)
(* of bytecode_array.rs): registers of locals and temporaries, jumps       *)
(* patched when their target is known, handlers, and the rewritings it     *)
(* makes for speed.                                                        *)
(*                                                                         *)
(* The generator is a record g, and every method of it an operator from a  *)
(* record to the next.                                                     *)
(***************************************************************************)
EXTENDS Ast, Bytecode, FiniteSets, TLC

-----------------------------------------------------------------------------
(* BytecodeArrayBuilder and the registers *)

NewGenerator(params, topLevel) ==
  [code |-> <<>>, handlers |-> <<>>,
   locals |-> <<>>,                              \* name -> register
   parameters |-> [x \in ToSet(params) \cup {"this"} |->
                     IF x = "this" THEN Receiver ELSE Parameter(CHOOSE i \in DOMAIN params : params[i] = x)],
   next |-> 0,                                   \* next_local_index
   loops |-> <<>>, label |-> NoName,             \* loop_stack, pending_label
   hoisted |-> <<>>,                             \* pairs of a literal and its register
   topLevel |-> topLevel, name |-> NoName, mayReturnString |-> TRUE,
   numeric |-> {}, callee |-> <<>>,              \* cached_call_callee: at most one pair
   withs |-> <<>>, finals |-> <<>>]

Here(g) == Len(g.code)   \* current_offset
Emit(g, instruction) == [g EXCEPT !.code = Append(@, instruction)]
EmitAll(g, instructions) == [g EXCEPT !.code = @ \o instructions]

(* A jump whose target is not known yet is patched at its own offset.      *)
Forward(op) == <<op, 0>>
Patch(g, jump, target) == [g EXCEPT !.code[jump + 1][2] = target - jump]
PatchHere(g, jump) == Patch(g, jump, Here(g))
PatchAll(g, jumps) == FoldLeft(PatchHere, g, jumps)
Back(g, op, target) == Emit(g, <<op, target - Here(g)>>)

RegisterHandler(g, start, end, handler) ==
  [g EXCEPT !.handlers = Append(@, [start |-> start, end |-> end, handler |-> handler])]

Load(g, r) == Emit(g, <<"Ldar", r>>)
Store(g, r) == Emit(g, <<"Star", r>>)

Allocate(g, n) == [g EXCEPT !.next = @ + n]
(* allocate_temp and a store of the accumulator in it: register g.next     *)
Keep(g) == Allocate(Store(g, g.next), 1)
Free(g, r) == IF r + 1 = g.next THEN [g EXCEPT !.next = r] ELSE g
FreeAll(g, registers) == FoldLeft(Free, g, registers)

(* An operand is its generator, its register and the temporaries to free   *)
(* after its use; Held keeps the accumulator in a temporary.               *)
Held(g) == [g |-> Keep(g), r |-> g.next, temps |-> <<g.next>>]
With2(o, k) == [g |-> k.g, o |-> o.r, k |-> k.r, temps |-> k.temps \o o.temps]
Using(operand, instruction) == FreeAll(Emit(operand.g, instruction), operand.temps)

Declare(g, x) ==
  IF x \in DOMAIN g.locals THEN g ELSE [Allocate(g, 1) EXCEPT !.locals = (x :> g.next) @@ @]
Known(g, x) == x \in DOMAIN g.locals \/ x \in DOMAIN g.parameters
Lookup(g, x) == IF x \in DOMAIN g.locals THEN g.locals[x] ELSE g.parameters[x]
IsKnownVariable(g, e) == e.kind = "Variable" /\ Known(g, e.name)

ForgetCallee(g) == IF g.callee = <<>> THEN g ELSE [Free(g, g.callee[2]) EXCEPT !.callee = <<>>]

-----------------------------------------------------------------------------
(* What the generator finds out about a tree before it compiles it *)

RECURSIVE MightProduceString(_, _)
MightProduceString(g, e) ==
  CASE e.kind = "Literal" -> e.value[1] = "string"
    [] e.kind = "Binary" ->
         e.op = "+" /\ (MightProduceString(g, e.left) \/ MightProduceString(g, e.right))
    [] e.kind = "Unary" -> e.op \notin {"!", "-", "+"}
    [] e.kind = "Call" ->
         IF e.callee.kind = "Variable" /\ g.name = e.callee.name /\ g.name # NoName
         THEN g.mayReturnString ELSE TRUE
    [] e.kind = "Variable" -> e.name \notin g.numeric
    [] OTHER -> TRUE

Parts(e) ==   \* the operands the searches below descend into
  CASE e.kind = "Binary" -> <<e.left, e.right>>
    [] e.kind = "Unary" -> <<e.expr>>
    [] e.kind = "Call" -> <<e.callee>> \o e.arguments
    [] OTHER -> <<>>

IsText(e) == e.kind = "Literal" /\ e.value[1] = "string"

RECURSIVE HasString(_)
HasString(e) ==
  \/ IsText(e)
  \/ e.kind = "Unary" /\ e.op = "typeof"
  \/ \E i \in DOMAIN Parts(e) : HasString(Parts(e)[i])

RECURSIVE ReturnsString(_)
ReturnsString(s) ==
  CASE s.kind = "Return" -> s.expr # None /\ HasString(s.expr)
    [] s.kind = "Block" -> \E i \in DOMAIN s.statements : ReturnsString(s.statements[i])
    [] s.kind = "If" -> ReturnsString(s.then) \/ ReturnsString(s.else)
    [] s.kind \in {"While", "DoWhile"} -> ReturnsString(s.body)
    [] OTHER -> FALSE

RECURSIVE Mutates(_, _)
Mutates(e, x) ==
  CASE e.kind = "Assignment" -> e.target = x
    [] e.kind = "PropertyAccess" -> Mutates(e.object, x)
    [] e.kind = "KeyedAccess" -> Mutates(e.object, x) \/ Mutates(e.key, x)
    [] OTHER -> \E i \in DOMAIN Parts(e) : Mutates(Parts(e)[i], x)

RECURSIVE UsedAsString(_, _)
UsedAsString(e, x) ==
  LET x0 == Variable(x)
  IN CASE e.kind = "PropertyAccess" ->
            \/ e.object = x0 /\ e.property \in {"substring", "slice", "charAt"}
            \/ UsedAsString(e.object, x)
       [] e.kind = "KeyedAccess" -> UsedAsString(e.object, x) \/ UsedAsString(e.key, x)
       [] OTHER ->
            \/ /\ e.kind = "Binary" /\ e.op = "+"
               /\ (e.left = x0 /\ IsText(e.right)) \/ (e.right = x0 /\ IsText(e.left))
            \/ \E i \in DOMAIN Parts(e) : UsedAsString(Parts(e)[i], x)

RECURSIVE StatementUsesAsString(_, _)
StatementUsesAsString(s, x) ==
  CASE s.kind = "Return" -> s.expr # None /\ UsedAsString(s.expr, x)
    [] s.kind = "Expression" -> UsedAsString(s.expr, x)
    [] s.kind = "VariableDeclaration" -> s.init # None /\ UsedAsString(s.init, x)
    [] s.kind = "Block" -> \E i \in DOMAIN s.statements : StatementUsesAsString(s.statements[i], x)
    [] s.kind = "If" ->
         UsedAsString(s.condition, x) \/ StatementUsesAsString(s.then, x) \/ StatementUsesAsString(s.else, x)
    [] s.kind \in {"While", "DoWhile"} -> UsedAsString(s.condition, x) \/ StatementUsesAsString(s.body, x)
    [] OTHER -> FALSE

IsSmall(e) == e.kind = "Literal" /\ e.value[1] = "number" /\ e.value[2] \in -128..127
Big(e) == IF e.kind = "Literal" /\ e.value[1] = "number" /\ ~IsSmall(e) THEN <<e.value>> ELSE <<>>

(* The literals a loop loads once, in the order they are met.              *)
RECURSIVE LiteralsOf(_)
LiteralsOf(e) ==
  CASE e.kind = "Binary" -> Big(e.right) \o LiteralsOf(e.left) \o LiteralsOf(e.right)
    [] e.kind = "Assignment" -> LiteralsOf(e.value)
    [] e.kind = "PropertyAssignment" -> LiteralsOf(e.object) \o LiteralsOf(e.value)
    [] e.kind = "KeyedAssignment" -> LiteralsOf(e.object) \o LiteralsOf(e.key) \o LiteralsOf(e.value)
    [] e.kind = "ArrayLiteral" -> FlattenSeq([i \in DOMAIN e.elements |-> LiteralsOf(e.elements[i])])
    [] e.kind = "ObjectLiteral" ->
         FlattenSeq([i \in DOMAIN e.properties |-> LiteralsOf(e.properties[i][2])])
    [] OTHER -> FlattenSeq([i \in DOMAIN Parts(e) |-> LiteralsOf(Parts(e)[i])])

RECURSIVE LoopLiterals(_)
LoopLiterals(s) ==
  CASE s.kind = "Block" -> FlattenSeq([i \in DOMAIN s.statements |-> LoopLiterals(s.statements[i])])
    [] s.kind \in {"Expression", "Return"} -> LiteralsOf(s.expr)
    [] s.kind = "VariableDeclaration" -> LiteralsOf(s.init)
    [] s.kind = "If" -> LiteralsOf(s.condition) \o LoopLiterals(s.then) \o LoopLiterals(s.else)
    [] OTHER -> <<>>

-----------------------------------------------------------------------------
(* Names, with statements, operators *)

StoreGlobal(g, x) == Emit(g, <<"StaGlobal", x>>)
LoadVariable(g, x) == IF Known(g, x) THEN Load(g, Lookup(g, x)) ELSE Emit(g, <<"LdaGlobal", x>>)
StoreVariable(g, x) ==
  IF ~Known(g, x) THEN StoreGlobal(g, x)
  ELSE IF g.topLevel THEN StoreGlobal(Store(g, Lookup(g, x)), x) ELSE Store(g, Lookup(g, x))

(* Each object of a with statement is asked for the name, the innermost    *)
(* first: what Found emits is for the one that has it, and Otherwise for   *)
(* none.                                                                   *)
ThroughWiths(g, x, Found(_, _), Otherwise(_)) ==
  LET Ask(state, object) ==
        LET asked == EmitAll(state.g, <<<<"LdaConstant", Str(x)>>, <<"in", object>>, Forward("JumpIfFalse")>>)
            found == Found(asked, object)
        IN [g |-> PatchHere(Emit(found, Forward("Jump")), Here(asked) - 1),
            done |-> Append(state.done, Here(found))]
      asked == FoldLeft(Ask, [g |-> g, done |-> <<>>], Reverse(g.withs))
  IN PatchAll(Otherwise(asked.g), asked.done)

ReadVariable(g, x) ==
  IF g.withs = <<>> THEN LoadVariable(g, x)
  ELSE ThroughWiths(g, x, LAMBDA h, object : Emit(h, <<"LdaNamedProperty", object, x>>),
                          LAMBDA h : LoadVariable(h, x))

WriteVariable(g, x) ==
  IF g.withs = <<>> THEN StoreVariable(g, x)
  ELSE LET value == g.next
       IN Free(ThroughWiths(Keep(g), x,
                 LAMBDA h, object : Emit(Load(h, value), <<"StaNamedProperty", object, x>>),
                 LAMBDA h : StoreVariable(Load(h, value), x)), value)

(* emit_binary_op: a conjunction gets here when its right side is a        *)
(* literal taken out of a loop's condition.                                *)
EmitBinary(g, op, r) ==
  CASE op = "!=" -> EmitAll(g, <<<<"==", r>>, <<"!">>>>)
    [] op = "!==" -> EmitAll(g, <<<<"===", r>>, <<"!">>>>)
    [] op = "&&" -> Emit(g, <<"==", r>>)
    [] op \in {"||", "??"} -> Emit(g, <<"+", r>>)
    [] OTHER -> Emit(g, <<op, r>>)

WithImmediate == {"+", "-", "*", "/", "%", "|", "^", "&", "<<", ">>"}

Commutes(g, e) ==
  \/ e.op \in {"*", "&", "|", "^"}
  \/ e.op = "+" /\ ~MightProduceString(g, e.left) /\ ~MightProduceString(g, e.right)

IsHoisted(g, e) == e.kind = "Literal" /\ \E i \in DOMAIN g.hoisted : g.hoisted[i][1] = e.value
HoistedRegister(g, e) == g.hoisted[SelectLastInSeq(g.hoisted, LAMBDA h : h[1] = e.value)][2]

-----------------------------------------------------------------------------
(* compile_expression *)

RECURSIVE Compile(_, _)   \* compile_statement and compile_expression
CompileExpression(g, e) == Compile(g, e)
CompileStatement(g, s) ==   \* which forgets the callee first
  IF g.callee = <<>> THEN Compile(g, s) ELSE Compile(ForgetCallee(g), s)
CompileStatements(g, statements) == FoldLeft(CompileStatement, g, statements)

CompileLiteral(g, v) ==
  CASE v = Smi(0) -> Emit(g, <<"LdaZero">>)
    [] v[1] = "number" /\ v[2] # 0 /\ v[2] \in -128..127 -> Emit(g, <<"LdaSmi", v[2]>>)
    [] v = Undefined -> Emit(g, <<"LdaUndefined">>)
    [] v = Null -> Emit(g, <<"LdaNull">>)
    [] v = Bool(TRUE) -> Emit(g, <<"LdaTrue">>)
    [] v = Bool(FALSE) -> Emit(g, <<"LdaFalse">>)
    [] OTHER -> Emit(g, <<"LdaConstant", v>>)

KeepExpression(g, e) == Keep(CompileExpression(g, e))
HeldExpression(g, e) == Held(CompileExpression(g, e))

(* The accumulator decides whether the right side is evaluated. *)
Skipping(g, jump, right) == PatchHere(CompileExpression(Emit(g, Forward(jump)), right), Here(g))
Defaulting(g, right) ==
  LET jumps == EmitAll(g, <<Forward("JumpIfUndefinedOrNull"), Forward("Jump")>>)
  IN PatchHere(CompileExpression(PatchHere(jumps, Here(g)), right), Here(g) + 1)

(* Mutant: a right side that changes the left variable is swapped, too. *)
MutSwaps(g, e) == IsKnownVariable(g, e.left) /\ Commutes(g, e)
Swaps(g, e) == IsKnownVariable(g, e.left) /\ Commutes(g, e) /\ ~Mutates(e.right, e.left.name)

(* The sides in temporaries: a literal right side first, the left side in  *)
(* the accumulator unless the operator commutes.                           *)
LiteralRight(right, e) ==
  FreeAll(EmitBinary(CompileExpression(right.g, e.left), e.op, right.r), right.temps)
CommutedSides(left, e) ==
  FreeAll(EmitBinary(ForgetCallee(CompileExpression(left.g, e.right)), e.op, left.r), left.temps)
BothSides(b, op) == FreeAll(EmitBinary(Load(b.g, b.o), op, b.k), b.temps)
OrderedSides(left, e) == BothSides(With2(left, Held(ForgetCallee(CompileExpression(left.g, e.right)))), e.op)

CompileSides(g, e) ==
  IF e.right.kind = "Literal" THEN LiteralRight(HeldExpression(g, e.right), e)
  ELSE IF Commutes(g, e) THEN CommutedSides(HeldExpression(g, e.left), e)
  ELSE OrderedSides(HeldExpression(g, e.left), e)

CompileBinary(g, e) ==
  IF e.op = "&&" THEN Skipping(CompileExpression(g, e.left), "JumpIfFalse", e.right)
  ELSE IF e.op = "||" THEN Skipping(CompileExpression(g, e.left), "JumpIfTrue", e.right)
  ELSE IF e.op = "??" THEN Defaulting(CompileExpression(g, e.left), e.right)
  ELSE IF IsSmall(e.right) /\ e.op \in WithImmediate
  THEN Emit(CompileExpression(g, e.left), <<"Smi", e.op, e.right.value[2]>>)
  ELSE IF IsHoisted(g, e.right)
  THEN EmitBinary(CompileExpression(g, e.left), e.op, HoistedRegister(g, e.right))
  ELSE IF IsKnownVariable(g, e.right)
  THEN EmitBinary(CompileExpression(g, e.left), e.op, Lookup(g, e.right.name))
  ELSE IF Swaps(g, e)
  THEN EmitBinary(CompileExpression(g, e.right), e.op, Lookup(g, e.left.name))
  ELSE CompileSides(g, e)

(* An operand is its own register when it is a known variable. *)
Operand(g, e) ==
  IF IsKnownVariable(g, e) THEN [g |-> g, r |-> Lookup(g, e.name), temps |-> <<>>]
  ELSE HeldExpression(g, e)
AndKey(o, key) == With2(o, Operand(o.g, key))
AndHeldKey(o, key) == With2(o, HeldExpression(o.g, key))

DeleteNamed(o, x) == Using(o, <<"DeletePropertySloppy", o.r, x>>)
DeleteKeyed(b) == Using(b, <<"DeleteKeyedPropertySloppy", b.o, b.k>>)
CompileDelete(g, e) ==
  CASE e.kind = "PropertyAccess" -> DeleteNamed(HeldExpression(g, e.object), e.property)
    [] e.kind = "KeyedAccess" -> DeleteKeyed(AndHeldKey(HeldExpression(g, e.object), e.key))
    [] e.kind = "Variable" -> CompileLiteral(g, Bool(~Known(g, e.name)))
    [] OTHER -> CompileLiteral(CompileExpression(g, e), Bool(TRUE))

CompileUnary(g, op, e) ==
  IF op = "delete" THEN CompileDelete(g, e)
  ELSE EmitAll(CompileExpression(g, e),
               CASE op = "+" -> <<>>
                 [] op = "-" -> <<<<"Negate">>>>
                 [] op = "void" -> <<<<"LdaUndefined">>>>
                 [] op = "typeof" -> <<<<"TypeOf">>>>
                 [] OTHER -> <<<<op>>>>)

LoadNamed(o, x) == Using(o, <<"LdaNamedProperty", o.r, x>>)
LoadKeyed(b) == Using(b, <<"LdaKeyedProperty", b.o, b.k>>)
StoreNamed(o, x, value) ==
  FreeAll(Emit(CompileExpression(o.g, value), <<"StaNamedProperty", o.r, x>>), o.temps)
StoreKeyed(b, value) ==
  FreeAll(Emit(CompileExpression(b.g, value), <<"StaKeyedProperty", b.o, b.k>>), b.temps)

(* Arguments get registers of their own before the first is compiled; the  *)
(* list of none starts at register 0.  Emits the call and gives them back. *)
CompileArguments(g, arguments, Op(_, _)) ==
  LET first == g.next
      n == Len(arguments)
      Pass(h, i) == Store(CompileExpression(h, arguments[i]), first + i - 1)
      passed == FoldLeft(Pass, Allocate(g, n), [i \in 1..n |-> i])
  IN IF n = 0 THEN Emit(g, Op(0, 0)) ELSE [Emit(passed, Op(first, n)) EXCEPT !.next = @ - n]

(* The callee of a call: a method keeps its receiver in a temporary, and a *)
(* global function stays in its register for the next call of it.          *)
Method(receiver, property) ==
  With2(receiver, Held(Emit(receiver.g, <<"LdaNamedProperty", receiver.r, property>>)))
CachedCallee(c, x) == [g |-> [c.g EXCEPT !.callee = <<x, c.r>>], r |-> c.r, receiver |-> <<>>, temps |-> <<>>]
Plain(c) == [g |-> c.g, r |-> c.r, receiver |-> <<>>, temps |-> c.temps]
OnReceiver(m) == [g |-> m.g, r |-> m.k, receiver |-> <<m.o>>, temps |-> <<m.o, m.k>>]
Callee(g, e) ==
  IF e.kind = "PropertyAccess" THEN OnReceiver(Method(HeldExpression(g, e.object), e.property))
  ELSE IF e.kind = "Variable" /\ ~Known(g, e.name)
  THEN IF g.callee # <<>> /\ g.callee[1] = e.name
       THEN Plain([g |-> g, r |-> g.callee[2], temps |-> <<>>])
       ELSE CachedCallee(Held(ReadVariable(ForgetCallee(g), e.name)), e.name)
  ELSE Plain(Operand(g, e))

HasSpread(list) == \E i \in DOMAIN list : list[i].kind = "Spread"

SpreadOver(c, list) ==   \* a receiver of undefined, or the method's
  IF c.receiver # <<>> THEN [g |-> list.g, r |-> c.receiver[1], temps |-> c.receiver \o list.temps]
  ELSE LET u == Held(CompileLiteral(list.g, Undefined))
       IN [g |-> u.g, r |-> u.r, temps |-> u.temps \o list.temps]
CallWithSpread(c, list) ==
  LET receiver == SpreadOver(c, list)
  IN Using(receiver, <<"CallWithSpread", c.r, receiver.r, list.r>>)

CallTo(c, arguments) ==
  FreeAll(IF HasSpread(arguments)
          THEN CallWithSpread(c, HeldExpression(c.g, ArrayLiteral(arguments)))
          ELSE CompileArguments(c.g, arguments,
                 LAMBDA first, n : IF c.receiver = <<>> THEN <<"CallUndefinedReceiver", c.r, first, n>>
                                   ELSE <<"CallProperty", c.r, c.receiver[1], first, n>>),
          c.temps)

CallPlain(c, arguments) ==
  FreeAll(CompileArguments(c.g, arguments, LAMBDA first, n : <<"CallUndefinedReceiver", c.r, first, n>>), c.temps)
ConstructFrom(c, arguments) ==
  FreeAll(CompileArguments(c.g, arguments, LAMBDA first, n : <<"Construct", c.r, first, n>>), c.temps)

AddKeyed(key, object, value) ==
  FreeAll(Emit(CompileExpression(key.g, value), <<"StaKeyedProperty", object, key.r>>), key.temps)
CompileObject(g, properties) ==
  LET object == g.next
      Add(h, p) ==
        CASE p[2].kind = "Spread" -> Emit(CompileExpression(h, p[2].expr), <<"SpreadInObjectLiteral", object>>)
          [] p[2].kind = "ComputedProperty" -> AddKeyed(HeldExpression(h, p[2].key), object, p[2].value)
          [] OTHER -> Emit(CompileExpression(h, p[2]), <<"StaNamedProperty", object, p[1]>>)
  IN Free(Load(FoldLeft(Add, Keep(Emit(g, <<"CreateEmptyObjectLiteral">>)), properties), object), object)

CompileArray(g, elements) ==
  LET array == g.next
      AddAt(h, i) ==
        LET index == Keep(CompileLiteral(h, Smi(i - 1)))
        IN Free(Emit(CompileExpression(index, elements[i]), <<"StaInArrayLiteral", array, h.next>>), h.next)
      AddAll(h, i) ==
        LET e == elements[i]
        IN Emit(CompileExpression(h, IF e.kind = "Spread" THEN e.expr ELSE ArrayLiteral(<<e>>)),
                <<"SpreadInArrayLiteral", array>>)
      Add(h, i) == IF HasSpread(elements) THEN AddAll(h, i) ELSE AddAt(h, i)
  IN Free(Load(FoldLeft(Add, Keep(Emit(g, <<"CreateEmptyArrayLiteral">>)),
                        [i \in DOMAIN elements |-> i]), array), array)

(* a?.b, a?.[b] and a?.(): the rest is skipped for undefined and null.     *)
Optional(g, Rest(_)) ==
  PatchHere(Rest(Held(Emit(g, Forward("JumpIfUndefinedOrNull")))), Here(g))

DelegateYield(g) ==
  LET iterator == g.next
      step == g.next + 1
      start == Allocate(Store(Emit(Keep(g), <<"GetIterator">>), iterator), 1)
      asked == Store(Emit(start, <<"IteratorNext", iterator>>), step)
      tested == EmitAll(asked, <<<<"IteratorDone", step>>, Forward("JumpIfTrue"),
                                 <<"IteratorValue", step>>, <<"SuspendGenerator">>>>)
      over == PatchHere(Back(tested, "JumpLoop", Here(start)), Here(asked) + 1)
  IN Free(Free(Emit(over, <<"IteratorValue", step>>), step), iterator)
CompileYield(g, e) ==
  IF e.delegate THEN DelegateYield(CompileExpression(g, e.value))
  ELSE Emit(IF e.value = None THEN CompileLiteral(g, Undefined) ELSE CompileExpression(g, e.value),
            <<"SuspendGenerator">>)

ElseOf(then, test, else) ==
  PatchHere(CompileExpression(PatchHere(Emit(then, Forward("Jump")), test), else), Here(then))
Choosing(g, e) == ElseOf(CompileExpression(Emit(g, Forward("JumpIfFalse")), e.then), Here(g), e.else)

(* compile_assignment_to_target: the accumulator to a destructured target. *)
NamedTarget(b, x) == Using([b EXCEPT !.g = Load(@, b.o)], <<"StaNamedProperty", b.k, x>>)
KeyedTarget(b, key) ==
  FreeAll(Emit(Load(key.g, b.o), <<"StaKeyedProperty", b.k, key.r>>), key.temps \o b.temps)
AndKeyedTarget(b, key) == KeyedTarget(b, HeldExpression(b.g, key))
AssignTarget(g, target) ==
  CASE target.kind = "Variable" -> StoreVariable(g, target.name)
    [] target.kind = "PropertyAccess" -> NamedTarget(AndHeldKey(Held(g), target.object), target.property)
    [] target.kind = "KeyedAccess" -> AndKeyedTarget(AndHeldKey(Held(g), target.object), target.key)
    [] OTHER -> g

Destructure(value, e) ==
  LET source == value.r
      Element(h, i) ==
        LET key == Held(CompileLiteral(h, Smi(i - 1)))
        IN AssignTarget(Using(key, <<"LdaKeyedProperty", source, key.r>>), e.targets[i])
      Property(h, i) == AssignTarget(Emit(h, <<"LdaNamedProperty", source, e.pairs[i][1]>>), e.pairs[i][2])
      indices == IF e.kind = "ArrayDestructureAssignment" THEN DOMAIN e.targets ELSE DOMAIN e.pairs
      Assign(h, i) == IF e.kind = "ArrayDestructureAssignment" THEN Element(h, i) ELSE Property(h, i)
  IN FreeAll(Load(FoldLeft(Assign, value.g, [i \in indices |-> i]), source), value.temps)

CompileAssignment(g, e) ==
  LET typed == [g EXCEPT !.numeric = IF MightProduceString(g, e.value) THEN @ \ {e.target}
                                                                       ELSE @ \cup {e.target}]
  IN WriteVariable(CompileExpression(typed, e.value), e.target)

ExpressionCode(g, e) ==
  CASE e.kind = "Literal" -> CompileLiteral(g, e.value)
    [] e.kind = "Variable" -> ReadVariable(g, e.name)
    [] e.kind = "This" -> Load(g, Receiver)
    [] e.kind = "Assignment" -> CompileAssignment(g, e)
    [] e.kind = "Binary" -> CompileBinary(g, e)
    [] e.kind = "Unary" -> CompileUnary(g, e.op, e.expr)
    [] e.kind = "Call" -> CallTo(Callee(g, e.callee), e.arguments)
    [] e.kind = "New" -> ConstructFrom(HeldExpression(g, e.callee), e.arguments)
    [] e.kind = "PropertyAccess" -> LoadNamed(Operand(g, e.object), e.property)
    [] e.kind = "PropertyAssignment" -> StoreNamed(Operand(g, e.object), e.property, e.value)
    [] e.kind = "KeyedAccess" -> LoadKeyed(AndKey(Operand(g, e.object), e.key))
    [] e.kind = "KeyedAssignment" -> StoreKeyed(AndKey(Operand(g, e.object), e.key), e.value)
    [] e.kind = "ObjectLiteral" -> CompileObject(g, e.properties)
    [] e.kind = "ArrayLiteral" -> CompileArray(g, e.elements)
    [] e.kind = "Spread" -> CompileExpression(g, e.expr)
    [] e.kind = "OptionalPropertyAccess" ->
         Optional(CompileExpression(g, e.object), LAMBDA o : LoadNamed(o, e.property))
    [] e.kind = "OptionalKeyedAccess" ->
         Optional(CompileExpression(g, e.object), LAMBDA o : LoadKeyed(AndHeldKey(o, e.key)))
    [] e.kind = "OptionalCall" ->
         Optional(CompileExpression(g, e.callee), LAMBDA o : CallPlain(o, e.arguments))
    [] e.kind = "Yield" -> CompileYield(g, e)
    [] e.kind = "Conditional" -> Choosing(CompileExpression(g, e.condition), e)
    [] e.kind \in {"ArrayDestructureAssignment", "ObjectDestructureAssignment"} -> 
         Destructure(HeldExpression(g, e.value), e)

-----------------------------------------------------------------------------
(* compile_statement *)

EnterScope(g, label, isLoop) ==
  [g EXCEPT !.loops = Append(@, [label |-> label, isLoop |-> isLoop, breaks |-> <<>>, continues |-> <<>>])]
(* A loop or switch takes the label that is waiting for it.                *)
TakeLabel(g, isLoop) == [EnterScope(g, g.label, isLoop) EXCEPT !.label = NoName]
EnterLoop(g) == TakeLabel(g, TRUE)
LeaveScope(g) == [g EXCEPT !.loops = Front(@)]

(* The body of a loop, then what runs before the loop goes back to start;  *)
(* breaks leave at the end, and continues go to the update.                *)
EndLoop(g, start, Update(_), exits) ==
  LET scope == Last(g.loops)
  IN PatchAll(Back(Update(PatchAll(LeaveScope(g), scope.continues)), "JumpLoop", start), exits \o scope.breaks)
CompileLoop(g, start, body, Update(_), exits) ==
  EndLoop(CompileStatement(EnterLoop(g), body), start, Update, exits)

(* While and For: the literal a condition compares with, and the large     *)
(* literals of the body, are loaded before the loop starts.                *)
HoistLiteral(g, v) ==
  IF \E i \in DOMAIN g.hoisted : g.hoisted[i][1] = v THEN g
  ELSE [Keep(CompileLiteral(g, v)) EXCEPT !.hoisted = Append(@, <<v, g.next>>)]
DropHoisted(g, entry) == [Free(g, entry[2]) EXCEPT !.hoisted = SelectSeq(@, LAMBDA h : h[2] # entry[2])]

LoopWhile(g, start, condition, update, body) ==   \* the condition is in the accumulator
  CompileLoop(IF condition = None THEN g ELSE Emit(g, Forward("JumpIfFalse")), start, body,
              LAMBDA h : IF update = None THEN h ELSE CompileExpression(h, update),
              IF condition = None THEN <<>> ELSE <<Here(g)>>)
TestLimit(g, condition, limit) ==
  IF condition = None THEN g
  ELSE IF limit # <<>> THEN EmitBinary(CompileExpression(g, condition.left), condition.op, limit[1])
  ELSE CompileExpression(g, condition)
HoistedWhile(g, before, limit, condition, update, body) ==
  FreeAll(FoldLeft(DropHoisted, LoopWhile(TestLimit(g, condition, limit), Here(g), condition, update, body),
                   SubSeq(g.hoisted, before + 1, Len(g.hoisted))), limit)

HasLimit(condition) == condition.kind = "Binary" /\ condition.right.kind = "Literal"
CompileWhile(g, condition, update, body) ==
  HoistedWhile(FoldLeft(HoistLiteral, IF HasLimit(condition) THEN KeepExpression(g, condition.right) ELSE g,
                        LoopLiterals(body)),
               Len(g.hoisted), IF HasLimit(condition) THEN <<g.next>> ELSE <<>>, condition, update, body)

EndDoWhile(g, start, condition) ==
  PatchAll(Back(CompileExpression(PatchAll(LeaveScope(g), Last(g.loops).continues), condition),
                "JumpIfTrue", start), Last(g.loops).breaks)
CompileDoWhile(g, body, condition) == EndDoWhile(CompileStatement(EnterLoop(g), body), Here(g), condition)

(* The iterable, or the object of a for-in, is in the accumulator. *)
CompileForOf(g, name, body) ==
  LET iterator == g.next
      step == g.next + 1
      start == Allocate(Store(Emit(Keep(g), <<"GetIterator">>), iterator), 1)
      asked == Store(Emit(start, <<"IteratorNext", iterator>>), step)
      named == Declare(EmitAll(asked, <<<<"IteratorDone", step>>, Forward("JumpIfTrue"),
                                        <<"IteratorValue", step>>>>), name)
  IN FreeAll(CompileLoop(Store(named, named.locals[name]), Here(start), body, LAMBDA h : h, <<Here(asked) + 1>>),
             <<step, iterator>>)

CompileForIn(g, name, body) ==
  LET keys == g.next
      length == g.next + 1
      index == g.next + 2
      listed == Keep(Emit(g, <<"ForInEnumerate">>))
      start == Keep(CompileLiteral(Keep(Emit(listed, <<"LdaNamedProperty", keys, "length">>)), Smi(0)))
      named == Declare(EmitAll(start, <<<<"Ldar", index>>, <<"<", length>>, Forward("JumpIfFalse"),
                                        <<"LdaKeyedProperty", keys, index>>>>), name)
  IN FreeAll(CompileLoop(Store(named, named.locals[name]), Here(start), body,
                         LAMBDA h : Store(Emit(Load(h, index), <<"Inc">>), index), <<Here(start) + 2>>),
             <<index, length, keys>>)

(* All tests in order, a jump to the default or the end, then the bodies.  *)
TestedCase(g, state, i) == [g |-> g, jumps |-> Append(state.jumps, <<i, Here(g) - 1>>)]
SwitchTests(g, cases, d) ==
  LET Test(state, i) ==
        IF cases[i].test = None THEN state
        ELSE TestedCase(EmitAll(CompileExpression(state.g, cases[i].test), <<<<"===", d>>, Forward("JumpIfTrue")>>),
                        state, i)
  IN FoldLeft(Test, [g |-> g, jumps |-> <<>>], [i \in DOMAIN cases |-> i])
SwitchBodies(tests, cases) ==
  LET Body(state, i) ==
        LET mine == SelectSeq(tests.jumps, LAMBDA jump : jump[1] = i)
        IN [g |-> CompileStatements(PatchAll(state.g, [k \in DOMAIN mine |-> mine[k][2]]), cases[i].statements),
            default |-> IF cases[i].test = None THEN <<Here(state.g)>> ELSE state.default,
            fallback |-> state.fallback]
  IN FoldLeft(Body, [g |-> Emit(tests.g, Forward("Jump")), default |-> <<>>, fallback |-> Here(tests.g)],
              [i \in DOMAIN cases |-> i])
EndSwitch(bodies, d) ==
  LET g == bodies.g
      closed == Patch(LeaveScope(g), bodies.fallback, IF bodies.default = <<>> THEN Here(g) ELSE bodies.default[1])
  IN Free(PatchAll(closed, Last(g.loops).breaks), d)
CompileSwitch(o, cases) ==
  EndSwitch(SwitchBodies(SwitchTests(TakeLabel(o.g, FALSE), cases, o.r), cases), o.r)

(* The scope a break or continue means: the innermost with the label, or   *)
(* if there is none the innermost.                                         *)
TargetScope(g, label, IsTarget(_)) ==
  LET named == SelectLastInSeq(g.loops, LAMBDA s : IsTarget(s) /\ s.label = label)
  IN IF label # NoName /\ named # 0 THEN named ELSE SelectLastInSeq(g.loops, IsTarget)

CompileBreak(g, label) ==
  LET scope == TargetScope(g, label, LAMBDA s : TRUE)
      jumped == Emit(g, Forward("Jump"))
  IN IF scope = 0 THEN jumped ELSE [jumped EXCEPT !.loops[scope].breaks = Append(@, Here(g))]
CompileContinue(g, label) ==
  LET scope == TargetScope(g, label, LAMBDA s : s.isLoop)
      jumped == Emit(g, Forward("Jump"))
  IN IF scope = 0 THEN jumped ELSE [jumped EXCEPT !.loops[scope].continues = Append(@, Here(g))]

(* Mutant: the breaks out of a labelled block are not patched. *)
MutEndLabeled(g) == LeaveScope(g)
EndLabeled(g) == PatchAll(LeaveScope(g), Last(g.loops).breaks)
CompileLabeled(g, label, body) ==
  IF body.kind \in Loops \cup {"Switch"} THEN CompileStatement([g EXCEPT !.label = label], body)
  ELSE EndLabeled(CompileStatement(EnterScope(g, label, FALSE), body))

CompileWith(o, body) ==
  FreeAll([CompileStatement([o.g EXCEPT !.withs = Append(@, o.r)], body) EXCEPT !.withs = Front(@)], o.temps)

(* The finally block with the error in the accumulator, and again outside. *)
Rethrowing(g, finally) ==
  Free(Emit(Load(CompileStatement(Keep(g), finally), g.next), <<"ReThrow">>), g.next)

(* One handler covers the try block and the jump behind it; with a finally *)
(* block another covers the catch block.                                   *)
CatchFailed(g, start, s) ==   \* behind a catch block that has a finally block
  PatchHere(Rethrowing(RegisterHandler(Emit(g, Forward("Jump")), start, Here(g) + 1, Here(g) + 1),
                       s.finally), Here(g))
CatchOrFinally(g, s) ==
  LET named == IF s.param = NoName THEN g ELSE Declare(g, s.param)
      bound == IF s.param = NoName THEN named ELSE Store(named, named.locals[s.param])
  IN CASE s.catch # None /\ s.finally = None -> CompileStatement(bound, s.catch)
       [] s.catch # None /\ s.finally # None -> CatchFailed(CompileStatement(bound, s.catch), Here(g), s)
       [] s.catch = None /\ s.finally # None -> Rethrowing(g, s.finally)
       [] OTHER -> g
AfterTry(g, start, s) ==      \* behind the try block: the jump over the handler
  LET jump == Here(g)
      handler == RegisterHandler(Emit(g, Forward("Jump")), start, jump + 1, jump + 1)
  IN PatchHere(CatchOrFinally(IF s.finally = None THEN handler ELSE [handler EXCEPT !.finals = Front(@)], s), jump)
CompileTry(g, s) ==
  LET inside == IF s.finally = None THEN g ELSE [g EXCEPT !.finals = Append(@, s.finally)]
      over == AfterTry(CompileStatement(inside, s.try), Here(g), s)
  IN IF s.finally = None THEN over ELSE CompileStatement(over, s.finally)

(* A return keeps its value and runs the finally blocks around it.         *)
ReturnValue(g, e) == IF e = None THEN CompileLiteral(g, Undefined) ELSE CompileExpression(g, e)
CompileReturn(g, e) ==
  LET kept == g.next
  IN IF g.finals = <<>> THEN Emit(ReturnValue(g, e), <<"Return">>)
     ELSE Emit(Free(Load(CompileStatements(Store(ReturnValue(Allocate(g, 1), e), kept), Reverse(g.finals)), kept),
                    kept), <<"Return">>)

CompileDeclaration(g, name, init) ==
  LET declared == Declare(g, name)
      typed == IF init # None /\ ~MightProduceString(declared, init)
               THEN [declared EXCEPT !.numeric = @ \cup {name}] ELSE declared
  IN EmitAll(Store(IF init = None THEN CompileLiteral(typed, Undefined) ELSE CompileExpression(typed, init),
                   declared.locals[name]),
             IF g.topLevel THEN <<<<"StaGlobal", name>>>> ELSE <<>>)

ElseBranch(g, test, else) ==
  IF else = None THEN PatchHere(g, test)
  ELSE PatchHere(CompileStatement(PatchHere(Emit(g, Forward("Jump")), test), else), Here(g))
CompileIf(g, then, else) == ElseBranch(CompileStatement(Emit(g, Forward("JumpIfFalse")), then), Here(g), else)

StatementCode(g, s) ==
  CASE s.kind = "VariableDeclaration" -> CompileDeclaration(g, s.name, s.init)
    [] s.kind = "Expression" -> CompileExpression(g, s.expr)
    [] s.kind = "Block" -> CompileStatements(g, s.statements)
    [] s.kind = "If" -> CompileIf(CompileExpression(g, s.condition), s.then, s.else)
    [] s.kind = "While" -> CompileWhile(g, s.condition, None, s.body)
    [] s.kind = "For" ->
         CompileWhile(IF s.init = None THEN g ELSE CompileStatement(g, s.init), s.condition, s.update, s.body)
    [] s.kind = "DoWhile" -> CompileDoWhile(g, s.body, s.condition)
    [] s.kind = "ForOf" -> CompileForOf(CompileExpression(g, s.iterable), s.name, s.body)
    [] s.kind = "ForIn" -> CompileForIn(CompileExpression(g, s.object), s.name, s.body)
    [] s.kind = "Switch" -> CompileSwitch(HeldExpression(g, s.discriminant), s.cases)
    [] s.kind = "Break" -> CompileBreak(g, s.label)
    [] s.kind = "Continue" -> CompileContinue(g, s.label)
    [] s.kind = "Labeled" -> CompileLabeled(g, s.label, s.body)
    [] s.kind = "With" -> CompileWith(HeldExpression(g, s.object), s.body)
    [] s.kind = "Throw" -> Emit(CompileExpression(g, s.expr), <<"Throw">>)
    [] s.kind = "TryCatch" -> CompileTry(g, s)
    [] s.kind = "Return" -> CompileReturn(g, s.expr)
    [] OTHER -> g   \* Empty, and FunctionDeclaration, which is hoisted

Compile(g, node) == IF node.kind \in StatementKinds THEN StatementCode(g, node) ELSE ExpressionCode(g, node)

-----------------------------------------------------------------------------
(* compile_program and compile_named_function *)

(* The last byte decides whether a Return is missing, and it may be an     *)
(* operand: LdaSmi 94 passes for one (so would a jump, a constant or an    *)
(* argument count of 94, which no code here is long enough for).  Behind   *)
(* the last byte the interpreter returns the accumulator all the same.     *)
ReturnByte == 94
EndsInReturn(code) == Last(code) \in {<<"Return">>, <<"LdaSmi", ReturnByte>>}
Finish(g0) ==
  LET g == ForgetCallee(g0)
      ended == CASE g.code = <<>> -> <<<<"LdaUndefined">>, <<"Return">>>>
                 [] g.code # <<>> /\ ~EndsInReturn(g.code) -> Append(g.code, <<"Return">>)
                 [] OTHER -> g.code
  IN [code |-> ended, handlers |-> g.handlers]

CompileProgram(statements) == Finish(CompileStatements(NewGenerator(<<>>, TRUE), statements))

(* The rest parameter is listed as "...r", a name no body reads, so it is  *)
(* never a numeric local.                                                  *)
PlainParameters(f) == {f.params[i] : i \in DOMAIN f.params \ {f.rest}}
CompileFunction(f) ==
  LET named == [NewGenerator(f.params, FALSE) EXCEPT
                  !.name = f.name,
                  !.mayReturnString = ReturnsString(Block(f.body)),
                  !.numeric = {x \in PlainParameters(f) : ~StatementUsesAsString(Block(f.body), x)}]
  IN Finish(CompileStatements(named, f.body)) @@ [parameters |-> f.params, rest |-> f.rest]

(* hoist_declarations: the functions of a script, compiled by name, beside *)
(* the script itself.                                                      *)
CompileScript(statements) ==
  LET functions == SelectSeq(statements, LAMBDA s : s.kind = "FunctionDeclaration")
      Named(name) == CHOOSE f \in ToSet(functions) : f.name = name
  IN (NoName :> (CompileProgram(statements) @@ [parameters |-> <<>>, rest |-> 0, generator |-> FALSE]))
     @@ [name \in {functions[i].name : i \in DOMAIN functions} |->
           CompileFunction(Named(name)) @@ [generator |-> Named(name).generator]]
=============================================================================
