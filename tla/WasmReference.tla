---------------------------- MODULE WasmReference ----------------------------
(***************************************************************************)
(* What a module means: programs as trees, their binary form by the rules  *)
(* of the format, and their meaning by recursion over the tree.  Control   *)
(* is by signals here: no label, height or end is ever searched.           *)
(***************************************************************************)
EXTENDS Wasm

CONSTANTS
  Programs,     \* the programs run
  CutPrograms   \* the programs of which every beginning is run, too
VARIABLE program

(* A function: the numbers of its parameters, results and other locals, and its code. *)
Function(params, results_, locals, code) ==
  [params |-> params, results |-> results_, locals |-> locals, code |-> code]

(* A program: functions, table (offset and entries), data (offset and cells), initial global. *)
Program(functions, table, data, global) ==
  [functions |-> functions, table |-> table, data |-> data, global |-> global]

-----------------------------------------------------------------------------
(* The binary form *)

BlockType(arity) == IF arity = 0 THEN 64 ELSE 127
Clause(c) == IF c[1] = "catch" THEN <<0, c[2], c[3]>> ELSE <<2, c[2]>>
Numbers(op, imm) == IF op \in Signed_ THEN EncodeSigned(imm[1]) ELSE FlattenSeq([j \in DOMAIN imm |-> EncodeUnsigned(imm[j])])

RECURSIVE Encode(_)
Encode(code) ==
  IF code = <<>> THEN <<>> ELSE
  LET i == Head(code)
      first ==
        CASE i[1] = "unreachable" -> <<0>>
          [] i[1] = "block"    -> <<2, BlockType(i[2])>> \o Encode(i[3]) \o <<11>>
          [] i[1] = "loop"     -> <<3, 64>> \o Encode(i[2]) \o <<11>>
          [] i[1] = "if"       -> <<4, BlockType(i[2])>> \o Encode(i[3])
                                    \o (IF i[4] = <<>> THEN <<>> ELSE <<5>> \o Encode(i[4])) \o <<11>>
          [] i[1] = "throw"    -> <<8, i[2]>>
          [] i[1] = "throw_ref" -> <<10>>
          [] i[1] = "unknown"  -> <<255>>
          [] i[1] = "br"       -> <<12, i[2]>>
          [] i[1] = "br_if"    -> <<13, i[2]>>
          [] i[1] = "br_table" -> <<14, Len(i[2]) - 1>> \o i[2]
          [] i[1] = "return"   -> <<15>>
          [] i[1] = "call"     -> <<16, i[2]>>
          [] i[1] = "call_indirect" -> <<17, i[2], 0>>
          [] i[1] = "return_call"   -> <<18, i[2]>>
          [] i[1] = "return_call_indirect" -> <<19, i[2], 0>>
          [] i[1] = "try_table" -> <<31, BlockType(i[2]), Len(i[3])>>
                                    \o FlattenSeq([j \in DOMAIN i[3] |-> Clause(i[3][j])]) \o Encode(i[4]) \o <<11>>
          [] OTHER -> PlainOf(i[1])[2] \o Numbers(i[1], Tail(i))
  IN  first \o Encode(Tail(code))

(* Type 0 is a struct of two, type 1 the type of the tag, and function f has type f + 2. *)
Sized(content) == EncodeUnsigned(Len(content)) \o content
Section(id, content) == <<id>> \o Sized(content)
Vector(items) == EncodeUnsigned(Len(items)) \o FlattenSeq(items)
I32s(n) == Vector([i \in 1..n |-> <<127>>])
ConstExpr(n) == <<65>> \o EncodeSigned(n) \o <<11>>
Parts(p) ==
  <<Header,
    Section(1, Vector(<<<<95>> \o Vector(<<<<127, 1>>, <<127, 1>>>>), <<96>> \o I32s(1) \o I32s(0)>>
                       \o [f \in DOMAIN p.functions |-> <<96>> \o I32s(p.functions[f].params) \o I32s(p.functions[f].results)])),
    Section(3, Vector([f \in DOMAIN p.functions |-> <<f + 1>>])),
    Section(4, Vector(<<<<112, 0, 3>>>>)),
    Section(5, Vector(<<<<1, 1, 2>>>>)),
    Section(13, Vector(<<<<0, 1>>>>)),
    Section(6, Vector(<<<<127, 1>> \o ConstExpr(p.global)>>)),
    Section(7, Vector(<<<<1, 102, 0, 0>>>>)),
    Section(9, Vector(<<<<0>> \o ConstExpr(p.table[1]) \o Vector([i \in DOMAIN p.table[2] |-> <<p.table[2][i]>>])>>)),
    Section(10, Vector([f \in DOMAIN p.functions |->
                    Sized((IF p.functions[f].locals = 0 THEN <<0>> ELSE <<1, p.functions[f].locals, 127>>)
                          \o Encode(p.functions[f].code) \o <<11>>)])),
    Section(11, Vector(<<<<0>> \o ConstExpr(p.data[1]) \o Sized(p.data[2])>>))>>
Binary(p) == FlattenSeq(Parts(p))
Boundaries(p) == {Len(FlattenSeq(SubSeq(Parts(p), 1, k))) : k \in 1..Len(Parts(p))}

-----------------------------------------------------------------------------
(* The meaning.  Exec gives [signal, s, fuel]; fuel bounds loops and calls. *)

R(signal, s, fuel) == [signal |-> signal, s |-> s, fuel |-> fuel]
Next_ == <<"next">>
Fuel == 12

(* What a block of an arity leaves to the code behind it, given what its code did. *)
Leave(r, below, arity) ==
  LET leave == [r EXCEPT !.s.stack = below \o Top(@, arity), !.signal = Next_]
  IN  CASE r.signal = Next_ \/ r.signal = <<"br", 0>> -> leave
        [] r.signal[1] = "br" /\ r.signal[2] > 0 -> [r EXCEPT !.signal[2] = @ - 1]
        [] OTHER -> r

StructType == <<<<"struct", <<<<127, 1>>, <<127, 1>>>>>>>>
Plainly(s, t, fuel) == IF t.trap # "" THEN R(<<"trap", t.trap>>, s, fuel) ELSE R(Next_, t, fuel)

(* What an instruction i that is not a block does. *)
Simple(p, i, s, fuel) ==
  LET popped == [s EXCEPT !.stack = Cut(@, 1)] IN
  CASE i[1] = "unreachable" -> R(<<"trap", "Unreachable">>, s, fuel)
    [] i[1] = "throw_ref"   -> R(<<"trap", "TypeMismatch">>, s, fuel)
    [] i[1] = "unknown"     -> R(<<"trap", "UnknownOpcode">>, s, fuel)
    [] i[1] = "br"          -> R(<<"br", i[2]>>, s, fuel)
    [] i[1] = "br_if"       -> R(IF Num(s, 1) # 0 THEN <<"br", i[2]>> ELSE Next_, popped, fuel)
    [] i[1] = "br_table"    ->
         R(<<"br", IF Num(s, 1) < Len(i[2]) - 1 THEN i[2][Num(s, 1) + 1] ELSE Last(i[2])>>, popped, fuel)
    [] i[1] = "return"      -> R(<<"return">>, s, fuel)
    [] i[1] = "return_call" -> R(<<"tail", i[2]>>, s, fuel)
    [] i[1] = "throw"       -> R(<<"throw", i[2], Last_(s.stack, 1)>>, popped, fuel)
    [] OTHER -> Plainly(s, Apply(StructType, i[1], Tail(i), s), fuel)

RECURSIVE Exec(_, _, _, _), Then(_, _, _), Step(_, _, _, _), Again(_, _, _, _), Returned(_, _, _, _, _), Enter(_, _, _, _, _)

Exec(p, code, s, fuel) ==
  IF code = <<>> THEN R(Next_, s, fuel) ELSE Then(p, Step(p, Head(code), s, fuel), Tail(code))
Then(p, r, rest) == IF r.signal = Next_ THEN Exec(p, rest, r.s, r.fuel) ELSE r

(* A loop goes around as long as its code branches to it. *)
Again(p, code, r, below) ==
  CASE r.signal # <<"br", 0>> -> Leave(r, below, 0)
    [] r.fuel = 0 -> R(<<"fuel">>, r.s, 0)
    [] OTHER -> Again(p, code, Exec(p, code, [r.s EXCEPT !.stack = <<>>], r.fuel - 1), below)

(* A call of function f with the top operands: its activation has a stack and locals of its own. *)
Enter(p, f, s, depth, fuel) ==
  LET function == p.functions[f + 1]
      args == Last_(s.stack, function.params)
  IN  IF fuel = 0 THEN R(<<"fuel">>, s, 0)
      ELSE IF depth > MaxCallDepth THEN R(<<"trap", "CallStackExhausted">>, s, fuel)
      ELSE Returned(p, [s EXCEPT !.stack = Cut(@, function.params)], function.results, depth,
                    Exec(p, function.code,
                         [s EXCEPT !.stack = <<>>, !.depth = depth,
                                   !.locals = args \o [i \in 1..function.locals |-> I32(0)]], fuel - 1))
(* What the caller s goes on with; a tail call goes on as the function it calls. *)
Returned(p, s, n, depth, r) ==
  CASE r.signal \in {Next_, <<"return">>} \/ r.signal[1] = "br" ->
         R(Next_, [r.s EXCEPT !.stack = s.stack \o Top(@, n), !.locals = s.locals, !.depth = s.depth], r.fuel)
    [] r.signal[1] = "tail" ->
         Returned(p, s, p.functions[r.signal[2] + 1].results, depth, Enter(p, r.signal[2], r.s, depth, r.fuel))
    [] r.signal[1] = "throw" -> [r EXCEPT !.signal = <<"trap", <<"Exception", @[2], @[3]>>>>]
    [] OTHER -> r

(* The function behind the operand, when the table has one of the type. *)
Indirect(p, type, s) ==
  LET k == Num(s, 1) - p.table[1]
      f == p.table[2][k + 1]
  IN  CASE Num(s, 1) >= 3 -> <<"trap", "UndefinedElement">>
        [] k + 1 \notin DOMAIN p.table[2] -> <<"trap", "UninitializedElement">>
        [] p.functions[f + 1].params # p.functions[type - 1].params
             \/ p.functions[f + 1].results # p.functions[type - 1].results -> <<"trap", "TypeMismatch">>
        [] OTHER -> <<"call", f>>

(* The first clause for the tag thrown catches: its label is that of a branch beside the block. *)
Caught(clauses, r, below, arity) ==
  LET fit == {j \in DOMAIN clauses : clauses[j][1] = "catch_all" \/ clauses[j][2] = r.signal[2]}
      clause == clauses[Min(fit)]
  IN  IF r.signal[1] # "throw" \/ fit = {} THEN Leave(r, below, arity)
      ELSE R(<<"br", Last(clause)>>,
             [r.s EXCEPT !.stack = below \o (IF clause[1] = "catch" THEN r.signal[3] ELSE <<>>)], r.fuel)

Closed(p, i, r, below) ==
  CASE i[1] = "loop" -> Again(p, i[2], r, below)
    [] i[1] = "try_table" -> Caught(i[3], r, below, i[2])
    [] OTHER -> Leave(r, below, i[2])
Step(p, i, s, fuel) ==
  LET popped == [s EXCEPT !.stack = Cut(@, 1)]
      target == IF i[1] \in {"call_indirect", "return_call_indirect"} THEN Indirect(p, i[2], s) ELSE <<"call", i[2]>>
      code == CASE i[1] \in {"block", "if"} -> i[3] [] i[1] = "loop" -> i[2] [] i[1] = "try_table" -> i[4]
      arm == IF i[1] = "if" /\ Num(s, 1) = 0 THEN i[4] ELSE code
      outside == IF i[1] = "if" THEN popped ELSE s
  IN
  CASE i[1] \in {"block", "loop", "if", "try_table"} ->
         Closed(p, i, Exec(p, arm, [outside EXCEPT !.stack = <<>>], fuel), outside.stack)
    [] i[1] \in {"call", "call_indirect", "return_call_indirect"} ->
         CASE target[1] = "trap" -> R(target, s, fuel)
           [] i[1] = "return_call_indirect" -> R(<<"tail", target[2]>>, popped, fuel)
           [] OTHER -> Enter(p, target[2], IF i[1] = "call" THEN s ELSE popped, s.depth + 1, fuel)
    [] OTHER -> Simple(p, i, s, fuel)

Initial(p) ==
  [stack |-> <<>>, locals |-> <<>>, depth |-> 0, trap |-> "", objects |-> <<>>,
   globals |-> <<[value |-> I32(p.global), mutable |-> TRUE]>>,
   memories |-> <<[data |-> [i \in 1..PageSize |-> IF i - p.data[1] \in DOMAIN p.data[2] THEN p.data[2][i - p.data[1]] ELSE 0],
                   max |-> <<2>>]>>]

(* How n invocations of the first function end, one after the other on the same instance. *)
RECURSIVE Meaning(_, _, _, _), Ended(_, _, _)
Meaning(p, s, n, fuel) == IF n = 0 THEN <<>> ELSE Ended(p, Enter(p, 0, s, 0, fuel), n)
Ended(p, r, n) ==
  LET result == IF r.signal = Next_ THEN <<"values">> \o r.s.stack ELSE r.signal
      after == [r.s EXCEPT !.stack = <<>>, !.locals = <<>>, !.depth = 0, !.trap = ""]
  IN  <<result>> \o (IF result = <<"trap", "panic">> THEN <<>> ELSE Meaning(p, after, n - 1, Fuel))
-----------------------------------------------------------------------------

Init ==
  \/ \E p \in Programs : program = p /\ InitWith(Binary(p))
  \/ \E p \in CutPrograms : \E n \in 0..(Len(Binary(p)) - 1) : program = p /\ InitWith(SubSeq(Binary(p), 1, n))

Spec == Init /\ [][Next /\ UNCHANGED program]_<<vars, program>>

Whole == Len(bytes) = Len(Binary(program))
Final == ~Running /\ ~CanInvoke /\ (module # <<>> \/ results # <<>>)

(* The kinds of the blocks open before each byte of the code, by the structure of the code. *)
RECURSIVE Nest(_, _)
Nest(code, open) ==
  IF code = <<>> THEN <<>> ELSE
  LET i == Head(code)
      All(n, kinds) == [k \in 1..n |-> kinds]
      Bracket(opening, kind, inside, else) ==
        All(opening, open) \o Nest(inside, Append(open, kind))
        \o (IF else = <<>> THEN <<>> ELSE All(1, Append(open, kind)) \o Nest(else, Append(open, kind)))
        \o All(1, Append(open, kind))
      first ==
        CASE i[1] = "block" -> Bracket(2, "Block", i[3], <<>>)
          [] i[1] = "loop"  -> Bracket(2, "Loop", i[2], <<>>)
          [] i[1] = "if"    -> Bracket(2, "If", i[3], i[4])
          [] i[1] = "try_table" -> Bracket(Len(Encode(<<i>>)) - Len(Encode(i[4])) - 1, "TryTable", i[4], <<>>)
          [] OTHER -> All(Len(Encode(<<i>>)), open)
  IN  first \o Nest(Tail(code), open)

(* The control stack of the running function holds the blocks that are open *)
(* at its position in the text, whatever branches, skipped arms and throws  *)
(* led there, and no frame lies above the operands of the one inside it.    *)
NestingMatches ==
  Running /\ Whole /\ top.ip < Len(body) =>
    LET kinds == [k \in DOMAIN top.ctrl |-> top.ctrl[k].kind]
        heights == [k \in DOMAIN top.ctrl |-> top.ctrl[k].height]
    IN  /\ kinds = Nest(program.functions[top.func + 1].code, <<"Function">>)[top.ip]
        /\ \A k \in 2..Len(heights) : heights[k - 1] <= heights[k]
        /\ Last(heights) <= Len(top.stack)

Agree(meaning) == <<"fuel">> \in {meaning[i] : i \in DOMAIN meaning} \/ results = meaning

(* Every invocation of a parsed binary ends with the values or the trap     *)
(* that the meaning of its text gives it, on the memory, globals and        *)
(* objects the invocations before left.                                     *)
HaltsAsReference ==
  Final /\ Whole => Agree(Meaning(program, Initial(program), Invocations, Fuel))

(* From its first instruction to its result the machine follows the text.  *)
FollowsText == NestingMatches /\ HaltsAsReference

(* A binary that ends within a section is refused, and one cut between two  *)
(* sections is read as the shorter module it is.                            *)
CutsRefused ==
  Final /\ ~Whole => ((results # <<>> /\ results[1][1] = "error") <=> Len(bytes) \notin Boundaries(program))
===============================================================================
