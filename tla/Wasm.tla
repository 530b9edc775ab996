--------------------------------- MODULE Wasm ---------------------------------
(***************************************************************************)
(* WebAssembly.instantiate and the calls of an export: the bytes are       *)
(* parsed (WasmBinary), the instance is built (wasm/instance.rs) and the   *)
(* stack machine of wasm/interpreter.rs runs the body of the function.     *)
(*                                                                         *)
(* The machine reads bytes: it keeps a stack of control frames at run time *)
(* and finds the end of a block by scanning over opcodes and immediates.   *)
(***************************************************************************)
EXTENDS WasmData

CONSTANTS
  MaxCallDepth,   \* MAX_CALL_DEPTH
  Invocations     \* how often the export is called

ASSUME WasmAssumption == MaxCallDepth \in Nat /\ Invocations \in Nat

VARIABLES
  bytes,      \* the binary
  module,     \* what was parsed, or <<>>
  instance,   \* memories, table, globals, objects
  calls,      \* the activations, the running one last
  results     \* how the invocations ended, in order

vars == <<bytes, module, instance, calls, results>>

NoInstance == [memories |-> <<>>, table |-> <<>>, globals |-> <<>>, objects |-> <<>>]

-----------------------------------------------------------------------------
(* Instantiation *)

(* A data segment that does not fit is left out; a negative offset is a    *)
(* large one, and an end that wraps aborts the process.                    *)
Offset(segment) == Usize(EvalConst(segment[2]))
SegmentTrap(memories, segment) == RangeTrap([memories |-> memories], segment[1], Offset(segment), Len(segment[3]))
WithSegment(memories, segment) ==
  LET offset == Offset(segment)
      data == segment[3]
  IN  IF SegmentTrap(memories, segment) # "" THEN memories
      ELSE [memories EXCEPT ![segment[1] + 1].data =
              [i \in DOMAIN @ |-> IF i \in (offset + 1)..(offset + Len(data)) THEN data[i - offset] ELSE @[i]]]

(* An element segment writes the entries that lie inside the table; 0 is an empty entry. *)
WithElements(table, segment) ==
  IF segment = <<>> THEN table ELSE
  LET offset == Unsigned(EvalConst(segment[1]))
      functions == segment[2]
  IN  [i \in DOMAIN table |-> IF i \in (offset + 1)..(offset + Len(functions)) THEN functions[i - offset] + 1 ELSE table[i]]

Zeros(n) == [i \in 1..n |-> 0]
Memories(m) == [k \in DOMAIN m[5] |-> [data |-> Zeros(m[5][k][1] * PageSize), max |-> Tail(m[5][k])]]
Aborts(m) == \E k \in DOMAIN m[11] : SegmentTrap(Memories(m), m[11][k]) = "panic"
Instance(m) ==
  [memories |-> FoldLeft(WithSegment, Memories(m), m[11]),
   table |-> IF m[4] = <<>> THEN <<>> ELSE FoldLeft(WithElements, Zeros(m[4][1][2][1]), m[9]),
   globals |-> [k \in DOMAIN m[6] |-> [value |-> I32(EvalConst(m[6][k][3])), mutable |-> m[6][k][2] = 1]],
   objects |-> <<>>]

Built(m) ==
  IF IsBad(m) THEN results' = <<<<"error", m.v>>>> /\ UNCHANGED <<module, instance>>
  ELSE IF Aborts(m.v) THEN results' = <<<<"panic">>>> /\ UNCHANGED <<module, instance>>
  ELSE module' = m.v /\ instance' = Instance(m.v) /\ UNCHANGED results
Instantiate ==
  /\ module = <<>> /\ results = <<>>
  /\ Built(Parse(bytes))
  /\ UNCHANGED <<bytes, calls>>

-----------------------------------------------------------------------------
(* Activations *)

Frame(kind, arity, height, start, clauses) ==
  [kind |-> kind, arity |-> arity, height |-> height, start |-> start, clauses |-> clauses]

Params(f) == Len(FuncType(module, f)[2])
Arity(f) == Len(FuncType(module, f)[3])
Code(f) == module[10][f - Len(ImportedFunctions(module)) + 1]
Declared(f) == FlattenSeq([k \in DOMAIN Code(f).locals |->
                 [i \in 1..Code(f).locals[k][1] |-> Default(Code(f).locals[k][2])]])

Activation(f, args) ==
  [func |-> f, ip |-> 1, stack |-> <<>>, locals |-> args \o Declared(f), expects |-> 0,
   ctrl |-> <<Frame("Function", Arity(f), 0, 1, <<>>)>>]

Running == calls # <<>>
top == Last(calls)
body == Code(top.func).body
Op == IF Running /\ top.ip <= Len(body) THEN body[top.ip] ELSE -1

Top(stack, n) == IF n >= Len(stack) THEN stack ELSE Last_(stack, n)
Truncated(s, n) == IF n >= Len(s) THEN s ELSE SubSeq(s, 1, n)

(* The numbers behind an opcode: [v, at]; a missing byte interrupts. *)
Immediates(n, at) == ReadNumbers(n, body, at, <<>>)
Imm(n) == Immediates(n, top.ip + 1)

Become(activation) == calls' = [calls EXCEPT ![Len(calls)] = activation] /\ UNCHANGED <<bytes, module, instance, results>>

(* An error leaves all activations; what they did to the instance stays. *)
End(result) == calls' = <<>> /\ results' = Append(results, result) /\ UNCHANGED <<bytes, module>>
Trap(kind) == End(<<"trap", kind>>) /\ UNCHANGED instance

(* Pops a condition. *)
Condition == Last(top.stack).n
HasCondition == top.stack # <<>> /\ Last(top.stack).type = "i32"
Mismatch == Trap("TypeMismatch")

-----------------------------------------------------------------------------
(* Scanning *)

(* Behind a number at i. *)
SkipNumber(i) == IF \E j \in i..Len(body) : body[j] < 128
                 THEN 1 + CHOOSE j \in i..Len(body) : body[j] < 128 /\ \A k \in i..(j - 1) : body[k] >= 128
                 ELSE Len(body) + 1
RECURSIVE SkipNumbers(_, _)
SkipNumbers(i, n) == IF n = 0 THEN i ELSE SkipNumbers(SkipNumber(i), n - 1)

(* The scan of do_branch knows the immediates of some opcodes only. *)
RECURSIVE ScanBranch(_, _)
ScanBranch(i, depth) ==
  IF i > Len(body) THEN Len(body) + 1
  ELSE LET b == body[i] IN
    CASE b \in {2, 3, 4, 31} -> ScanBranch(i + 2, depth + 1)
      [] b = 11 -> IF depth = 1 THEN i + 1 ELSE ScanBranch(i + 1, depth - 1)
      [] b \in {12, 13, 16, 18, 65, 66} \cup (32..36) -> ScanBranch(SkipNumber(i + 1), depth)
      [] b = 67 -> ScanBranch(i + 5, depth)
      [] b = 68 -> ScanBranch(i + 9, depth)
      [] OTHER -> ScanBranch(i + 1, depth)

(* Behind the immediates that the scans of `if` and `else` take opcode i to have. *)
SkipImmediates(i) ==
  LET b == body[i] IN
  CASE b \in {2, 3, 4, 208} -> i + 2
    [] b \in {12, 13, 16, 18, 65, 66, 63, 64, 210} \cup (32..36) -> SkipNumber(i + 1)
    [] b = 14 -> SkipNumbers(SkipNumber(i + 1), ReadUnsigned(body, i + 1).v + 1)
    [] b \in {17, 19} \cup (40..62) -> SkipNumbers(i + 1, 2)
    [] b = 67 -> i + 5
    [] b = 68 -> i + 9
    [] b = 252 -> SkipNumbers(i + 1, 3)
    [] OTHER -> i + 1
Deeper(i, depth) == IF body[i] \in {2, 3, 4} THEN depth + 1 ELSE IF body[i] = 11 THEN depth - 1 ELSE depth

(* Where a false `if` goes on, behind its else or its end, which takes the frame with it. *)
RECURSIVE ScanIf(_, _)
ScanIf(i, depth) ==
  CASE i > Len(body) -> [ip |-> i, popped |-> FALSE]
    [] body[i] = 5 /\ depth = 1 -> [ip |-> i + 1, popped |-> FALSE]
    [] body[i] = 11 /\ depth = 1 -> [ip |-> i + 1, popped |-> TRUE]
    [] OTHER -> ScanIf(SkipImmediates(i), Deeper(i, depth))

(* The end an executed `else` jumps behind. *)
RECURSIVE ScanElse(_, _)
ScanElse(i, depth) ==
  CASE i > Len(body) -> i
    [] body[i] = 11 /\ depth = 1 -> i + 1
    [] OTHER -> ScanElse(SkipImmediates(i), Deeper(i, depth))

-----------------------------------------------------------------------------
(* Control *)

(* do_branch: the results go down to the height of the target; a branch to *)
(* the function frame, or one whose end is not found, ends the function.   *)
MutBranched(a, label) ==
  LET target == Len(a.ctrl) - label
      frame == a.ctrl[target]
      loop == frame.kind = "Loop"
  IN  [a EXCEPT !.stack = Truncated(@, frame.height) \o Top(a.stack, frame.arity),
                !.ctrl = Truncated(@, target - 1),
                !.ip = CASE loop -> frame.start
                         [] ~loop /\ target = 1 -> Len(body) + 1
                         [] OTHER -> ScanBranch(a.ip, label + 1)]
Branched(a, label) ==
  LET target == Len(a.ctrl) - label
      frame == a.ctrl[target]
      loop == frame.kind = "Loop"
      results_ == IF loop THEN <<>> ELSE Top(a.stack, frame.arity)
  IN  [a EXCEPT !.stack = Truncated(@, frame.height) \o results_,
                !.ctrl = Truncated(@, IF loop THEN target ELSE target - 1),
                !.ip = CASE loop -> frame.start
                         [] ~loop /\ target = 1 -> Len(body) + 1
                         [] OTHER -> ScanBranch(a.ip, label + 1)]
Branch(a, label) == IF label >= Len(a.ctrl) THEN Mismatch ELSE Become(Branched(a, label))

Unreachable == Op = 0 /\ Trap("Unreachable")

BlockArity == IF body[top.ip + 1] = 64 THEN 0 ELSE 1
Opened(kind, at, stack, clauses) ==
  [top EXCEPT !.ip = at, !.stack = stack, !.ctrl = Append(@, Frame(kind, BlockArity, Len(stack), at, clauses))]

Block == Op = 2 /\ Become(Opened("Block", top.ip + 2, top.stack, <<>>))
Loop == Op = 3 /\ Become(Opened("Loop", top.ip + 2, top.stack, <<>>))

If ==
  /\ Op = 4
  /\ IF ~HasCondition THEN Mismatch ELSE
     LET inside == Opened("If", top.ip + 2, Front(top.stack), <<>>)
         skip == ScanIf(top.ip + 2, 1)
     IN  Become(CASE Condition # 0 -> inside
                  [] Condition = 0 /\ skip.popped -> [inside EXCEPT !.ip = skip.ip, !.ctrl = Front(@)]
                  [] OTHER -> [inside EXCEPT !.ip = skip.ip])

Else == Op = 5 /\ Become([top EXCEPT !.ip = ScanElse(top.ip + 1, 1), !.ctrl = Front(@)])

(* The clauses of a try_table, <<kind, tag, label>>; catch and catch_ref have a tag. *)
RECURSIVE ReadClauses(_, _, _)
ReadClauses(n, at, done) ==
  IF n = 0 THEN Ok(done, at)
  ELSE After(ReadByte(body, at), LAMBDA kind :
         IF kind.v > 3 THEN Bad("UnknownOpcode")
         ELSE After(Immediates(IF kind.v < 2 THEN 2 ELSE 1, kind.at), LAMBDA r :
                ReadClauses(n - 1, r.at,
                            Append(done, IF kind.v < 2 THEN <<kind.v>> \o r.v ELSE <<kind.v, 0>> \o r.v))))
TryTable ==
  /\ Op = 31
  /\ LET count == ReadUnsigned(body, top.ip + 2)
         clauses == ReadClauses(count.v, count.at, <<>>)
     IN  IF IsBad(count) \/ IsBad(clauses) THEN Trap("UnknownOpcode")
         ELSE Become(Opened("TryTable", clauses.at, top.stack, clauses.v))

(* The innermost frame with a clause for the tag catches; its label counts *)
(* from the throw.  A frame of a caller is never asked.                    *)
Catches(clause, tag) == clause[1] >= 2 \/ clause[2] = tag
Handlers(a, tag) ==
  UNION {{<<f, c>> : c \in {c \in DOMAIN a.ctrl[f].clauses : Catches(a.ctrl[f].clauses[c], tag)}} : f \in DOMAIN a.ctrl}
Handler(a, tag) ==
  LET frame == Max({h[1] : h \in Handlers(a, tag)})
  IN  a.ctrl[frame].clauses[Min({h[2] : h \in {h \in Handlers(a, tag) : h[1] = frame}})]
Throw ==
  /\ Op = 8
  /\ LET tag == Imm(1).v[1]
         n == Len(module[1][module[13][tag + 1][2] + 1][2])
         values == Last_(top.stack, n)
         left == [top EXCEPT !.ip = Imm(1).at, !.stack = Cut(@, n)]
         clause == Handler(left, tag)
     IN  CASE tag >= Len(module[13]) \/ Len(top.stack) < n -> Mismatch
           [] OTHER ->
                IF Handlers(left, tag) = {} THEN Trap(<<"Exception", tag, values>>)
                ELSE Branch([left EXCEPT !.stack = IF clause[1] < 2 THEN @ \o values ELSE @], clause[3])
ThrowRef == Op = 10 /\ Mismatch

(* The end of a block keeps what the block returns; the last end ends the function. *)
BlockEnd ==
  /\ Op = 11 /\ Len(top.ctrl) > 1
  /\ LET frame == Last(top.ctrl)
     IN  Become([top EXCEPT !.ip = @ + 1, !.ctrl = Front(@),
                            !.stack = Truncated(@, frame.height) \o Top(@, frame.arity)])

Br == Op = 12 /\ Branch([top EXCEPT !.ip = Imm(1).at], Imm(1).v[1])

BrIf ==
  /\ Op = 13
  /\ IF ~HasCondition THEN Mismatch ELSE
     LET next == [top EXCEPT !.ip = Imm(1).at, !.stack = Front(@)]
     IN  IF Condition # 0 THEN Branch(next, Imm(1).v[1]) ELSE Become(next)

BrTable ==
  /\ Op = 14
  /\ IF ~HasCondition THEN Mismatch ELSE
     LET targets == Immediates(Imm(1).v[1] + 1, Imm(1).at)
         label == IF Condition < Len(targets.v) - 1 THEN targets.v[Condition + 1] ELSE Last(targets.v)
     IN  Branch([top EXCEPT !.ip = targets.at, !.stack = Front(@)], label)

(* The function ends: at return, at its end, and behind its last byte. A   *)
(* direct call fills up the results of the function it names, whichever    *)
(* took its place.                                                         *)
Finish ==
  /\ \/ Op = 15
     \/ Op = 11 /\ Len(top.ctrl) = 1
     \/ Running /\ Op = -1
  /\ LET values == Top(top.stack, Arity(top.func))
         caller == calls[Len(calls) - 1]
         missing == [i \in 1..(caller.expects - Len(values)) |-> I32(0)]
     IN  IF Len(calls) = 1 THEN End(<<"values">> \o values) /\ UNCHANGED instance
         ELSE /\ calls' = Append(SubSeq(calls, 1, Len(calls) - 2),
                                 [caller EXCEPT !.stack = @ \o missing \o values])
              /\ UNCHANGED <<bytes, module, instance, results>>

(* The functions of a table entry; the type of the call must agree in its numbers. *)
TableTrap(type, entry) ==
  CASE entry >= Len(instance.table) -> "UndefinedElement"
    [] instance.table[entry + 1] = 0 -> "UninitializedElement"
    [] type >= Len(module[1]) -> "TypeMismatch"
    [] LET actual == FuncType(module, instance.table[entry + 1] - 1)
       IN  Len(actual[2]) # Len(module[1][type + 1][2]) \/ Len(actual[3]) # Len(module[1][type + 1][3]) -> "TypeMismatch"
    [] OTHER -> ""

(* A call keeps the caller behind its immediates; the depth is bounded.  The *)
(* binary has no imports here: js_api.rs gives none to the instance.         *)
Called(f, caller) ==
  LET n == Params(f)
      args == Top(caller.stack, n)
  IN  IF Len(calls) > MaxCallDepth THEN Trap("CallStackExhausted")
      ELSE /\ calls' = Append([calls EXCEPT ![Len(calls)] = [caller EXCEPT !.stack = Truncated(@, Len(@) - Len(args))]],
                              Activation(f, args))
           /\ UNCHANGED <<bytes, module, instance, results>>
(* A tail call takes the place of the running activation. *)
Replaced(f, caller) ==
  Become(Activation(f, Top(caller.stack, Params(f))))

Known(f) == f < Len(module[3]) /\ f < Len(module[10])

Call ==
  /\ Op = 16
  /\ LET f == Imm(1).v[1] IN
       IF ~Known(f) THEN Trap("FunctionNotFound") ELSE Called(f, [top EXCEPT !.ip = Imm(1).at, !.expects = Arity(f)])
ReturnCall ==
  /\ Op = 18
  /\ LET f == Imm(1).v[1] IN IF ~Known(f) THEN Trap("FunctionNotFound") ELSE Replaced(f, top)

CallIndirect ==
  /\ Op \in {17, 19}
  /\ IF ~HasCondition THEN Mismatch ELSE
     LET next == [top EXCEPT !.ip = Imm(2).at, !.stack = Front(@), !.expects = 0]
         trap == TableTrap(Imm(2).v[1], Condition)
         f == instance.table[Condition + 1] - 1
     IN  IF trap # "" THEN Trap(trap) ELSE IF Op = 17 THEN Called(f, next) ELSE Replaced(f, next)

-----------------------------------------------------------------------------
(* All other instructions *)

Signed_ == {"const", "ref.test", "ref.test_null", "ref.cast", "ref.cast_null"}

Plain ==
  \E p \in PlainOps :
    /\ Op = p[2][1]
    /\ Len(p[2]) = 2 => top.ip < Len(body) /\ body[top.ip + 1] = p[2][2]
    /\ LET at == top.ip + Len(p[2])
           number == ReadSigned(body, at)
           imm == IF p[1] \in Signed_ THEN (IF IsBad(number) THEN number ELSE Ok(<<number.v>>, number.at))
                  ELSE Immediates(p[3], at)
           s == Apply(module[1], p[1], imm.v,
                      [stack |-> top.stack, locals |-> top.locals, memories |-> instance.memories,
                       globals |-> instance.globals, objects |-> instance.objects, trap |-> ""])
       IN  IF IsBad(imm) THEN Trap("Interrupted")
           ELSE IF s.trap # "" THEN Trap(s.trap)
           ELSE /\ calls' = [calls EXCEPT ![Len(calls)] = [@ EXCEPT !.ip = imm.at, !.stack = s.stack, !.locals = s.locals]]
                /\ instance' = [instance EXCEPT !.memories = s.memories, !.globals = s.globals, !.objects = s.objects]
                /\ UNCHANGED <<bytes, module, results>>

Opcodes == {p[2][1] : p \in PlainOps} \cup (0..5) \cup {8, 10} \cup (11..19) \cup {31}
Unknown == Op \in (0..255) \ Opcodes /\ Trap("UnknownOpcode")

-----------------------------------------------------------------------------

(* The closure of an exported function: the first export. *)
CanInvoke ==
  /\ module # <<>> /\ ~Running /\ Len(results) < Invocations /\ module[7] # <<>>
  /\ ~\E i \in DOMAIN results : results[i] = <<"trap", "panic">>
Invoke ==
  /\ CanInvoke
  /\ LET f == module[7][1][2][2] IN
       IF ~Known(f) THEN Trap("FunctionNotFound")
       ELSE calls' = <<Activation(f, <<>>)>> /\ UNCHANGED <<bytes, module, instance, results>>

Done == ~Running /\ (module = <<>> => results # <<>>) /\ ~CanInvoke /\ UNCHANGED vars

InitWith(binary) ==
  /\ bytes = binary
  /\ module = <<>> /\ instance = NoInstance /\ calls = <<>> /\ results = <<>>

Next == Instantiate \/ Invoke \/ Unreachable \/ Block \/ Loop \/ If \/ Else \/ TryTable \/ Throw \/ ThrowRef
        \/ BlockEnd \/ Br \/ BrIf \/ BrTable \/ Finish \/ Call \/ ReturnCall \/ CallIndirect \/ Plain \/ Unknown \/ Done
===============================================================================
