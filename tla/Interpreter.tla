------------------------------ MODULE Interpreter ------------------------------
(***************************************************************************)
(* The bytecode machine of src/src/interpreter/interpreter.rs: frames with *)
(* an accumulator and slots, one action for each group of instructions,    *)
(* calls, generators, handlers, and the paths it takes for speed.          *)
(*                                                                         *)
(* A program is a text; it is parsed, and the generator's code of it is    *)
(* run from its first instruction (Context::eval).  The native function    *)
(* print is external: it writes its argument to out.                       *)
(***************************************************************************)
EXTENDS SmiLoop

CONSTANTS
  Programs,   \* the texts of the scripts
  Numbers     \* the values of the runs of digits in them

Grammar == INSTANCE Parser
Generator == INSTANCE BytecodeGenerator

VARIABLES
  program,   \* the program that runs
  code,      \* its functions: their code, handlers and parameters
  frames,    \* the frames, the running one last
  heap,      \* objects, arrays, iterators and generators
  globals,   \* the properties of the global object
  out,       \* what was printed
  halted     \* "no", "done" or "error"

vars == <<program, code, frames, heap, globals, out, halted>>

-----------------------------------------------------------------------------
(* Frames *)

Read(frame, r) == IF Slot(r) \in DOMAIN frame.slots THEN frame.slots[Slot(r)] ELSE Undefined
Write(frame, r, v) == [frame EXCEPT !.slots = (Slot(r) :> v) @@ @]

Top == Last(frames)
CodeOf(frame) == code[frame.function].code
Now(frame) ==   \* behind the last instruction the accumulator is returned
  IF frame.pc < Len(CodeOf(frame)) THEN CodeOf(frame)[frame.pc + 1] ELSE <<"Return">>
Instruction == Now(Top)
Op == Instruction[1]
Reg(i) == Read(Top, Instruction[i])
Acc == Top.acc

Proceed(frame) == frames' = Append(Front(frames), frame)
Accept(v) == Proceed([Top EXCEPT !.acc = v, !.pc = @ + 1])
Skip == Proceed([Top EXCEPT !.pc = @ + 1])

(* find_handler: the shortest range around an instruction, the first of    *)
(* them.                                                                   *)
Covers(h, pc) == h.start <= pc /\ pc < h.end
HandlersNow(frame) ==
  LET around == SelectSeq(code[frame.function].handlers, LAMBDA h : Covers(h, frame.pc))
  IN SelectSeq(around, LAMBDA h : \A i \in DOMAIN around : h.end - h.start <= around[i].end - around[i].start)

(* An error leaves frames until one has a handler for the instruction that *)
(* called.  The step of an iterator hands it on whatever handlers there    *)
(* are, and GetIterator drops it.  A generator it leaves stays Executing.  *)
Stops(i) ==
  \/ HandlersNow(frames[i]) # <<>> /\ (i = Len(frames) \/ Now(frames[i])[1] \notin {"IteratorNext", "GetIterator"})
  \/ i < Len(frames) /\ Now(frames[i])[1] = "GetIterator"
Stopped(frame, v) ==
  IF frame # Top /\ Now(frame)[1] = "GetIterator" THEN [frame EXCEPT !.pc = @ + 1]
  ELSE [frame EXCEPT !.pc = HandlersNow(frame)[1].handler, !.acc = v]
(* v here, its text in the frames that called.                             *)
Fail(v, text) ==
  LET stops == {i \in DOMAIN frames : Stops(i)}
      last == CHOOSE i \in stops : \A j \in stops : j <= i
  IN IF stops = {} THEN frames' = <<>> /\ halted' = "error"
     ELSE /\ frames' = Append(SubSeq(frames, 1, last - 1),
                              Stopped(frames[last], IF last = Len(frames) THEN v ELSE <<"string", text>>))
          /\ UNCHANGED halted
Raise(name) == Fail(Str(name), <<name>>)

-----------------------------------------------------------------------------
(* The accumulator, registers, globals *)

Constant(instruction) ==
  CASE instruction[1] = "LdaZero" -> Smi(0)
    [] instruction[1] = "LdaSmi" -> Smi(instruction[2])
    [] instruction[1] = "LdaConstant" -> instruction[2]
    [] instruction[1] = "LdaUndefined" -> Undefined
    [] instruction[1] = "LdaNull" -> Null
    [] instruction[1] = "LdaTrue" -> Bool(TRUE)
    [] instruction[1] = "LdaFalse" -> Bool(FALSE)
Constants == {"LdaZero", "LdaSmi", "LdaConstant", "LdaUndefined", "LdaNull", "LdaTrue", "LdaFalse"}

Local == UNCHANGED <<program, code, heap, globals, out, halted>>

LoadConstant == Op \in Constants /\ Accept(Constant(Instruction)) /\ Local

(* Ldar r, + s, Star r on two numbers or two strings adds in the slot and  *)
(* leaves the accumulator as it was.                                       *)
AddsInPlace ==
  /\ Op = "Ldar" /\ Top.pc + 2 < Len(CodeOf(Top))
  /\ LET add == CodeOf(Top)[Top.pc + 2]
     IN /\ add[1] = "+" /\ CodeOf(Top)[Top.pc + 3] = <<"Star", Instruction[2]>>
        /\ add[2] # Instruction[2] /\ Slot(add[2]) < 16 /\ Slot(Instruction[2]) < 16
        /\ Reg(2)[1] = Read(Top, add[2])[1] /\ Reg(2)[1] \in {"number", "string"}
AddInPlace ==
  /\ AddsInPlace
  /\ Proceed([Write(Top, Instruction[2],
                     Arithmetic(heap, "+", Reg(2), Read(Top, CodeOf(Top)[Top.pc + 2][2])))
               EXCEPT !.pc = @ + 3])
  /\ Local

LoadRegister == Op = "Ldar" /\ ~AddsInPlace /\ Accept(Reg(2)) /\ Local
StoreRegister == Op = "Star" /\ Proceed([Write(Top, Instruction[2], Acc) EXCEPT !.pc = @ + 1]) /\ Local

LoadGlobal ==
  /\ Op = "LdaGlobal"
  /\ Accept(IF Instruction[2] \in DOMAIN globals THEN globals[Instruction[2]] ELSE Undefined)
  /\ Local
StoreToGlobal ==
  /\ Op = "StaGlobal"
  /\ globals' = (Instruction[2] :> Acc) @@ globals
  /\ Skip
  /\ UNCHANGED <<program, code, heap, out, halted>>

-----------------------------------------------------------------------------
(* Operators *)

Binaries == OnBits \cup {"+", "-", "*", "/", "%"}
Operate == Op \in Binaries /\ Accept(Arithmetic(heap, Op, Acc, Reg(2))) /\ Local
OperateSmi == Op = "Smi" /\ Accept(Arithmetic(heap, Instruction[2], Acc, Smi(Instruction[3]))) /\ Local
Compare == Op \in Tests /\ Accept(Bool(Test(Op, Acc, Reg(2)))) /\ Local

Unaries == {"!", "~", "Negate", "Inc", "TypeOf"}
UnaryResult ==
  CASE Op = "!" -> Bool(~ToBoolean(Acc))
    [] Op = "~" -> Smi(-AsInteger(ToNumber(Acc)) - 1)
    [] Op = "Negate" -> Arithmetic(heap, "*", Smi(-1), ToNumber(Acc))
    [] Op = "Inc" -> Arithmetic(heap, "+", ToNumber(Acc), Smi(1))
    [] Op = "TypeOf" -> TypeOf(Acc)
Apply == Op \in Unaries /\ Accept(UnaryResult) /\ Local

TestIn ==
  /\ Op = "in"
  /\ IF Reg(2)[1] = "object"
     THEN /\ Accept(Bool(HasProperty(heap[Reg(2)[2]], Text(heap, Acc))))
          /\ UNCHANGED halted
     ELSE Raise("TypeError")
  /\ UNCHANGED <<program, code, heap, globals, out>>

-----------------------------------------------------------------------------
(* Objects and arrays *)

Change(h) == heap' = h /\ UNCHANGED <<program, code, globals, out, halted>>
Create(object, type) == Accept(Reference(type, Len(heap) + 1)) /\ Change(Append(heap, object))

CreateObject == Op = "CreateEmptyObjectLiteral" /\ Create(EmptyObject, "object")
CreateArray == Op = "CreateEmptyArrayLiteral" /\ Create(ArrayOf(<<>>), "array")

LoadProperty ==
  \/ Op = "LdaNamedProperty" /\ Accept(GetNamed(heap, Reg(2), <<Instruction[3]>>)) /\ Local
  \/ Op = "LdaKeyedProperty" /\ Accept(GetKeyed(heap, Reg(2), Reg(3))) /\ Local
StoreProperty ==
  \/ Op = "StaNamedProperty" /\ Skip /\ Change(SetNamed(heap, Reg(2), <<Instruction[3]>>, Acc))
  \/ Op \in {"StaKeyedProperty", "StaInArrayLiteral"} /\ Skip
     /\ Change(SetKeyed(heap, Reg(2), Reg(3), Acc))

DeletedKey == IF Op = "DeletePropertySloppy" THEN <<Instruction[3]>> ELSE Text(heap, Reg(3))
DeleteFrom ==
  /\ Op \in {"DeletePropertySloppy", "DeleteKeyedPropertySloppy"}
  /\ Accept(Bool(TRUE))
  /\ Change(CASE Reg(2)[1] = "object" -> [heap EXCEPT ![Reg(2)[2]] = DeleteProperty(@, DeletedKey)]
              [] Reg(2)[1] = "array" /\ Op = "DeleteKeyedPropertySloppy" /\ GetKeyed(heap, Reg(2), Reg(3)) # Undefined ->
                   SetKeyed(heap, Reg(2), Reg(3), Undefined)
              [] OTHER -> heap)

SpreadInto ==
  \/ Op = "SpreadInArrayLiteral" /\ Skip
     /\ Change([heap EXCEPT ![Reg(2)[2]].elements = @ \o Spreads(heap, Acc)])
  \/ Op = "SpreadInObjectLiteral" /\ Skip /\ Change(SpreadObject(heap, Reg(2), Acc))

Enumerate == Op = "ForInEnumerate" /\ Create(ArrayOf(KeysOf(heap, Acc)), "array")

-----------------------------------------------------------------------------
(* Jumps *)

Goto(delta) == Proceed([Top EXCEPT !.pc = @ + delta])
JumpAlways == Op = "Jump" /\ Goto(Instruction[2]) /\ Local
JumpOnBoolean ==
  /\ Op \in {"JumpIfTrue", "JumpIfFalse"}
  /\ Goto(IF ToBoolean(Acc) = (Op = "JumpIfTrue") THEN Instruction[2] ELSE 1)
  /\ Local
JumpIfUndefinedOrNull ==
  /\ Op = "JumpIfUndefinedOrNull"
  /\ IF Acc \in {Undefined, Null}
     THEN Proceed([Top EXCEPT !.acc = Undefined, !.pc = @ + Instruction[2]]) ELSE Skip
  /\ Local

(* JumpLoop reads the header it goes back to.  A loop on integers is run   *)
(* to its end when its body can be decoded, or goes on behind its header.  *)
BackTo == Top.pc + 1 + Instruction[2]
LoopHeader == IF Op = "JumpLoop" THEN Header(CodeOf(Top), BackTo) ELSE <<>>
Loop == LoopHeader[1]
Counted == IF Loop.array = <<>> THEN Top ELSE Write(Top, Loop.limit, LengthOf(heap, Read(Top, Loop.array[1])))
OnIntegers ==
  LoopHeader # <<>> /\ Read(Counted, Loop.index)[1] = "number" /\ Read(Counted, Loop.limit)[1] = "number"
GoesOn == Test(Loop.op, Read(Counted, Loop.index), Read(Counted, Loop.limit))
LoopBody == SubSeq(CodeOf(Top), Loop.body, Top.pc)
FirstSlots == [s \in 0..15 |-> IF s \in DOMAIN Counted.slots THEN Counted.slots[s] ELSE Undefined]
Decodes == LET d == Decode(LoopBody, Loop) IN d.ok /\ CanRun(d, FirstSlots, heap)
Exit == Loop.exit - 1 + CodeOf(Top)[Loop.exit][2]

JumpLoop ==
  /\ Op = "JumpLoop" /\ ~OnIntegers
  /\ Proceed([IF LoopHeader = <<>> THEN Top ELSE Counted EXCEPT !.pc = BackTo - 1])
  /\ Local
LeaveLoop ==
  /\ OnIntegers /\ ~GoesOn
  /\ Proceed([Counted EXCEPT !.acc = Bool(FALSE), !.pc = Exit])
  /\ Local
NextIteration ==   \* behind the header, and behind a load of the index
  /\ OnIntegers /\ GoesOn /\ ~Decodes
  /\ LET loads == At(LoopBody, 1) = <<"Ldar", Loop.index>>
     IN Proceed([Counted EXCEPT !.acc = IF loads THEN Read(Counted, Loop.index) ELSE Bool(TRUE),
                                !.pc = IF loads THEN Loop.body ELSE Loop.body - 1])
  /\ Local
RunSmiLoop ==
  /\ OnIntegers /\ GoesOn /\ Decodes
  /\ LET over == RunLoop(Decode(LoopBody, Loop), Loop, FirstSlots, heap)
     IN /\ Proceed([Counted EXCEPT !.slots = over.slots @@ @, !.acc = Bool(FALSE), !.pc = Exit])
        /\ heap' = over.heap
  /\ UNCHANGED <<program, code, globals, out, halted>>

-----------------------------------------------------------------------------
(* Calls *)

Arguments(first, n) == [i \in 1..n |-> Read(Top, first + i - 1)]
Calls == {"CallUndefinedReceiver", "CallProperty", "CallWithSpread", "Construct"}
Receives ==   \* the receiver: a new object of its own for Construct
  CASE Op = "CallUndefinedReceiver" -> Undefined
    [] Op = "Construct" -> Reference("object", Len(heap) + 1)
    [] OTHER -> Reg(3)
Passes ==
  CASE Op = "CallWithSpread" -> heap[Reg(4)[2]].elements
    [] Op = "CallProperty" -> Arguments(Instruction[4], Instruction[5])
    [] OTHER -> Arguments(Instruction[3], Instruction[4])

Frame(function, receiver, arguments, generator) ==
  [function |-> function, pc |-> 0, acc |-> Undefined, generator |-> generator,
   slots |-> [s \in {Slot(Parameter(i)) : i \in DOMAIN arguments}
                    \cup (IF receiver = Undefined THEN {} ELSE {Slot(Receiver)}) |->
                IF s = Slot(Receiver) THEN receiver
                ELSE arguments[CHOOSE i \in DOMAIN arguments : s = Slot(Parameter(i))]]]

(* execute_internal: a frame that starts or resumes gets its rest array.   *)
Enter(h, frame, arguments) ==
  LET rest == code[frame.function].rest
  IN IF rest = 0 THEN frames' = Append(frames, frame) /\ heap' = h
     ELSE /\ frames' = Append(frames, Write(frame, Parameter(rest), Reference("array", Len(h) + 1)))
          /\ heap' = Append(h, ArrayOf(SubSeq(arguments, rest, Len(arguments))))

Called == Reg(2)
IsFunction(v, generator) == v[1] = "function" /\ code[v[2]].generator = generator

Answered ==
  /\ Op \in Calls /\ IsFunction(Called, FALSE) /\ Receives = Undefined
  /\ Len(Passes) = 1 /\ Passes[1][1] = "number" /\ Quick(code[Called[2]].code, Passes[1][2])
CallAnswered == Answered /\ Accept(Smi(QuickResult(code[Called[2]].code, Passes[1][2]))) /\ Local

CallFunction ==
  /\ Op \in Calls /\ IsFunction(Called, FALSE) /\ ~Answered
  /\ Enter(IF Op = "Construct" THEN Append(heap, EmptyObject) ELSE heap,
           Frame(Called[2], Receives, Passes, 0), Passes)
  /\ UNCHANGED <<program, code, globals, out, halted>>

CallGenerator ==
  /\ Op \in Calls \ {"Construct"} /\ IsFunction(Called, TRUE)
  /\ Create([kind |-> "generator", state |-> "SuspendedStart", arguments |-> Passes,
                frame |-> Frame(Called[2], Receives, Passes, Len(heap) + 1)], "object")

PrintCall ==
  /\ Op \in Calls /\ Called = Native("print")
  /\ out' = Append(out, Head(Passes))
  /\ Accept(Undefined)
  /\ UNCHANGED <<program, code, heap, globals, halted>>

Push ==
  /\ Op = "CallProperty" /\ Called = Native("push") /\ Reg(3)[1] = "array" /\ Len(Passes) = 1
  /\ LET elements == heap[Reg(3)[2]].elements
     IN Accept(Smi(Len(elements) + 1)) /\ Change([heap EXCEPT ![Reg(3)[2]].elements = Append(@, Passes[1])])

CallFails ==
  /\ Op \in Calls /\ Called[1] \notin {"function", "native"}
  /\ Raise("TypeError")
  /\ UNCHANGED <<program, code, heap, globals, out>>

(* The value of a frame goes to the instruction that called it.  A call    *)
(* followed by a store of its result writes the register only, and leaves  *)
(* the caller's accumulator as it was.                                     *)
StoresResult(caller) ==
  /\ Now(caller)[1] = "CallUndefinedReceiver"
  /\ CodeOf(caller)[caller.pc + 2][1] = "Star" /\ CodeOf(caller)[caller.pc + 2][2] \in 0..5
Delivered(caller, v) ==
  IF StoresResult(caller) THEN [Write(caller, CodeOf(caller)[caller.pc + 2][2], v) EXCEPT !.pc = @ + 2]
  ELSE [caller EXCEPT !.acc = IF Now(caller)[1] = "Construct" /\ v[1] # "object" THEN Read(Top, Receiver) ELSE v,
                      !.pc = @ + 1]
Give(v) ==
  IF Len(frames) = 1 THEN frames' = <<>> /\ halted' = "done"
  ELSE frames' = Append(Front(Front(frames)), Delivered(frames[Len(frames) - 1], v)) /\ UNCHANGED halted

ReturnFromCall ==
  /\ Op = "Return" /\ Top.generator = 0
  /\ Give(Acc)
  /\ UNCHANGED <<program, code, heap, globals, out>>

-----------------------------------------------------------------------------
(* Generators and iterators *)

Leave(state, frame, done) ==   \* what a generator's frame yields or returns
  /\ heap' = Append([heap EXCEPT ![Top.generator].state = state, ![Top.generator].frame = frame],
                    IterResult(Acc, done))
  /\ Give(Reference("object", Len(heap) + 1))
  /\ UNCHANGED <<program, code, globals, out>>

ReturnFromGenerator == Op = "Return" /\ Top.generator # 0 /\ Leave("Completed", None, TRUE)
Suspend ==
  \/ Op = "SuspendGenerator" /\ Top.generator # 0
     /\ Leave("SuspendedYield", [Top EXCEPT !.pc = @ + 1], FALSE)
  \/ Op = "SuspendGenerator" /\ Top.generator = 0 /\ Skip /\ Local

(* execute_generator_step: next runs the body on, return and throw end the *)
(* generator where it stands.                                              *)
Refuses(g) == g.state = "Executing"
Step(id, method, input) ==
  LET g == heap[id]
  IN CASE Refuses(g) ->
            Raise("TypeError") /\ UNCHANGED <<program, code, heap, globals, out>>
       [] ~Refuses(g) /\ method = "throw" ->
            /\ heap' = [heap EXCEPT ![id].state = "Completed"]
            /\ Fail(<<"string", Text(heap, input)>>, Text(heap, input))
            /\ UNCHANGED <<program, code, globals, out>>
       [] ~Refuses(g) /\ (method = "return" \/ (g.state = "Completed" /\ method = "next")) ->
            /\ Accept(Reference("object", Len(heap) + 1))
            /\ Change(Append([heap EXCEPT ![id].state = "Completed"],
                             IterResult(IF method = "next" THEN Undefined ELSE input, TRUE)))
       [] OTHER ->
            /\ Enter([heap EXCEPT ![id].state = "Executing"],
                     IF g.state = "SuspendedStart" THEN g.frame ELSE [g.frame EXCEPT !.acc = input], g.arguments)
            /\ UNCHANGED <<program, code, globals, out, halted>>

Steppers == {Native("next"), Native("return"), Native("throw")}
Resume ==
  /\ Op = "CallProperty" /\ Called \in Steppers
  /\ Reg(3)[1] = "object" /\ heap[Reg(3)[2]].kind = "generator"
  /\ Step(Reg(3)[2], Called[2], IF Passes = <<>> THEN Undefined ELSE Passes[1])

IteratorKeys == <<<<"Symbol(Symbol.iterator)">>, <<"[Symbol.iterator]">>, <<"iterator">>>>
GetIterator ==
  LET methods == SelectSeq(IteratorKeys, LAMBDA k : Acc[1] = "object" /\ HasProperty(heap[Acc[2]], k))
      method == Property(heap[Acc[2]], methods[1])
  IN /\ Op = "GetIterator"
     /\ \/ Acc[1] = "array" /\ Create(ArrayIterator(Acc[2]), "object")
        \/ Acc[1] = "string" /\ Create(StringIterator(Acc[2]), "object")
        \/ /\ methods # <<>> /\ IsFunction(method, FALSE)
           /\ Enter(heap, Frame(method[2], Acc, <<>>, 0), <<>>)
           /\ UNCHANGED <<program, code, globals, out, halted>>
        \/ Acc[1] \notin {"array", "string"} /\ methods = <<>> /\ Skip /\ Local

(* The elements an array has by now; a string's when it was asked.         *)
Elements(iterator) ==
  IF iterator.kind = "arrayIterator" THEN heap[iterator.array].elements
  ELSE [i \in DOMAIN iterator.text |-> Str(iterator.text[i])]
IteratorNext ==
  LET it == Reg(2)
      kind == IF it[1] = "object" THEN heap[it[2]].kind ELSE "none"
      next == IF kind = "object" THEN Property(heap[it[2]], <<"next">>) ELSE Undefined
  IN /\ Op = "IteratorNext"
     /\ \/ /\ kind \in {"arrayIterator", "stringIterator"}
           /\ LET i == heap[it[2]].index
                  more == i <= Len(Elements(heap[it[2]]))
              IN /\ Accept(Reference("object", Len(heap) + 1))
                 /\ Change(Append(IF more THEN [heap EXCEPT ![it[2]].index = i + 1] ELSE heap,
                                  IF more THEN IterResult(Elements(heap[it[2]])[i], FALSE)
                                          ELSE IterResult(Undefined, TRUE)))
        \/ kind = "generator" /\ Step(it[2], "next", Undefined)
        \/ /\ kind = "object" /\ IsFunction(next, FALSE)
           /\ Enter(heap, Frame(next[2], it, <<>>, 0), <<>>)
           /\ UNCHANGED <<program, code, globals, out, halted>>
        \/ kind \in {"none", "object"} /\ next = Undefined /\ Create(IterResult(Undefined, TRUE), "object")

IteratorField ==
  \/ Op = "IteratorDone" /\ Local
     /\ Accept(IF Reg(2)[1] = "object" THEN Property(heap[Reg(2)[2]], <<"done">>) ELSE Bool(TRUE))
  \/ Op = "IteratorValue" /\ Local
     /\ Accept(IF Reg(2)[1] = "object" THEN Property(heap[Reg(2)[2]], <<"value">>) ELSE Undefined)

-----------------------------------------------------------------------------
(* Errors *)

ThrowValue ==
  /\ Op \in {"Throw", "ReThrow"}
  /\ Fail(Acc, <<"Uncaught ">> \o Text(heap, Acc))
  /\ UNCHANGED <<program, code, heap, globals, out>>

-----------------------------------------------------------------------------
Init ==
  /\ program \in DOMAIN Programs /\ code = <<>>
  /\ frames = <<>> /\ heap = <<>> /\ globals = <<>> /\ out = <<>> /\ halted = "no"

(* The text is parsed and compiled, its functions are made global, then    *)
(* the script starts.  A text that cannot be parsed has no effect at all.  *)
Load(statements) ==
  /\ code' = Generator!CompileScript(statements)
  /\ frames' = <<Frame(NoName, Undefined, <<>>, 0)>>
  /\ globals' = [x \in (DOMAIN code' \ {NoName}) \cup {"print"} |->
                   IF x = "print" THEN Native("print") ELSE FunctionValue(x)]
  /\ UNCHANGED <<program, heap, out, halted>>
RefuseText ==
  /\ halted' = "error"
  /\ UNCHANGED <<program, code, frames, heap, globals, out>>
Begin(parsed) == IF parsed.failed THEN RefuseText ELSE Load(parsed.value)

Start == code = <<>> /\ halted = "no" /\ Begin(Grammar!ParseProgram(Programs[program]))

Run ==
  /\ frames # <<>>
  /\ \/ LoadConstant \/ AddInPlace \/ LoadRegister \/ StoreRegister \/ LoadGlobal \/ StoreToGlobal
     \/ Operate \/ OperateSmi \/ Compare \/ Apply \/ TestIn
     \/ CreateObject \/ CreateArray \/ LoadProperty \/ StoreProperty \/ DeleteFrom \/ SpreadInto \/ Enumerate
     \/ JumpAlways \/ JumpOnBoolean \/ JumpIfUndefinedOrNull \/ JumpLoop \/ LeaveLoop \/ NextIteration \/ RunSmiLoop
     \/ CallAnswered \/ CallFunction \/ CallGenerator \/ PrintCall \/ Push \/ CallFails \/ ReturnFromCall
     \/ ReturnFromGenerator \/ Suspend \/ Resume \/ GetIterator \/ IteratorNext \/ IteratorField
     \/ ThrowValue

Next == Start \/ Run

Spec == Init /\ [][Next]_vars

-----------------------------------------------------------------------------
(* Properties *)

IsValue(v) ==
  /\ v[1] \in {"object", "array"} => v[2] \in DOMAIN heap
  /\ v[1] = "function" => v[2] \in DOMAIN code
FrameOK(frame) ==
  /\ frame.function \in DOMAIN code
  /\ frame.pc \in 0..Len(CodeOf(frame))
  /\ IsValue(frame.acc) /\ \A s \in DOMAIN frame.slots : IsValue(frame.slots[s])
  /\ frame.generator \in 0..Len(heap)

(* What the builder hands over: every jump was patched, goes to an         *)
(* instruction of the function or behind the last, and fits in its byte.   *)
CodeOK(f) ==
  /\ JumpsFit(f.code)
  /\ \A j \in DOMAIN f.code : f.code[j][1] \in Jumps =>
       f.code[j][2] # 0 /\ j - 1 + f.code[j][2] \in 0..Len(f.code)
  /\ \A i \in DOMAIN f.handlers :
       f.handlers[i].start < f.handlers[i].end /\ f.handlers[i].handler \in 0..Len(f.code)

(* A generator has one frame at most on the stack, and is Executing while  *)
(* it has: whatever it calls cannot run it again (interpreter.rs, the      *)
(* first case of execute_generator_step).                                  *)
OneFramePerGenerator ==
  \A i \in DOMAIN frames : frames[i].generator # 0 =>
    /\ heap[frames[i].generator].state = "Executing"
    /\ \A j \in DOMAIN frames : frames[j].generator = frames[i].generator => i = j

(* The state of the machine is well formed, with generators that run once, *)
(* and so is the code it starts with.                                      *)
TypeOK ==
  /\ halted \in {"no", "done", "error"} /\ (halted # "no" => frames = <<>>)
  /\ \A i \in DOMAIN frames : FrameOK(frames[i])
  /\ OneFramePerGenerator
  /\ \A x \in DOMAIN globals : IsValue(globals[x])
  /\ heap = <<>> => \A name \in DOMAIN code : CodeOK(code[name])
===============================================================================
