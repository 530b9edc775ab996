----------------------------- MODULE ScriptMeaning -----------------------------
(***************************************************************************)
(* What a script means, read off its tree: the abstract specification of   *)
(* the bytecode generator and the machine together.  Values and the        *)
(* operations on them are those of Values; order of evaluation, control,   *)
(* calls, errors and generators are defined here, without registers, jumps *)
(* or handlers.                                                            *)
(*                                                                         *)
(* Evaluating a part gives a completion: the state behind it, how it ended *)
(* and with what.  A generator is its body run again from the start with   *)
(* the inputs it got so far, up to the next yield; what it printed before  *)
(* is not printed again.  Generators of the programs change nothing but    *)
(* their own variables, so that running again is harmless.                 *)
(***************************************************************************)
EXTENDS Values

Completion(s, how, value) == [s |-> s, how |-> how, value |-> value]
Normal(s, value) == Completion(s, "normal", value)
Thrown(s, value) == Completion(s, "throw", value)
Then(r, F(_)) == IF r.how = "normal" THEN F(r) ELSE r

Functions(script) ==
  LET declared == SelectSeq(script, LAMBDA d : d.kind = "FunctionDeclaration")
  IN [name \in {declared[i].name : i \in DOMAIN declared} |->
        CHOOSE f \in ToSet(declared) : f.name = name]

(* The objects of with statements are asked first, the innermost one       *)
(* first, then the variables of the function, then the global object.      *)
Holder(s, x) == SelectLastInSeq(s.withs, LAMBDA o : HasProperty(s.heap[o[2]], <<x>>))
Get(s, x) ==
  IF Holder(s, x) # 0 THEN GetNamed(s.heap, s.withs[Holder(s, x)], <<x>>)
  ELSE IF x \in DOMAIN s.locals THEN s.locals[x]
  ELSE IF x \in DOMAIN s.globals THEN s.globals[x] ELSE Undefined
Set(s, x, v) ==
  IF Holder(s, x) # 0 THEN [s EXCEPT !.heap = SetNamed(@, s.withs[Holder(s, x)], <<x>>, v)]
  ELSE IF x \in DOMAIN s.locals THEN [s EXCEPT !.locals[x] = v]
  ELSE [s EXCEPT !.globals = (x :> v) @@ @]
Declare(s, x, v) ==
  IF s.script THEN [s EXCEPT !.globals = (x :> v) @@ @] ELSE [s EXCEPT !.locals = (x :> v) @@ @]

Fresh(s, object, type) == Normal([s EXCEPT !.heap = Append(@, object)], Reference(type, Len(s.heap) + 1))

RECURSIVE Run(_, _, _)   \* a statement, with the labels right before it, or an expression
Evaluate(s, e) == Run(s, e, {})
Execute(s, e, labels) == Run(s, e, labels)
ExecuteAll(s, statements) == Run(s, Block(statements), {})
EvaluateAll(s, list) ==   \* the values of a list, its spreads opened
  FoldLeft(LAMBDA r, e :
             Then(r, LAMBDA before :
               Then(Evaluate(before.s, IF e.kind = "Spread" THEN e.expr ELSE e), LAMBDA v :
                 Normal(v.s, before.value \o (IF e.kind = "Spread" THEN Spreads(v.s.heap, v.value)
                                                                   ELSE <<v.value>>)))),
           Normal(s, <<>>), list)
RECURSIVE Invoke(_, _, _, _)

-----------------------------------------------------------------------------
(* Iterators and generators *)

(* A generator's body up to the yield behind the given inputs.             *)
Replay(s, id, inputs) ==
  LET g == s.heap[id]
      f == s.functions[g.function]
  IN ExecuteAll([s EXCEPT !.locals = g.locals, !.this = g.this, !.script = FALSE, !.withs = <<>>,
                          !.inputs = inputs, !.out = <<>>, !.heap[id].state = "running"], f.body)

Replayed(s, id, inputs, r) ==
  LET g == s.heap[id]
      news == SubSeq(r.s.out, g.printed + 1, Len(r.s.out))
      after == [s EXCEPT !.out = @ \o news, !.heap[id].inputs = inputs, !.heap[id].printed = Len(r.s.out),
                         !.heap[id].state = IF r.how = "yield" THEN "suspended" ELSE "done"]
  IN IF r.how = "throw" THEN Thrown(after, r.value)
     ELSE Fresh(after, IterResult(IF r.how = "normal" THEN Undefined ELSE r.value, r.how # "yield"), "object")

Step(s, id, method, input) ==
  LET g == s.heap[id]
      inputs == IF g.state = "start" THEN <<>> ELSE Append(g.inputs, input)
      done == [s EXCEPT !.heap[id].state = "done"]
  IN CASE g.state = "running" -> Thrown(s, Str("TypeError"))
       [] g.state # "running" /\ method = "throw" -> Thrown(done, input)
       [] g.state # "running" /\ method = "return" -> Fresh(done, IterResult(input, TRUE), "object")
       [] g.state = "done" /\ method = "next" -> Fresh(s, IterResult(Undefined, TRUE), "object")
       [] OTHER -> Replayed(s, id, inputs, Replay(s, id, inputs))

IteratorKeys == <<<<"Symbol(Symbol.iterator)">>, <<"[Symbol.iterator]">>, <<"iterator">>>>
IteratorOf(s, v) ==
  LET methods == SelectSeq(IteratorKeys, LAMBDA k : v[1] = "object" /\ HasProperty(s.heap[v[2]], k))
  IN CASE v[1] = "array" -> Fresh(s, ArrayIterator(v[2]), "object")
       [] v[1] = "string" -> Fresh(s, StringIterator(v[2]), "object")
       [] methods # <<>> -> Invoke(s, Property(s.heap[v[2]], methods[1]), v, <<>>)
       [] OTHER -> Normal(s, v)

(* What is no iterator has no values; the language would throw here.       *)
NextOf(s, it) ==
  LET object == IF it[1] = "object" THEN s.heap[it[2]] ELSE [kind |-> "none"]
      items == IF object.kind = "arrayIterator" THEN s.heap[object.array].elements
               ELSE [i \in DOMAIN object.text |-> Str(object.text[i])]
  IN CASE object.kind = "generator" -> Step(s, it[2], "next", Undefined)
       [] object.kind \in {"arrayIterator", "stringIterator"} ->
            IF object.index <= Len(items)
            THEN Fresh([s EXCEPT !.heap[it[2]].index = @ + 1], IterResult(items[object.index], FALSE), "object")
            ELSE Fresh(s, IterResult(Undefined, TRUE), "object")
       [] HasProperty(object, <<"next">>) -> Invoke(s, Property(object, <<"next">>), it, <<>>)
       [] OTHER -> Fresh(s, IterResult(Undefined, TRUE), "object")

Done(r) == ToBoolean(Property(r.s.heap[r.value[2]], <<"done">>))
ValueOf(r) == Property(r.s.heap[r.value[2]], <<"value">>)

(* yield ends the run of the body, unless an input says how it went on.    *)
YieldValue(s, v) ==
  IF s.inputs = <<>> THEN Completion(s, "yield", v)
  ELSE Normal([s EXCEPT !.inputs = Tail(@)], Head(s.inputs))
RECURSIVE YieldAll(_, _)
YieldAll(s, it) ==
  Then(NextOf(s, it), LAMBDA r :
    IF Done(r) THEN Normal(r.s, ValueOf(r))
    ELSE Then(YieldValue(r.s, ValueOf(r)), LAMBDA y : YieldAll(y.s, it)))

-----------------------------------------------------------------------------
(* Calls *)

Bind(f, arguments, h) ==
  [x \in ToSet(f.params) |->
     LET i == CHOOSE j \in DOMAIN f.params : f.params[j] = x
     IN IF i = f.rest THEN Reference("array", Len(h) + 1)
        ELSE IF i \in DOMAIN arguments THEN arguments[i] ELSE Undefined]
WithRest(s, f, arguments) ==
  IF f.rest = 0 THEN s
  ELSE [s EXCEPT !.heap = Append(@, ArrayOf(SubSeq(arguments, f.rest, Len(arguments))))]

Back(caller, r) == [r EXCEPT !.s = [caller EXCEPT !.heap = r.s.heap, !.globals = r.s.globals, !.out = r.s.out,
                                                  !.inputs = r.s.inputs]]
FromBody(r) ==
  CASE r.how = "return" -> Normal(r.s, r.value)
    [] r.how = "normal" -> Normal(r.s, Undefined)
    [] OTHER -> r

Invoke(s, callee, this, arguments) ==
  CASE callee[1] = "function" ->
         LET f == s.functions[callee[2]]
             entered == WithRest(s, f, arguments)
             locals == Bind(f, arguments, s.heap)
         IN IF f.generator
            THEN Fresh(entered, [kind |-> "generator", function |-> callee[2], locals |-> locals, this |-> this,
                               state |-> "start", inputs |-> <<>>, printed |-> 0], "object")
            ELSE Back(s, FromBody(ExecuteAll([entered EXCEPT !.locals = locals, !.this = this, !.script = FALSE,
                                                             !.withs = <<>>], f.body)))
    [] callee = Native("print") -> Normal([s EXCEPT !.out = Append(@, arguments[1])], Undefined)
    [] callee = Native("push") ->
         Normal([s EXCEPT !.heap[this[2]].elements = @ \o arguments],
                Smi(Len(s.heap[this[2]].elements) + Len(arguments)))
    [] callee[1] = "native" /\ callee \notin {Native("print"), Native("push")} ->
         Step(s, this[2], callee[2], IF arguments = <<>> THEN Undefined ELSE arguments[1])
    [] OTHER -> Thrown(s, Str("TypeError"))

(* The callee first, then the arguments.                                   *)
CallOf(s, e) ==
  IF e.callee.kind = "PropertyAccess"
  THEN Then(Evaluate(s, e.callee.object), LAMBDA o :
         LET f == GetNamed(o.s.heap, o.value, <<e.callee.property>>)
         IN Then(EvaluateAll(o.s, e.arguments), LAMBDA a : Invoke(a.s, f, o.value, a.value)))
  ELSE Then(Evaluate(s, e.callee), LAMBDA f :
         Then(EvaluateAll(f.s, e.arguments), LAMBDA a : Invoke(a.s, f.value, Undefined, a.value)))

Constructed(s, e) ==
  Then(Evaluate(s, e.callee), LAMBDA f :
    Then(EvaluateAll(f.s, e.arguments), LAMBDA a :
      IF f.value[1] # "function" THEN Thrown(a.s, Str("TypeError"))
      ELSE LET o == Fresh(a.s, EmptyObject, "object")
           IN Then(Invoke(o.s, f.value, o.value, a.value), LAMBDA r :
                Normal(r.s, IF r.value[1] = "object" THEN r.value ELSE o.value))))

-----------------------------------------------------------------------------
(* Expressions *)

Pair(s, a, b, F(_, _)) ==
  Then(Evaluate(s, a), LAMBDA l : Then(Evaluate(l.s, b), LAMBDA r : F(l.value, r)))

Assigned(s, target, v) ==
  CASE target.kind = "Variable" -> Normal(Set(s, target.name, v), v)
    [] target.kind = "PropertyAccess" ->
         Then(Evaluate(s, target.object), LAMBDA o :
           Normal([o.s EXCEPT !.heap = SetNamed(@, o.value, <<target.property>>, v)], v))
    [] target.kind = "KeyedAccess" ->
         Pair(s, target.object, target.key, LAMBDA o, k :
           Normal([k.s EXCEPT !.heap = SetKeyed(@, o, k.value, v)], v))

Operated(op, l, r) ==   \* r is the completion of the right side
  IF op = "in" /\ r.value[1] # "object" THEN Thrown(r.s, Str("TypeError"))
  ELSE Normal(r.s, CASE op = "in" -> Bool(HasProperty(r.s.heap[r.value[2]], Text(r.s.heap, l)))
                     [] op = "!=" -> Bool(~LooseEqual(l, r.value))
                     [] op = "!==" -> Bool(~StrictEqual(l, r.value))
                     [] op \in Tests -> Bool(Test(op, l, r.value))
                     [] OTHER -> Arithmetic(r.s.heap, op, l, r.value))
BinaryOf(s, e) ==
  IF e.op \in {"&&", "||", "??"}
  THEN Then(Evaluate(s, e.left), LAMBDA l :
         IF \/ e.op = "&&" /\ ToBoolean(l.value)
            \/ e.op = "||" /\ ~ToBoolean(l.value)
            \/ e.op = "??" /\ l.value \in {Null, Undefined}
         THEN Evaluate(l.s, e.right) ELSE l)
  ELSE Pair(s, e.left, e.right, LAMBDA l, r : Operated(e.op, l, r))

DeleteOf(s, e) ==
  CASE e.kind = "PropertyAccess" ->
         Then(Evaluate(s, e.object), LAMBDA o :
           Normal([o.s EXCEPT !.heap[o.value[2]] = DeleteProperty(@, <<e.property>>)], Bool(TRUE)))
    [] e.kind = "KeyedAccess" ->
         Pair(s, e.object, e.key, LAMBDA o, k :
           Normal([k.s EXCEPT !.heap = IF o[1] = "array" THEN SetKeyed(@, o, k.value, Undefined)
                                       ELSE [@ EXCEPT ![o[2]] = DeleteProperty(@, Text(k.s.heap, k.value))]], Bool(TRUE)))
    [] e.kind = "Variable" -> Normal(s, Bool(e.name \notin DOMAIN s.locals))
    [] OTHER -> Then(Evaluate(s, e), LAMBDA r : Normal(r.s, Bool(TRUE)))

UnaryOf(s, e) ==
  IF e.op = "delete" THEN DeleteOf(s, e.expr)
  ELSE Then(Evaluate(s, e.expr), LAMBDA r :
         Normal(r.s, CASE e.op = "!" -> Bool(~ToBoolean(r.value))
                       [] e.op = "-" -> Arithmetic(r.s.heap, "*", Smi(-1), r.value)
                       [] e.op = "+" -> ToNumber(r.value)
                       [] e.op = "~" -> Smi(-AsInteger(ToNumber(r.value)) - 1)
                       [] e.op = "void" -> Undefined
                       [] e.op = "typeof" -> TypeOf(r.value)))

WithProperty(r, p) ==
  LET object == r.value
  IN CASE p[2].kind = "Spread" ->
            Then(Evaluate(r.s, p[2].expr), LAMBDA v :
              Normal([v.s EXCEPT !.heap = SpreadObject(@, object, v.value)], object))
       [] p[2].kind = "ComputedProperty" ->
            Pair(r.s, p[2].key, p[2].value, LAMBDA k, v :
              Normal([v.s EXCEPT !.heap = SetKeyed(@, object, k, v.value)], object))
       [] OTHER ->
            Then(Evaluate(r.s, p[2]), LAMBDA v :
              Normal([v.s EXCEPT !.heap = SetNamed(@, object, <<p[1]>>, v.value)], object))

Destructured(r, e) ==
  LET source == r.value
      Part(q, i) ==
        Then(q, LAMBDA before :
          IF e.kind = "ArrayDestructureAssignment"
          THEN Assigned(before.s, e.targets[i], GetKeyed(before.s.heap, source, Smi(i - 1)))
          ELSE Assigned(before.s, e.pairs[i][2], GetNamed(before.s.heap, source, <<e.pairs[i][1]>>)))
      parts == IF e.kind = "ArrayDestructureAssignment" THEN DOMAIN e.targets ELSE DOMAIN e.pairs
  IN Then(FoldLeft(Part, r, [i \in parts |-> i]), LAMBDA q : Normal(q.s, source))

(* a?.b, a?.[b], a?.(): undefined for undefined and null.                  *)
OptionalOf(s, object, F(_)) ==
  Then(Evaluate(s, object), LAMBDA o : IF o.value \in {Null, Undefined} THEN Normal(o.s, Undefined) ELSE F(o))

ExpressionMeaning(s, e) ==
  CASE e.kind = "Literal" -> Normal(s, e.value)
    [] e.kind = "Variable" -> Normal(s, Get(s, e.name))
    [] e.kind = "This" -> Normal(s, s.this)
    [] e.kind = "Assignment" -> Then(Evaluate(s, e.value), LAMBDA r : Normal(Set(r.s, e.target, r.value), r.value))
    [] e.kind = "Binary" -> BinaryOf(s, e)
    [] e.kind = "Unary" -> UnaryOf(s, e)
    [] e.kind = "Call" -> CallOf(s, e)
    [] e.kind = "New" -> Constructed(s, e)
    [] e.kind = "PropertyAccess" ->
         Then(Evaluate(s, e.object), LAMBDA o : Normal(o.s, GetNamed(o.s.heap, o.value, <<e.property>>)))
    [] e.kind = "KeyedAccess" ->
         Pair(s, e.object, e.key, LAMBDA o, k : Normal(k.s, GetKeyed(k.s.heap, o, k.value)))
    [] e.kind = "PropertyAssignment" ->
         Pair(s, e.object, e.value, LAMBDA o, v :
           Normal([v.s EXCEPT !.heap = SetNamed(@, o, <<e.property>>, v.value)], v.value))
    [] e.kind = "KeyedAssignment" ->
         Then(Evaluate(s, e.object), LAMBDA o : Pair(o.s, e.key, e.value, LAMBDA k, v :
           Normal([v.s EXCEPT !.heap = SetKeyed(@, o.value, k, v.value)], v.value)))
    [] e.kind = "ObjectLiteral" ->
         FoldLeft(LAMBDA r, p : Then(r, LAMBDA q : WithProperty(q, p)), Fresh(s, EmptyObject, "object"), e.properties)
    [] e.kind = "ArrayLiteral" ->
         Then(EvaluateAll(s, e.elements), LAMBDA r : Fresh(r.s, ArrayOf(r.value), "array"))
    [] e.kind = "OptionalPropertyAccess" ->
         OptionalOf(s, e.object, LAMBDA o : Normal(o.s, GetNamed(o.s.heap, o.value, <<e.property>>)))
    [] e.kind = "OptionalKeyedAccess" ->
         OptionalOf(s, e.object, LAMBDA o :
           Then(Evaluate(o.s, e.key), LAMBDA k : Normal(k.s, GetKeyed(k.s.heap, o.value, k.value))))
    [] e.kind = "OptionalCall" ->
         OptionalOf(s, e.callee, LAMBDA f :
           Then(EvaluateAll(f.s, e.arguments), LAMBDA a : Invoke(a.s, f.value, Undefined, a.value)))
    [] e.kind = "Yield" ->
         Then(IF e.value = None THEN Normal(s, Undefined) ELSE Evaluate(s, e.value), LAMBDA r :
           IF e.delegate THEN Then(IteratorOf(r.s, r.value), LAMBDA it : YieldAll(it.s, it.value))
           ELSE YieldValue(r.s, r.value))
    [] e.kind = "Conditional" ->
         Then(Evaluate(s, e.condition), LAMBDA c : Evaluate(c.s, IF ToBoolean(c.value) THEN e.then ELSE e.else))
    [] e.kind \in {"ArrayDestructureAssignment", "ObjectDestructureAssignment"} ->
         Then(Evaluate(s, e.value), LAMBDA r : Destructured(r, e))

-----------------------------------------------------------------------------
(* Statements *)

Ran(s) == Normal(s, Undefined)
Leaves(r, how, labels) == r.how = how /\ r.value \in labels \cup {NoName}
AfterBody(r, labels, Again(_)) ==   \* on to the next turn, out of the loop, or further out
  IF r.how = "normal" \/ Leaves(r, "continue", labels) THEN Again(r.s)
  ELSE IF Leaves(r, "break", labels) THEN Ran(r.s) ELSE r

Holds(s, condition) == IF condition = None THEN Normal(s, Bool(TRUE)) ELSE Evaluate(s, condition)
RECURSIVE Repeat(_, _, _), RepeatOf(_, _, _, _), RepeatIn(_, _, _, _)
Repeat(s, loop, labels) ==
  Then(Holds(s, loop.condition), LAMBDA c :
    IF ~ToBoolean(c.value) THEN Ran(c.s)
    ELSE AfterBody(Execute(c.s, loop.body, {}), labels, LAMBDA b :
           Then(IF loop.kind = "For" /\ loop.update # None THEN Evaluate(b, loop.update) ELSE Ran(b),
                LAMBDA u : Repeat(u.s, loop, labels))))
RepeatOf(s, it, loop, labels) ==
  Then(NextOf(s, it), LAMBDA r :
    IF Done(r) THEN Ran(r.s)
    ELSE AfterBody(Execute(Declare(r.s, loop.name, ValueOf(r)), loop.body, {}), labels,
                   LAMBDA b : RepeatOf(b, it, loop, labels)))
RepeatIn(s, keys, loop, labels) ==
  IF keys = <<>> THEN Ran(s)
  ELSE AfterBody(Execute(Declare(s, loop.name, Head(keys)), loop.body, {}), labels,
                 LAMBDA b : RepeatIn(b, Tail(keys), loop, labels))

(* The first case whose test equals the value, or the default, and all     *)
(* statements from there on.                                               *)
RECURSIVE Select(_, _, _, _)
Select(s, cases, v, i) ==   \* the case taken, 0 for none, with the state behind the tests
  IF i > Len(cases)
  THEN Normal(s, SelectInSeq(cases, LAMBDA k : k.test = None))
  ELSE IF cases[i].test = None THEN Select(s, cases, v, i + 1)
  ELSE Then(Evaluate(s, cases[i].test), LAMBDA t :
         IF StrictEqual(v, t.value) THEN Normal(t.s, i) ELSE Select(t.s, cases, v, i + 1))
SwitchOf(s, e, labels) ==
  Then(Evaluate(s, e.discriminant), LAMBDA d :
    Then(Select(d.s, e.cases, d.value, 1), LAMBDA t :
      LET r == IF t.value = 0 THEN Ran(t.s)
               ELSE ExecuteAll(t.s, FlattenSeq([i \in 1..(Len(e.cases) - t.value + 1) |->
                                                  e.cases[t.value + i - 1].statements]))
      IN IF Leaves(r, "break", labels) THEN Ran(r.s) ELSE r))

(* A finally block runs however the rest ended, and takes over if it ends  *)
(* otherwise than normally itself.                                         *)
Caught(r, e) ==
  IF r.how # "throw" \/ e.catch = None THEN r
  ELSE Execute(IF e.param = NoName THEN r.s ELSE Declare(r.s, e.param, r.value), e.catch, {})
Overtaken(r, final) == IF final.how = "normal" THEN [r EXCEPT !.s = final.s] ELSE final
Finally(r, e) == IF e.finally = None \/ r.how = "yield" THEN r ELSE Overtaken(r, Execute(r.s, e.finally, {}))
TryOf(s, e) == Finally(Caught(Execute(s, e.try, {}), e), e)

LabeledOf(s, e, labels) ==
  LET r == Execute(s, e.body, labels \cup {e.label})
  IN IF r.how = "break" /\ r.value = e.label THEN Ran(r.s) ELSE r

WithOf(s, e) ==
  Then(Evaluate(s, e.object), LAMBDA o :
    LET r == Execute([o.s EXCEPT !.withs = Append(@, o.value)], e.body, {})
    IN [r EXCEPT !.s.withs = s.withs])

StatementMeaning(s, e, labels) ==
  CASE e.kind = "Expression" -> Evaluate(s, e.expr)
    [] e.kind = "VariableDeclaration" ->
         Then(IF e.init = None THEN Ran(s) ELSE Evaluate(s, e.init), LAMBDA r : Ran(Declare(r.s, e.name, r.value)))
    [] e.kind = "Block" ->
         FoldLeft(LAMBDA r, each : Then(r, LAMBDA q : Execute(q.s, each, {})), Ran(s), e.statements)
    [] e.kind = "If" ->
         Then(Evaluate(s, e.condition), LAMBDA c :
           IF ToBoolean(c.value) THEN Execute(c.s, e.then, {})
           ELSE IF e.else = None THEN Ran(c.s) ELSE Execute(c.s, e.else, {}))
    [] e.kind = "While" -> Repeat(s, e, labels)
    [] e.kind = "For" -> Then(IF e.init = None THEN Ran(s) ELSE Execute(s, e.init, {}), LAMBDA i : Repeat(i.s, e, labels))
    [] e.kind = "DoWhile" -> AfterBody(Execute(s, e.body, {}), labels, LAMBDA b : Repeat(b, e, labels))
    [] e.kind = "ForOf" ->
         Then(Evaluate(s, e.iterable), LAMBDA v :
           Then(IteratorOf(v.s, v.value), LAMBDA it : RepeatOf(it.s, it.value, e, labels)))
    [] e.kind = "ForIn" -> Then(Evaluate(s, e.object), LAMBDA v : RepeatIn(v.s, KeysOf(v.s.heap, v.value), e, labels))
    [] e.kind = "Switch" -> SwitchOf(s, e, labels)
    [] e.kind = "Break" -> Completion(s, "break", e.label)
    [] e.kind = "Continue" -> Completion(s, "continue", e.label)
    [] e.kind = "Labeled" -> LabeledOf(s, e, labels)
    [] e.kind = "With" -> WithOf(s, e)
    [] e.kind = "Throw" -> Then(Evaluate(s, e.expr), LAMBDA r : Thrown(r.s, r.value))
    [] e.kind = "TryCatch" -> TryOf(s, e)
    [] e.kind = "Return" ->
         Then(IF e.expr = None THEN Ran(s) ELSE Evaluate(s, e.expr), LAMBDA r : Completion(r.s, "return", r.value))
    [] OTHER -> Ran(s)   \* Empty, FunctionDeclaration

Run(s, node, labels) ==
  IF node.kind \in StatementKinds THEN StatementMeaning(s, node, labels) ELSE ExpressionMeaning(s, node)

-----------------------------------------------------------------------------
Meaning(script) ==
  LET functions == Functions(script)
      r == ExecuteAll([functions |-> functions, locals |-> <<>>, this |-> Undefined, script |-> TRUE, withs |-> <<>>,
                       inputs |-> <<>>, out |-> <<>>, heap |-> <<>>,
                       globals |-> [x \in DOMAIN functions \cup {"print"} |->
                                      IF x = "print" THEN Native("print") ELSE FunctionValue(x)]], script)
  IN [out |-> r.s.out, halted |-> IF r.how = "throw" THEN "error" ELSE "done"]
===============================================================================
