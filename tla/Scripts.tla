--------------------------------- MODULE Scripts ---------------------------------
(***************************************************************************)
(* Scripts to run, as trees.  A script declares functions and calls main;  *)
(* families of scripts combine every choice of a part with every choice of *)
(* the others.                                                             *)
(***************************************************************************)
EXTENDS Ast, SequencesExt

(* Short forms of the trees. *)
N(n) == Literal(Smi(n))
S(atom) == Literal(Str(atom))
V(x) == Variable(x)
Plus(a, b) == Binary("+", a, b)
Is(a, b) == Binary("===", a, b)
Less(a, b) == Binary("<", a, b)
Dot(object, x) == PropertyAccess(object, x)
Do(e) == ExpressionStatement(e)
Let(x, e) == VariableDeclaration(x, e)
Assign(x, e) == Do(Assignment(x, e))
Braces(s) == IF s.kind \in {"Block", "None"} THEN s ELSE Block(<<s>>)
Try(try, param, catch, finally) == TryCatch(Braces(try), param, Braces(catch), Braces(finally))
C(f, arguments) == Call(V(f), arguments)
P(e) == Do(C("print", <<e>>))
PA(e) == P(Plus(S("array "), e))
Fn(name, params, body) == FunctionDeclaration(name, params, 0, FALSE, body)
Gen(name, params, body) == FunctionDeclaration(name, params, 0, TRUE, body)
InMain(functions, body) == functions \o <<Fn("main", <<>>, body), Do(C("main", <<>>))>>
Object(x, e) == ObjectLiteral(<<<<x, e>>>>)
Array(elements) == ArrayLiteral(elements)
Product(xs, ys, F(_, _)) == FlattenSeq([i \in DOMAIN xs |-> [j \in DOMAIN ys |-> F(xs[i], ys[j])]])

(* Ways out of a loop in a loop: the inner loop or block counts k and      *)
(* leaves in some way when it is 2.                                        *)
Leaving(escape) == <<Assign("k", Plus(V("k"), N(1))), P(V("k")), If(Is(V("k"), N(2)), escape, None), P(S("after"))>>
Inner(escape) ==
  LET body == Block(Leaving(escape))
      more == Less(V("k"), N(3))
  IN <<While(more, body), DoWhile(body, more), For(None, None, None, Block(Leaving(escape) \o <<If(more, Empty, Break(NoName))>>)),
       For(Let("j", N(0)), Less(V("j"), N(3)), Assignment("j", Plus(V("j"), N(1))), body),
       ForOf("j", Array(<<N(1), N(2), N(3)>>), body), ForIn("j", ObjectLiteral(<<<<"a", N(1)>>, <<"b", N(2)>>>>), body),
       Switch(V("i"), <<SwitchCase(None, <<P(S("none"))>>), SwitchCase(N(0), <<P(S("zero"))>>),
                        SwitchCase(N(1), <<P(S("one")), If(Is(V("i"), N(0)), escape, None)>>), SwitchCase(N(1), <<P(S("last"))>>)>>)>>
     \o (IF escape = Break(NoName) THEN <<>>   \* which leaves the labelled block only
         ELSE <<Labeled("mid", Block(<<P(S("in")), If(Is(V("i"), N(0)), escape, None), P(S("still")), Break("mid"), P(S("never"))>>))>>)
Outer(inner) ==
  LET body == Block(<<Assign("k", N(0)), inner, P(S("end"))>>)
      i == Assignment("i", Plus(V("i"), N(1)))
  IN <<Labeled("outer", For(Let("i", N(0)), Less(V("i"), N(2)), i, body)),
       Labeled("outer", ForOf("i", Array(<<N(0), N(1)>>), body))>>
Ways == <<Break(NoName), Continue(NoName), Break("outer"), Continue("outer"), Return(N(1)), Throw(S("out"))>>
Leavings ==
  FlattenSeq([w \in DOMAIN Ways |->
    FlattenSeq([n \in DOMAIN Inner(Ways[w]) |->
      [o \in DOMAIN Outer(None) |-> InMain(<<>>, <<Let("k", N(0)), Outer(Inner(Ways[w])[n])[o], P(S("over"))>>)]])])

(* Handlers. *)
Tried == <<P(S("try")), Throw(S("thrown")), Do(C("fails", <<>>)), Do(C("missing", <<>>)),
           Try(Throw(S("inner")), NoName, None, P(S("inner finally"))),
           Try(Throw(S("inner")), NoName, Throw(S("again")), None)>>
Catches == <<None, P(S("caught")), Block(<<P(S("caught")), Throw(S("from catch"))>>)>>
Finallies == <<None, P(S("finally"))>>
Handlings ==
  LET Around(tried, catch, finally) ==
        InMain(<<Fn("fails", <<>>, <<P(S("fails")), Throw(S("deep")), P(S("never"))>>),
              Fn("run", <<>>, <<Try(Block(<<tried, P(S("went on"))>>), NoName, catch, finally), Return(N(1))>>)>>,
            <<Try(P(C("run", <<>>)), NoName, P(S("outside")), None), P(S("over"))>>)
  IN FlattenSeq([f \in DOMAIN Finallies |->
       Product(Tried, IF f = 1 THEN Tail(Catches) ELSE Catches, LAMBDA t, c : Around(t, c, Finallies[f]))])

(* Operators on every pair of kinds of operand; x starts from 3 each time. *)
Lefts == <<V("x"), N(1000), C("g", <<N(3)>>), Assignment("x", N(5)), Binary("-", V("x"), N(1)), Dot(V("o"), "p"),
           Literal(Undefined)>>
Rights == <<V("x"), V("y"), N(2), N(1000), C("h", <<V("x")>>), Assignment("x", N(5)), Binary("*", V("x"), V("y")),
            Conditional(Less(V("y"), V("x")), V("y"), N(9)), Dot(V("o"), "p")>>
Operators == <<"+", "-", "*", "%", "&", "|", "<", ">=", "===", "!==", "==", "&&", "||", "??">>
Helpers == <<Fn("g", <<"a">>, <<P(V("a")), Return(Plus(V("a"), N(1)))>>), Fn("h", <<"a">>, <<P(S("h")), Return(V("a"))>>)>>
Operations ==
  LET Before == <<Let("x", N(3)), Let("y", N(7)), Let("o", Object("p", N(4)))>>
      Pairs(op, l, rights) ==
        Before \o FlattenSeq([i \in DOMAIN rights |-> <<Assign("x", N(3)), P(Binary(op, l, rights[i])), P(V("x"))>>])
      Part(op, l, first, last) == Fn(IF first = 1 THEN "one" ELSE "two", <<>>, Pairs(op, l, SubSeq(Rights, first, last)))
  IN Product(Operators, Lefts, LAMBDA op, l :
       InMain(Helpers \o <<Part(op, l, 1, 4), Part(op, l, 5, Len(Rights))>>, <<Do(C("one", <<>>)), Do(C("two", <<>>))>>))

Operands == <<N(0), N(5), Literal(Null), Literal(Undefined), Literal(Bool(TRUE)), S("text"), V("x"), Object("p", N(1)), Array(<<>>)>>
Unaries1 == <<"!", "-", "~", "void", "typeof", "delete">>
Applications ==
  [i \in DOMAIN Unaries1 |->
     InMain(Helpers, <<Let("x", N(3))>>
       \o [k \in DOMAIN Operands |-> P(Unary(Unaries1[i], Operands[k]))]
       \o <<P(Plus(Unary("typeof", V("x")), S("/"))), P(Plus(S("/"), Binary("*", V("x"), N(2)))), P(Plus(V("y"), N(1))), P(Unary("+", V("x"))),
             P(Unary(Unaries1[i], C("g", <<N(8)>>))),
             P(Plus(S("array"), Array(<<N(1), Literal(Null), Array(<<S("b")>>)>>)))>>)]

(* Objects and arrays. *)
Contents(o) == P(Plus(Plus(Dot(V(o), "a"), S(" ")), Dot(V(o), "b")))
Listed(o) == ForIn("k", V(o), P(V("k")))
Item(a, i) == KeyedAccess(V(a), i)
Data ==
  <<InMain(<<>>, <<Let("o", ObjectLiteral(<<<<"a", N(1)>>, <<"b", S("z")>>>>)), Contents("o"),
                Do(PropertyAssignment(V("o"), "a", Plus(Dot(V("o"), "a"), N(4)))), Contents("o"),
                Do(KeyedAssignment(V("o"), S("b"), Dot(V("o"), "a"))), Contents("o"),
                Do(KeyedAssignment(V("o"), Plus(S("c"), N(1)), N(6))), Listed("o"),
                P(Binary("in", S("a"), V("o"))), P(Unary("delete", Dot(V("o"), "a"))), P(Binary("in", S("a"), V("o"))),
                P(Unary("delete", KeyedAccess(V("o"), S("b")))), P(Unary("typeof", Dot(V("o"), "b")))>>),
    InMain(<<>>, <<Let("a", Array(<<N(4), N(5)>>)), P(Dot(V("a"), "length")), Do(KeyedAssignment(V("a"), N(3), S("late"))),
                P(Dot(V("a"), "length")), P(Item("a", N(2))), P(Item("a", S("3"))), Listed("a"),
                P(Call(Dot(V("a"), "push"), <<N(8)>>)), P(Item("a", Binary("-", Dot(V("a"), "length"), N(1)))),
                P(Unary("delete", Item("a", N(1)))), P(Item("a", N(1))), PA(V("a")),
                Try(P(Binary("in", S("x"), N(1))), NoName, P(S("no object")), None),
                Let("i", N(0)), ForOf("v", V("a"), Block(<<P(V("v")), Assign("i", Plus(V("i"), N(1))),
                                         If(Less(V("i"), N(3)), Do(Call(Dot(V("a"), "push"), <<V("i")>>)), None)>>))>>),
    InMain(<<>>, <<Let("a", Array(<<N(1), Spread(Array(<<N(2), N(3)>>)), S("b"), Spread(S("s"))>>)), PA(V("a")),
                Let("o", ObjectLiteral(<<<<"a", N(1)>>, <<"", ComputedProperty(Plus(S("x"), N(1)), N(2))>>, <<"b", V("a")>>>>)),
                Listed("o"), Let("q", ObjectLiteral(<<<<"", Spread(V("o"))>>>>)), Listed("q"), Contents("q"),
                P(Dot(S("s"), "length")), ForOf("c", S("s"), P(V("c"))), P(Item("a", Array(<<N(1)>>)))>>),
    InMain(<<>>, <<Let("a", N(1)), Let("b", N(2)), Let("o", Object("p", N(0))), Let("r", Array(<<N(7), N(8)>>)),
                PA(ArrayDestructureAssignment(<<V("b"), V("a"), Dot(V("o"), "p"), Item("r", N(1))>>,
                                             Array(<<V("a"), V("b"), N(5), N(6)>>))),
                P(V("a")), P(V("b")), P(Dot(V("o"), "p")), PA(V("r")),
                Do(ObjectDestructureAssignment(<<<<"x", V("a")>>, <<"y", Dot(V("o"), "q")>>, <<"z", Item("r", V("b"))>>>>,
                                               ObjectLiteral(<<<<"x", S("ex")>>, <<"y", S("why")>>>>))),
                P(V("a")), P(Dot(V("o"), "q")), P(Item("r", N(1)))>>),
    InMain(<<>>, <<Let("o", ObjectLiteral(<<<<"x", N(1)>>, <<"y", N(2)>>>>)), Let("x", S("local")), Let("z", S("local")),
                With(V("o"), Block(<<P(V("x")), Assign("x", N(5)), Assign("z", N(6)), P(V("z")),
                  With(Object("x", S("inner")), Block(<<P(V("x")), Assign("x", S("gone")), Assign("y", N(9)), P(V("x"))>>)),
                  P(V("x")), P(V("y"))>>)),
                P(V("x")), P(V("z")), P(Dot(V("o"), "x")), P(Dot(V("o"), "y"))>>),
    InMain(<<Fn("f", <<>>, <<Return(N(1))>>), Fn("g", <<>>, <<Return(N(2))>>)>>,
           <<Let("o", Object("g", V("f"))), P(Plus(Call(V("g"), <<>>), Call(V("f"), <<>>))),
             With(V("o"), Block(<<P(Plus(Call(V("f"), <<>>), Call(V("g"), <<>>)))>>)), P(Call(V("g"), <<>>))>>)>>

(* Calls. *)
Many == <<"a", "b", "c", "d", "e">>
Calling ==
  LET join == FoldLeft(LAMBDA e, x : Plus(Plus(e, S(",")), V(x)), V("a"), Tail(Many))
      numbers == <<N(1), N(2), N(3), N(4), N(5)>>
  IN <<InMain(<<Fn("f", Many, <<P(join), Let("l", V("e")), Assign("e", V("d")), P(V("l")), Return(V("e"))>>)>>,
           <<P(C("f", numbers)), P(C("f", <<S("one")>>)), P(C("f", numbers \o <<N(6)>>)),
             P(C("f", <<Spread(Array(<<N(8), N(9)>>)), C("f", <<N(0)>>)>>))>>),
       InMain(<<FunctionDeclaration("f", <<"a", "more">>, 2, FALSE, <<P(V("a")), PA(V("more")), Return(Dot(V("more"), "length"))>>)>>,
           <<P(C("f", numbers)), P(C("f", <<>>)), P(C("f", <<Spread(S("s")), Spread(Array(numbers))>>))>>),
       InMain(<<Fn("get", <<"k">>, <<Return(KeyedAccess(This, V("k")))>>), Fn("set", <<"v">>, <<Do(PropertyAssignment(This, "x", V("v"))), Return(None)>>),
             Fn("Point", <<"x">>, <<Do(PropertyAssignment(This, "x", V("x"))), Do(PropertyAssignment(This, "get", V("get"))),
                                    Do(PropertyAssignment(This, "set", V("set"))), Return(V("x"))>>),
             Fn("Other", <<>>, <<Return(Object("x", S("other")))>>)>>,
           <<Let("p", New(V("Point"), <<N(4)>>)), P(Call(Dot(V("p"), "get"), <<S("x")>>)), P(Call(Dot(V("p"), "set"), <<N(5)>>)),
             P(Dot(V("p"), "x")), P(Dot(New(V("Other"), <<>>), "x")), P(Call(Dot(V("p"), "get"), <<Spread(Array(<<S("x")>>))>>)),
             Try(P(New(V("p"), <<>>)), NoName, P(S("no constructor")), None)>>),
       InMain(<<Fn("fib", <<"n">>, <<If(Less(V("n"), N(2)), Return(V("n")), None), P(V("n")),
                                  Return(Plus(C("fib", <<Binary("-", V("n"), N(1))>>), C("fib", <<Binary("-", V("n"), N(2))>>)))>>)>>,
           <<P(C("fib", <<N(4)>>))>>),
       InMain(<<Fn("early", <<"a">>, <<P(V("a")), If(V("a"), Return(N(1)), None)>>)>>,
           <<Do(C("early", <<N(0)>>)), P(C("early", <<N(2)>>))>>),
       InMain(<<Fn("f", <<"a">>, <<Return(Plus(V("a"), S("!")))>>)>>,
           <<Let("o", ObjectLiteral(<<<<"f", V("f")>>, <<"n", Literal(Null)>>>>)), Let("u", Literal(Undefined)),
             P(OptionalPropertyAccess(V("o"), "n")), P(OptionalPropertyAccess(V("u"), "n")),
             P(OptionalKeyedAccess(V("o"), Plus(S("n"), Literal(<<"string", <<>>>>)))), P(OptionalKeyedAccess(Dot(V("o"), "n"), C("f", <<S("never")>>))),
             P(OptionalCall(Dot(V("o"), "f"), <<S("called")>>)), P(OptionalCall(V("u"), <<C("print", <<S("never")>>)>>)),
             P(Unary("typeof", Dot(V("o"), "f"))), P(Dot(V("f"), "name"))>>),
       <<Fn("f", <<"a">>, <<Assign("count", Plus(V("count"), V("a"))), Return(V("count"))>>), Let("count", N(1)),
         Do(C("f", <<N(4)>>)), P(C("f", <<N(0)>>)), Let("i", N(0)),
         While(Less(V("i"), N(2)), Block(<<P(C("f", <<V("i")>>)), Assign("i", Binary("-", V("i"), Unary("-", N(1))))>>)),
         Try(Throw(V("i")), "e", P(V("e")), None), Throw(S("end"))>>>>

(* Generators and iterators. *)
Resumed(g, arguments) == Call(Dot(V(g), "next"), arguments)
Show(e) == Block(<<Let("r", e), P(Dot(V("r"), "value")), P(Dot(V("r"), "done"))>>)
Generating ==
  LET count == Gen("count", <<"n">>, <<Let("i", N(0)), While(Less(V("i"), V("n")), Block(<<Do(Yield(V("i"), FALSE)), Assign("i", Plus(V("i"), N(1)))>>)),
                                        Return(S("end"))>>)
      echo == Gen("echo", <<"a">>, <<P(V("a")), Let("b", Yield(S("first"), FALSE)), P(V("b")), Let("c", Yield(V("b"), FALSE)), P(V("c")), Return(V("c"))>>)
      both == Gen("both", <<>>, <<Let("x", Yield(C("count", <<N(2)>>), TRUE)), Do(Yield(V("x"), FALSE)), Do(Yield(Array(<<N(7), N(8)>>), TRUE))>>)
      fails == Gen("fails", <<>>, <<Do(Yield(N(1), FALSE)), Throw(S("body"))>>)
      self == Gen("self", <<>>, <<P(S("in")), Try(Do(Resumed("it", <<>>)), NoName, P(S("busy")), None), Do(Yield(N(1), FALSE)),
                                  Try(Do(Call(Dot(V("it"), "return"), <<>>)), NoName, P(S("busy")), None), Return(N(2))>>)
      upTo == Fn("upTo", <<>>, <<Do(PropertyAssignment(This, "n", Plus(Dot(This, "n"), N(1)))),
                                 Return(ObjectLiteral(<<<<"value", Dot(This, "n")>>, <<"done", Less(N(2), Dot(This, "n"))>>>>))>>)
      iter == Fn("iter", <<>>, <<P(S("iter")), Return(ObjectLiteral(<<<<"n", N(0)>>, <<"next", V("upTo")>>>>))>>)
  IN <<InMain(<<count>>, <<Let("a", C("count", <<N(3)>>)), Let("b", C("count", <<N(1)>>)), Show(Resumed("a", <<>>)), Show(Resumed("b", <<>>)), Show(Resumed("a", <<>>)),
                        Show(Resumed("b", <<>>)), Show(Resumed("b", <<>>)), ForOf("v", V("a"), P(V("v"))), Show(Resumed("a", <<>>))>>),
       InMain(<<echo>>, <<Let("g", C("echo", <<S("arg")>>)), P(S("created")), Show(Resumed("g", <<S("lost")>>)), Show(Resumed("g", <<N(2)>>)), Show(Resumed("g", <<N(3)>>)),
                       Show(Resumed("g", <<N(4)>>))>>),
       InMain(<<count, both>>, <<ForOf("v", C("both", <<>>), P(V("v")))>>),
       InMain(<<count>>, <<Let("a", C("count", <<N(3)>>)), Show(Resumed("a", <<>>)), Show(Call(Dot(V("a"), "return"), <<N(9)>>)), Show(Resumed("a", <<>>)),
                        Let("b", C("count", <<N(3)>>)), Try(Do(Call(Dot(V("b"), "throw"), <<S("stop")>>)), NoName, P(S("stopped")), None),
                        Show(Resumed("b", <<>>))>>),
       InMain(<<fails>>, <<Let("g", C("fails", <<>>)), Show(Resumed("g", <<>>)), Try(Show(Resumed("g", <<>>)), NoName, P(S("caught")), None)>>),
       <<self, Let("it", C("self", <<>>)), Do(Resumed("it", <<>>)), Do(Resumed("it", <<>>)), Show(Resumed("it", <<>>))>>,
       InMain(<<upTo, iter>>, <<Let("o", ObjectLiteral(<<<<"", ComputedProperty(S("Symbol(Symbol.iterator)"), V("iter"))>>>>)), ForOf("v", V("o"), P(V("v"))),
                             ForOf("w", N(5), P(S("never"))), P(S("over"))>>)>>

(* Loops on integers, with a body that is decoded or not, and recursion.   *)
Advance == Assign("i", Plus(V("i"), N(1)))
Adds(e) == Assign("s", Plus(V("s"), e))
Times(a, b) == Binary("*", a, b)
Bodies ==
  <<<<Adds(V("i"))>>, <<Assign("s", Binary("%", Plus(V("s"), V("i")), V("m")))>>,
    <<Assign("s", Binary("%", Plus(V("s"), Times(Binary("^", V("i"), N(5)), N(3))), V("m")))>>,
    <<Advance, Adds(Times(V("i"), V("i"))), Assign("i", Binary("-", V("i"), N(1)))>>,
    <<If(Is(V("i"), N(2)), Adds(N(1000)), None), Adds(Binary("&", V("i"), N(1)))>>,
    <<If(Binary("&", V("i"), N(1)), Block(<<Adds(N(10)), If(Is(V("i"), V("m")), Adds(N(7)), None)>>), None), Assign("s", Binary("|", V("s"), V("i")))>>,
    <<Do(KeyedAssignment(V("a"), V("i"), Times(V("i"), V("i")))), Adds(Item("a", V("i")))>>,
    <<Do(Call(Dot(V("b"), "push"), <<Plus(V("s"), V("i"))>>)), Assign("s", Binary("-", V("s"), V("i")))>>,
    <<Let("o", ObjectLiteral(<<<<"x", V("i")>>, <<"y", V("s")>>>>)), Do(PropertyAssignment(V("o"), "x", Plus(Dot(V("o"), "x"), N(1)))),
      Adds(Dot(V("o"), "x"))>>,
    <<Adds(V("i")), PA(V("i"))>>, <<If(Is(V("i"), N(1)), Adds(N(4)), Adds(N(5)))>>, <<Adds(Dot(V("a"), "length"))>>>>
Looping ==
  LET Setup == <<Let("i", N(0)), Let("s", N(3)), Let("m", N(7)), Let("n", N(4)), Let("a", Array(<<N(5), N(6), N(7), N(8), N(9)>>)), Let("b", Array(<<>>))>>
      Done == <<P(V("i")), P(V("s")), PA(V("a")), PA(V("b")), P(V("n"))>>
      Limits == <<Less(V("i"), N(4)), Binary("<=", V("i"), V("n")), Less(V("i"), Dot(V("a"), "length"))>>
      fib == Fn("fib", <<"n">>, <<If(Binary("<=", V("n"), N(1)), Return(V("n")), None),
                                  Return(Plus(C("fib", <<Binary("-", V("n"), N(1))>>), C("fib", <<Binary("-", V("n"), N(2))>>)))>>)
      base == Fn("base", <<"n">>, <<If(Less(V("n"), N(3)), Return(V("n")), None), Return(Times(C("fib", <<V("n")>>), N(2)))>>)
  IN Product(Bodies, Limits, LAMBDA body, limit : InMain(<<>>, Setup \o <<While(limit, Block(body \o <<Advance>>))>> \o Done))
     \o <<InMain(<<fib, base>>, <<P(C("fib", <<N(7)>>)), P(C("fib", <<N(1)>>)), P(C("fib", <<Literal(Bool(TRUE))>>)), P(C("base", <<N(2)>>)), P(C("base", <<N(6)>>)),
                                   Let("o", Object("f", V("fib"))), P(Call(Dot(V("o"), "f"), <<N(4)>>)), P(C("fib", <<N(3), N(9)>>))>>),
           InMain(<<>>, Setup \o <<Assign("i", Literal(Bool(FALSE))), While(Less(V("i"), N(1)), Block(<<Adds(N(1)), If(Is(V("s"), N(6)), Assign("i", Literal(Bool(TRUE))), None)>>))>> \o Done)>>

Scripts == Leavings \o Handlings \o Operations \o Applications \o Data \o Calling \o Generating \o Looping
================================================================================
