--------------------------------- MODULE Writer ---------------------------------
(***************************************************************************)
(* Trees written as text, by the grammar of ECMAScript: each production    *)
(* has a level, and an expression is parenthesized where its level is too  *)
(* low for its place.  Style 0 leaves out every blank and semicolon that   *)
(* may be left out, style 1 has comments and lines everywhere and says     *)
(* x = x + 1 as ++x and x = x - e as x -= e.                               *)
(***************************************************************************)
EXTENDS Scanner

(* Source text as pieces. *)
Pieces(source) ==
  LET IsMark(i) == SubSeq(source, i, i) \in Marks
      starts == SelectSeq([i \in 1..Len(source) |-> i], LAMBDA i : i = 1 \/ IsMark(i) \/ IsMark(i - 1))
      End(k) == IF k = Len(starts) THEN Len(source) ELSE starts[k + 1] - 1
  IN [k \in DOMAIN starts |-> SubSeq(source, starts[k], End(k))]

(* Written tokens: words, digits and operators as they are, strings as     *)
(* pairs.                                                                  *)
Quote(atoms) == <<"'">> \o atoms \o <<"'">>
IsOperator(t) == t \in Operators
Characters(t) == IF t \in Operators THEN [i \in 1..Len(t) |-> SubSeq(t, i, i)] ELSE <<t>>
Brackets == {"(", ")", "[", "]", "{", "}", ",", ";", ":", "'"}
Gap(style, a, b) ==
  IF style = 1 THEN IF a \in {";", "{", "}"} THEN <<"/", "/", "'", "\n">> ELSE <<" ", "/", "*", "'", "*", "/">>
  ELSE IF {a, b} \cap Brackets = {} /\ (IsOperator(a) <=> IsOperator(b)) THEN <<" ">> ELSE <<>>

-----------------------------------------------------------------------------
(* Levels: 1 assignment, 2 conditional, 3 to 14 the binary operators, 15   *)
(* unary, 16 update, 17 call and member, 18 primary.                       *)
BinaryLevels ==
  <<{}, {}, {"??"}, {"||"}, {"&&"}, {"|"}, {"^"}, {"&"}, {"==", "!=", "===", "!=="},
    {"<", "<=", ">", ">=", "instanceof", "in"}, {"<<", ">>", ">>>"}, {"+", "-"}, {"*", "/", "%"}, {"**"}>>
LevelOf(op) == CHOOSE n \in DOMAIN BinaryLevels : op \in BinaryLevels[n]
Level(e) ==
  CASE e.kind \in {"Assignment", "PropertyAssignment", "KeyedAssignment", "ArrayDestructureAssignment",
                   "ObjectDestructureAssignment", "Yield"} -> 1
    [] e.kind = "Conditional" -> 2
    [] e.kind = "Binary" -> LevelOf(e.op)
    [] e.kind \in {"Unary", "Await"} -> 15
    [] e.kind \in {"Call", "New", "PropertyAccess", "KeyedAccess", "OptionalCall", "OptionalPropertyAccess", "OptionalKeyedAccess"} -> 17
    [] e.kind = "Literal" /\ e.value[1] = "number" -> 16   \* so that no property follows the digits
    [] OTHER -> 18
LeftLevel(op) == IF op = "**" THEN 16 ELSE LevelOf(op)
RightLevel(op) == IF op = "**" THEN 14 ELSE IF op = "??" THEN 6 ELSE LevelOf(op) + 1
IsDotted(e) == e.kind = "Variable" \/ (e.kind = "PropertyAccess" /\ e.object.kind = "Variable")

Commas(lists) == FlattenSeq([i \in DOMAIN lists |-> (IF i = 1 THEN <<>> ELSE <<",">>) \o lists[i]])
Bracketed(open, tokens, close) == <<open>> \o tokens \o <<close>>
LiteralTokens(v) ==
  CASE v[1] = "number" -> <<ToString(v[2])>>
    [] v[1] = "string" -> Quote(v[2])
    [] v[1] = "boolean" -> <<IF v[2] THEN "true" ELSE "false">>
    [] OTHER -> <<v[1]>>   \* null, undefined

RECURSIVE Written(_, _, _)   \* an expression at a place of a level
Assigned(style, target, e, place) ==   \* target is a tree, e its new value
  LET short == style = 1 /\ e.kind = "Binary" /\ e.left = target /\ e.op \notin BinaryLevels[9] \cup BinaryLevels[10]
  IN IF short /\ e.op = "+" /\ e.right = Literal(Smi(1)) /\ target.kind = "Variable" THEN <<"++">> \o place
     ELSE place \o (IF short THEN <<e.op \o "=">> \o Written(style, e.right, 1) ELSE <<"=">> \o Written(style, e, 1))
Arguments(style, args) == Commas([i \in DOMAIN args |-> Written(style, args[i], 1)])
Pair(style, p) ==
  CASE p[2].kind = "Spread" -> Written(style, p[2], 1)
    [] p[2].kind = "ComputedProperty" ->
         Bracketed("[", Written(style, p[2].key, 1), "]") \o <<":">> \o Written(style, p[2].value, 1)
    [] OTHER -> <<p[1], ":">> \o Written(style, p[2], 1)
Pairs(style, ps) == Bracketed("{", Commas([i \in DOMAIN ps |-> Pair(style, ps[i])]), "}")

Bare(style, e) ==
  LET W(x, level) == Written(style, x, level)
  IN CASE e.kind = "Literal" -> LiteralTokens(e.value)
       [] e.kind = "Variable" -> <<e.name>>
       [] e.kind = "This" -> <<"this">>
       [] e.kind = "Binary" -> W(e.left, LeftLevel(e.op)) \o <<e.op>> \o W(e.right, RightLevel(e.op))
       [] e.kind = "Unary" -> <<e.op>> \o W(e.expr, 15)
       [] e.kind = "Await" -> <<"await">> \o W(e.expr, 15)
       [] e.kind = "Conditional" -> W(e.condition, 3) \o <<"?">> \o W(e.then, 1) \o <<":">> \o W(e.else, 1)
       [] e.kind = "Yield" -> <<"yield">> \o (IF e.delegate THEN <<"*">> ELSE <<>>) \o W(e.value, 1)
       [] e.kind = "Spread" -> <<"...">> \o W(e.expr, 1)
       [] e.kind = "Assignment" -> Assigned(style, Variable(e.target), e.value, <<e.target>>)
       [] e.kind = "PropertyAssignment" ->
            Assigned(style, PropertyAccess(e.object, e.property), e.value, W(e.object, 17) \o <<".", e.property>>)
       [] e.kind = "KeyedAssignment" ->
            Assigned(style, KeyedAccess(e.object, e.key), e.value, W(e.object, 17) \o Bracketed("[", W(e.key, 1), "]"))
       [] e.kind = "ArrayDestructureAssignment" -> Bracketed("[", Arguments(style, e.targets), "]") \o <<"=">> \o W(e.value, 1)
       [] e.kind = "ObjectDestructureAssignment" -> Pairs(style, e.pairs) \o <<"=">> \o W(e.value, 1)
       [] e.kind = "Call" -> W(e.callee, 17) \o Bracketed("(", Arguments(style, e.arguments), ")")
       [] e.kind = "New" -> <<"new">> \o (IF IsDotted(e.callee) THEN W(e.callee, 17) ELSE Bracketed("(", W(e.callee, 1), ")"))
                                      \o Bracketed("(", Arguments(style, e.arguments), ")")
       [] e.kind = "PropertyAccess" -> W(e.object, 17) \o <<".", e.property>>
       [] e.kind = "KeyedAccess" -> W(e.object, 17) \o Bracketed("[", W(e.key, 1), "]")
       [] e.kind = "OptionalPropertyAccess" -> W(e.object, 17) \o <<"?.", e.property>>
       [] e.kind = "OptionalKeyedAccess" -> W(e.object, 17) \o <<"?.">> \o Bracketed("[", W(e.key, 1), "]")
       [] e.kind = "OptionalCall" -> W(e.callee, 17) \o <<"?.">> \o Bracketed("(", Arguments(style, e.arguments), ")")
       [] e.kind = "ArrayLiteral" -> Bracketed("[", Arguments(style, e.elements), "]")
       [] e.kind = "ObjectLiteral" -> Pairs(style, e.properties)
Written(style, e, level) == IF Level(e) < level THEN Bracketed("(", Bare(style, e), ")") ELSE Bare(style, e)

-----------------------------------------------------------------------------
Label(name) == IF name = NoName THEN <<>> ELSE <<name>>
Optional(style, e) == IF e.kind = "None" THEN <<>> ELSE Written(style, e, 1)
Header(word, tokens) == <<word>> \o Bracketed("(", tokens, ")")
ParameterTokens(s) == Commas([i \in DOMAIN s.params |-> IF i = s.rest THEN <<"...", s.params[i]>> ELSE <<s.params[i]>>])

RECURSIVE WrittenStatement(_, _)
WrittenAll(style, statements) == FlattenSeq([i \in DOMAIN statements |-> WrittenStatement(style, statements[i])])
SimpleKinds == {"Expression", "VariableDeclaration", "DoWhile", "Break", "Continue", "Throw", "Return"}
Enclosed(style, statements) ==
  LET tokens == WrittenAll(style, statements)
      short == style = 0 /\ statements # <<>> /\ Last(statements).kind \in SimpleKinds
  IN Bracketed("{", IF short THEN Front(tokens) ELSE tokens, "}")
Simple(style, s) ==   \* what a semicolon ends
  LET W(x) == Written(style, x, 1)
  IN CASE s.kind = "Expression" -> IF Head(W(s.expr)) = "{" THEN Bracketed("(", W(s.expr), ")") ELSE W(s.expr)
       [] s.kind = "VariableDeclaration" -> <<"let", s.name>> \o (IF s.init.kind = "None" THEN <<>> ELSE <<"=">> \o W(s.init))
       [] s.kind = "DoWhile" -> <<"do">> \o WrittenStatement(style, s.body) \o Header("while", W(s.condition))
       [] s.kind = "Break" -> <<"break">> \o Label(s.label)
       [] s.kind = "Continue" -> <<"continue">> \o Label(s.label)
       [] s.kind = "Throw" -> <<"throw">> \o W(s.expr)
       [] s.kind = "Return" -> <<"return">> \o Optional(style, s.expr)
       [] s.kind = "Empty" -> <<>>
Case(style, c) ==
  (IF c.test.kind = "None" THEN <<"default", ":">> ELSE <<"case">> \o Written(style, c.test, 1) \o <<":">>)
  \o WrittenAll(style, c.statements)
WrittenStatement(style, s) ==
  LET W(x) == Written(style, x, 1)
      S(x) == WrittenStatement(style, x)
  IN CASE s.kind = "Block" -> Enclosed(style, s.statements)
       [] s.kind = "If" -> Header("if", W(s.condition)) \o S(s.then) \o (IF s.else.kind = "None" THEN <<>> ELSE <<"else">> \o S(s.else))
       [] s.kind = "While" -> Header("while", W(s.condition)) \o S(s.body)
       [] s.kind = "For" ->
            Header("for", (IF s.init.kind = "None" THEN <<>> ELSE Simple(style, s.init)) \o <<";">> \o Optional(style, s.condition)
                          \o <<";">> \o Optional(style, s.update)) \o S(s.body)
       [] s.kind = "ForOf" -> Header("for", <<"let", s.name, "of">> \o W(s.iterable)) \o S(s.body)
       [] s.kind = "ForIn" -> Header("for", <<"let", s.name, "in">> \o W(s.object)) \o S(s.body)
       [] s.kind = "Switch" ->
            Header("switch", W(s.discriminant)) \o Bracketed("{", FlattenSeq([i \in DOMAIN s.cases |-> Case(style, s.cases[i])]), "}")
       [] s.kind = "Labeled" -> <<s.label, ":">> \o S(s.body)
       [] s.kind = "With" -> Header("with", W(s.object)) \o S(s.body)
       [] s.kind = "TryCatch" ->
            <<"try">> \o S(s.try)
            \o (IF s.catch.kind = "None" THEN <<>>
                ELSE <<"catch">> \o (IF s.param = NoName THEN <<>> ELSE Bracketed("(", <<s.param>>, ")")) \o S(s.catch))
            \o (IF s.finally.kind = "None" THEN <<>> ELSE <<"finally">> \o S(s.finally))
       [] s.kind = "FunctionDeclaration" ->
            <<"function">> \o (IF s.generator THEN <<"*">> ELSE <<>>) \o <<s.name>>
            \o Bracketed("(", ParameterTokens(s), ")") \o Enclosed(style, s.body)
       [] OTHER -> Simple(style, s) \o <<";">>

(* Tokens with what separates them, which is nothing inside of a string.   *)
(* The halves of a long text are joined, so that TLC never goes deep.      *)
RECURSIVE Halves(_, _, _)
Halves(parts, from, to) ==
  IF from > to THEN <<>> ELSE IF from = to THEN parts[from]
  ELSE LET middle == (from + to) \div 2 IN Halves(parts, from, middle) \o Halves(parts, middle + 1, to)
TextFrom(style, tokens) ==
  LET Inside(i) == Cardinality({j \in 1..(i - 1) : tokens[j] = "'"}) % 2 = 1
      Part(i) == IF Inside(i) THEN <<tokens[i]>>
                 ELSE (IF i = 1 THEN <<>> ELSE Gap(style, tokens[i - 1], tokens[i])) \o Characters(tokens[i])
  IN Halves([i \in DOMAIN tokens |-> Part(i)], 1, Len(tokens))
TextOf(style, statements) == TextFrom(style, WrittenAll(style, statements))
=============================================================================
