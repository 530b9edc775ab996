-------------------------------- MODULE Parser --------------------------------
(***************************************************************************)
(* The parser of src/src/parsing/parser.rs, which turns tokens into the    *)
(* trees of Ast and writes much of the language in terms of the rest:      *)
(* compound assignments, ++ and --, patterns, default parameters,          *)
(* templates, function expressions, and using.                             *)
(*                                                                         *)
(* A parser p is its scanner with the token it stands on, the functions it *)
(* has met in expressions, which come first in the program, the number of  *)
(* names it has made up, the private names of the classes around, whether  *)
(* it failed, and the value of what it parsed last.  A token further on is *)
(* scanned again when it is needed.  One that failed stands at the end of  *)
(* its text.                                                               *)
(***************************************************************************)
EXTENDS Scanner

NewParser(text) ==
  [text |-> text, at |-> 1, braces |-> 0, templates |-> <<>>, token |-> <<"Eos">>,
   anon |-> 0, functions |-> <<>>, privates |-> <<>>, failed |-> FALSE, value |-> None]

At(p, type) == p.token[1] = type
Within(p, types) == p.token[1] \in types
Fail(p) == [p EXCEPT !.failed = TRUE, !.token = <<"Eos">>, !.value = None]
Give(p, value) == IF p.failed THEN p ELSE [p EXCEPT !.value = value]

(* Goals: what Parse looks for. *)
Goal(what) == [what |-> what]
RECURSIVE Parse(_, _)
Advance(p) == Parse(p, Goal("Advance"))
Ahead(p) == Advance(p).token[1]   \* peek_token
Consume(p, type) == IF At(p, type) THEN Advance(p) ELSE Fail(p)
Skip(p, type) == IF At(p, type) THEN Advance(p) ELSE p   \* match_token
Semicolon(p) == Skip(p, ";")   \* which may be missing anywhere

Statement(p) == Parse(p, Goal("Statement"))
Precedence1(p, level) == Parse(p, [what |-> "Precedence", level |-> level])
Expression(p) == Precedence1(p, 2)
Primary(p) == Parse(p, Goal("Primary"))
Climb(p, level) == Parse(p, [what |-> "Climb", level |-> level])
BlockStatement(p) == Parse(p, Goal("Block"))
Statements(p, stops) == Parse(p, [what |-> "Statements", stops |-> stops])
Items(p, close, item) == Parse(p, [what |-> "Items", close |-> close, item |-> item])

(* Opened, then items up to the closing token.                             *)
Listed(p, open, close, item) == Consume(Items(Consume(p, open), close, item), close)
Parenthesized(p) == Consume(Expression(Consume(p, "(")), ")")
Braced(p) == Consume(Statements(Consume(p, "{"), {"}", "Eos"}), "}")

-----------------------------------------------------------------------------
(* Names *)

Joined(pieces) == FoldLeft(LAMBDA text, piece : text \o piece, "", pieces)
Name(p) == IF At(p, "Identifier") THEN Give(Advance(p), p.token[2]) ELSE Fail(p)
IsPrivate(token) == token[1] = "Identifier" /\ Len(token) = 3
InScope(p, name) == \E i \in DOMAIN p.privates : name \in p.privates[i]
Word(p, word) == IF p.token = <<"Identifier", word>> THEN Advance(p) ELSE Fail(p)

(* A private name must be one of the classes around, and so must a string  *)
(* that looks like one.                                                    *)
PropertyName(p) ==
  LET private == IsPrivate(p.token) \/ (At(p, "String") /\ p.token[2] # <<>> /\ p.token[2][1] = "#")
      name == CASE Within(p, {"String", "Number"}) -> Give(Advance(p), Joined(p.token[2]))
                [] Within(p, Keywords) -> Give(Advance(p), p.token[1])
                [] OTHER -> Name(p)
  IN IF private /\ ~InScope(p, name.value) THEN Fail(p) ELSE name

Count(p) == IF p.failed THEN p ELSE [p EXCEPT !.anon = @ + 1]
MadeUp(what, n) == "__" \o what \o "_" \o ToString(n) \o "__"
Anonymous(p, what) == Give(Count(p), MadeUp("anon_" \o what, Count(p).anon))
Hoist(p, function) ==
  IF p.failed THEN p ELSE [p EXCEPT !.functions = Append(@, function), !.value = Variable(function.name)]

-----------------------------------------------------------------------------
(* Patterns: names with defaults, and the rest of a list as its last item. *)

Binding(name, rest, default) == [name |-> name, rest |-> rest, default |-> default]
ParseDefault(p) == IF At(p, "=") THEN Expression(Advance(p)) ELSE Give(p, None)
ParseBinding(p) ==
  IF At(p, "...") THEN LET n == Name(Advance(p)) IN Give(n, Binding(n.value, TRUE, None))
  ELSE LET n == Name(p)
           d == ParseDefault(n)
       IN Give(d, Binding(n.value, FALSE, d.value))
ParsePropertyBinding(p) ==
  LET k == PropertyName(p)
      n == IF At(k, ":") THEN Name(Advance(k)) ELSE k
      d == ParseDefault(n)
  IN Give(d, [key |-> k.value, name |-> n.value, default |-> d.value])

Defaulted(b) ==
  IF b.default.kind = "None" THEN <<>>
  ELSE <<If(Binary("===", Variable(b.name), Literal(Undefined)), ExpressionStatement(Assignment(b.name, b.default)), None)>>
Prologue(bindings) == FlattenSeq([i \in DOMAIN bindings |-> Defaulted(bindings[i])])
NamesOf(bindings) == [i \in DOMAIN bindings |-> bindings[i].name]
Function(name, bindings, generator, body) ==
  FunctionDeclaration(name, NamesOf(bindings),
    IF bindings # <<>> /\ Last(bindings).rest THEN Len(bindings) ELSE 0, generator, body)
Plain(names) == [i \in DOMAIN names |-> Binding(names[i], FALSE, None)]

ElementOf(from, i, b) ==
  IF b.rest THEN <<VariableDeclaration(b.name, Call(PropertyAccess(Variable(from), "slice"), <<Literal(Smi(i - 1))>>))>>
  ELSE <<VariableDeclaration(b.name, KeyedAccess(Variable(from), Literal(Smi(i - 1))))>> \o Defaulted(b)
PropertyOf(from, b) == <<VariableDeclaration(b.name, PropertyAccess(Variable(from), b.key))>> \o Defaulted(b)

(* The value is kept under a name of its own and taken apart.              *)
Destructured(p, what) ==   \* by the bindings that are the value of p
  LET init == Count(Semicolon(Expression(Consume(p, "="))))
      from == MadeUp(what, init.anon)
      Taken(i) == IF what = "destruct_arr" THEN ElementOf(from, i, p.value[i]) ELSE PropertyOf(from, p.value[i])
  IN Give(init, Block(<<VariableDeclaration(from, init.value)>> \o FlattenSeq([i \in DOMAIN p.value |-> Taken(i)])))

ParseVariable(p) ==   \* behind the keyword
  IF At(p, "[") THEN Destructured(Listed(p, "[", "]", "Binding"), "destruct_arr")
  ELSE IF At(p, "{") THEN Destructured(Listed(p, "{", "}", "PropertyBinding"), "destruct_obj")
  ELSE LET n == Name(p)
           init == Semicolon(ParseDefault(n))
       IN Give(init, VariableDeclaration(n.value, init.value))

-----------------------------------------------------------------------------
(* using: the statements from the first one on become the body of a try    *)
(* statement that disposes of a stack in the end.                          *)

IsUsing(s) == s.kind = "UsingDeclaration"
HoldsUsing(s) == s.kind = "Block" /\ \E i \in DOMAIN s.statements : IsUsing(s.statements[i])
DesugarUsing(p) ==   \* of the statements that are the value of p
  LET flat == FlattenSeq([i \in DOMAIN p.value |-> IF HoldsUsing(p.value[i]) THEN p.value[i].statements ELSE <<p.value[i]>>])
      uses == {i \in DOMAIN flat : IsUsing(flat[i])}
      first == CHOOSE i \in uses : \A j \in uses : i <= j
      awaits == \E i \in uses : flat[i].await
      stack == Variable(MadeUp("using_stack", p.anon + 1))
      Used(s) == IF IsUsing(s) THEN VariableDeclaration(s.name, Call(PropertyAccess(stack, "use"), <<s.init>>)) ELSE s
      dispose == Call(PropertyAccess(stack, IF awaits THEN "disposeAsync" ELSE "dispose"), <<>>)
  IN IF p.failed \/ uses = {} THEN p
     ELSE Give(Count(p),
            SubSeq(flat, 1, first - 1)
            \o <<VariableDeclaration(stack.name, New(Variable(IF awaits THEN "AsyncDisposableStack" ELSE "DisposableStack"), <<>>)),
                 TryCatch(Block([i \in 1..(Len(flat) - first + 1) |-> Used(flat[first + i - 1])]), NoName, None,
                          ExpressionStatement(IF awaits THEN Await(dispose) ELSE dispose))>>)

ParseUsed(p) ==
  LET n == Name(p)
      init == Expression(Consume(n, "="))
  IN Give(init, [name |-> n.value, init |-> init.value])
ParseUsing(p, await) ==   \* behind using
  LET list == Semicolon(Parse(p, Goal("Used")))
      Declared(u) == UsingDeclaration(u.name, u.init, await)
  IN Give(list, IF Len(list.value) = 1 THEN Declared(list.value[1])
                ELSE Block([i \in DOMAIN list.value |-> Declared(list.value[i])]))

ParseBlock(p) == LET b == DesugarUsing(Braced(p)) IN Give(b, Block(b.value))

-----------------------------------------------------------------------------
(* Functions *)

Parameters(p) == Listed(p, "(", ")", "Binding")
ParseFunctionDeclaration(p, async) ==
  LET name == Name(Skip(Consume(p, "function"), "*"))
      params == Parameters(name)
      body == Braced(params)
      all == DesugarUsing(Give(body, Prologue(params.value) \o body.value))
      f == Function(name.value, params.value, Ahead(p) = "*", all.value)
  IN Give(all, IF async THEN Async(f) ELSE f)

ParseFunction(p, async) ==   \* an expression, on the keyword function
  LET start == Skip(Advance(p), "*")
      name == IF At(start, "Identifier") THEN Name(start) ELSE Anonymous(start, IF async THEN "async_fn" ELSE "fn")
      params == Parameters(name)
      body == Braced(params)
      f == Function(name.value, params.value, Ahead(p) = "*", Prologue(params.value) \o body.value)
  IN Hoist(body, IF async THEN Async(f) ELSE f)

ParseArrow(p, bindings) ==   \* behind the arrow
  LET value == Expression(p)
      body == IF At(p, "{") THEN Braced(p) ELSE Give(value, <<Return(value.value)>>)
      name == Anonymous(body, "arrow")
  IN Hoist(name, Function(name.value, bindings, FALSE, Prologue(bindings) \o body.value))

(* A parenthesis is first taken for the parameters of an arrow function.   *)
(* When that fails the tokens are read again, but functions met on the way *)
(* stay, and so does the count of names.                                   *)
ParseParenthesis(p) ==
  LET params == Listed(p, "(", ")", "Binding")
      arrow == Consume(params, "=>")
      again == [arrow EXCEPT !.at = p.at, !.braces = p.braces, !.templates = p.templates, !.token = p.token, !.failed = FALSE]
  IN IF arrow.failed THEN Parenthesized(again) ELSE ParseArrow(arrow, params.value)

ParseMethod(p, what) ==   \* of an object literal
  LET params == Listed(p, "(", ")", "Name")
      body == DesugarUsing(Braced(params))
      name == Anonymous(body, what)
  IN Hoist(name, Function(name.value, Plain(params.value), FALSE, body.value))

-----------------------------------------------------------------------------
(* Classes *)

(* The private names that are declared in a class body, which starts with  *)
(* the token of p, found by scanning ahead to its end.                     *)
RECURSIVE NamesAhead(_, _)
NamesAhead(s, depth) ==
  LET next == Advance(s)
  IN CASE At(next, "Eos") \/ (At(next, "}") /\ depth = 1) -> {}
       [] At(next, "{") -> NamesAhead(next, depth + 1)
       [] At(next, "}") /\ depth > 1 -> NamesAhead(next, depth - 1)
       [] IsPrivate(next.token) /\ depth = 1 -> {next.token[2]} \cup NamesAhead(next, depth)
       [] OTHER -> NamesAhead(next, depth)
PrivateNames(p) == (IF IsPrivate(p.token) THEN {p.token[2]} ELSE {}) \cup NamesAhead(p, 1)

ParseClass(p) ==
  LET name == Name(Consume(p, "class"))
      super == IF At(name, "extends") THEN Name(Advance(name)) ELSE Give(name, NoName)
      start == Consume(super, "{")
      class == ClassDeclaration(name.value, super.value)
      inside == IF start.failed THEN start
                ELSE [start EXCEPT !.privates = Append(@, PrivateNames(start)), !.value = class]
      body == Parse(inside, Goal("Members"))
      end == Consume(body, "}")
  IN IF end.failed THEN end ELSE [end EXCEPT !.privates = Front(@)]

(* The next member, added to the class that is the value of p.             *)
ParseMember(p) ==
  LET class == p.value
      static == At(p, "static") /\ Ahead(p) \notin {"(", "=", ";", "}"}
      inner == IF static THEN Advance(p) ELSE p
      accessor == \E word \in {"get", "set"} : inner.token = <<"Identifier", word>> /\ Ahead(inner) \notin {"(", "=", ";"}
      name == PropertyName(IF accessor THEN Advance(inner) ELSE inner)
      params == Listed(name, "(", ")", "Name")
      body == Braced(params)
      init == IF At(name, "=") THEN Expression(Advance(name)) ELSE Give(name, None)
      method == ClassMethod(name.value, params.value, body.value, static, IF accessor THEN inner.token[2] ELSE NoName)
  IN IF At(p, ";") THEN Advance(p)
     ELSE IF At(p, "static") /\ Ahead(p) = "{"
     THEN LET block == Braced(Advance(p)) IN Give(block, [class EXCEPT !.static_blocks = Append(@, block.value)])
     ELSE IF ~At(name, "(")
     THEN Give(Semicolon(init), [class EXCEPT !.fields = Append(@, ClassField(name.value, init.value, static))])
     ELSE IF name.value = "constructor" /\ ~static
     THEN Give(body, [class EXCEPT !.constructor = method])
     ELSE Give(body, [class EXCEPT !.methods = Append(@, method)])

-----------------------------------------------------------------------------
(* Modules *)

ParseSpecifier(p) ==
  LET name == Name(p)
      as == IF name.token = <<"Identifier", "as">> THEN Name(Advance(name)) ELSE name
  IN Give(as, <<name.value, as.value>>)
ModuleName(p) == IF At(p, "String") THEN Give(Advance(p), Joined(p.token[2])) ELSE Fail(p)

ParseImport(p) ==   \* behind import
  LET default == IF At(p, "Identifier") THEN <<<<"default", p.token[2]>>>> ELSE <<>>
      start == IF At(p, "Identifier") THEN Skip(Advance(p), ",") ELSE p
      star == Name(Word(Advance(start), "as"))
      names == IF At(start, "*") THEN Give(star, <<<<"*", star.value>>>>)
               ELSE IF At(start, "{") THEN Listed(start, "{", "}", "Specifier") ELSE Give(start, <<>>)
      module == Semicolon(ModuleName(Word(names, "from")))
  IN IF At(p, "String") THEN LET bare == Semicolon(ModuleName(p)) IN Give(bare, ImportDeclaration(bare.value, <<>>))
     ELSE Give(module, ImportDeclaration(module.value, default \o names.value))

ExportDefault(p) ==
  LET d == IF Within(p, {"function", "class"}) THEN Statement(p)
           ELSE LET e == Semicolon(Expression(p)) IN Give(e, ExpressionStatement(e.value))
  IN Give(d, ExportDeclaration(NoName, <<<<"default", "default">>>>, d.value, TRUE))
ExportAll(p) ==
  LET module == Semicolon(ModuleName(Word(p, "from")))
  IN Give(module, ExportDeclaration(module.value, <<<<"*", "*">>>>, None, FALSE))
ExportNames(p) ==
  LET names == Listed(p, "{", "}", "Specifier")
      module == IF names.token = <<"Identifier", "from">> THEN ModuleName(Advance(names)) ELSE Give(names, NoName)
  IN Give(Semicolon(module), ExportDeclaration(module.value, names.value, None, FALSE))
ExportDeclared(p) ==
  LET d == IF At(p, "async") THEN ParseFunctionDeclaration(Advance(p), TRUE) ELSE Statement(p)
      names == IF d.value.kind = "Block" THEN <<>> ELSE <<<<d.value.name, d.value.name>>>>
  IN Give(d, ExportDeclaration(NoName, names, d.value, FALSE))
ParseExport(p) ==   \* behind export
  CASE At(p, "default") -> ExportDefault(Advance(p))
    [] At(p, "*") -> ExportAll(Advance(p))
    [] Within(p, {"const", "let", "var", "function", "class", "async"}) -> ExportDeclared(p)
    [] At(p, "{") -> ExportNames(p)
    [] OTHER -> Fail(p)

-----------------------------------------------------------------------------
(* Statements *)

ParseIf(p) ==
  LET condition == Parenthesized(Advance(p))
      then == Statement(condition)
      else == IF At(then, "else") THEN Statement(Advance(then)) ELSE Give(then, None)
  IN Give(else, If(condition.value, then.value, else.value))
ParseWhile(p) ==
  LET condition == Parenthesized(Advance(p))
      body == Statement(condition)
  IN Give(body, While(condition.value, body.value))
ParseDo(p) ==
  LET body == Statement(Advance(p))
      condition == Parenthesized(Consume(body, "while"))
  IN Give(Semicolon(condition), DoWhile(body.value, condition.value))
ParseWith(p) ==
  LET object == Parenthesized(Advance(p))
      body == Statement(object)
  IN Give(body, With(object.value, body.value))

(* A loop over something, on the word in or of.  A name without a          *)
(* declaration never gets here with in, which the expression takes.        *)
ParseEach(p, name, awaits) ==
  LET over == Expression(Advance(p))
      body == Statement(Consume(over, ")"))
      loop == ForOf(name, over.value, body.value)
  IN Give(body, IF At(p, "in") THEN ForIn(name, over.value, body.value) ELSE IF awaits THEN Async(loop) ELSE loop)
ParseForRest(p, init) ==   \* behind the first semicolon
  LET condition == Consume(IF At(p, ";") THEN Give(p, None) ELSE Expression(p), ";")
      update == Consume(IF At(condition, ")") THEN Give(condition, None) ELSE Expression(condition), ")")
      body == Statement(update)
  IN Give(body, For(init, condition.value, update.value, body.value))
ParseFor(p) ==
  LET awaits == Ahead(p) = "await"
      start == Consume(Skip(Advance(p), "await"), "(")
      name == Name(Advance(start))
      declared == ParseDefault(name)
      first == Expression(start)
  IN CASE Within(start, {"var", "let", "const"}) ->
            IF Within(name, {"in", "of"}) THEN ParseEach(name, name.value, awaits)
            ELSE ParseForRest(Consume(declared, ";"), VariableDeclaration(name.value, declared.value))
       [] At(start, ";") -> ParseForRest(Advance(start), None)
       [] OTHER ->
            IF first.value.kind = "Variable" /\ Within(first, {"in", "of"}) THEN ParseEach(first, first.value.name, awaits)
            ELSE ParseForRest(Consume(first, ";"), ExpressionStatement(first.value))

ParseCases(p) ==
  LET test == IF At(p, "case") THEN Expression(Advance(p)) ELSE Give(Consume(p, "default"), None)
      body == Statements(Consume(test, ":"), {"case", "default", "}", "Eos"})
      rest == Parse(body, Goal("Cases"))
  IN IF Within(p, {"}", "Eos"}) THEN Give(p, <<>>)
     ELSE Give(rest, <<SwitchCase(test.value, body.value)>> \o rest.value)
ParseSwitch(p) ==
  LET discriminant == Parenthesized(Advance(p))
      cases == Consume(Parse(Consume(discriminant, "{"), Goal("Cases")), "}")
  IN Give(cases, Switch(discriminant.value, cases.value))

ParseTry(p) ==
  LET try == BlockStatement(Advance(p))
      open == Skip(try, "catch")
      param == IF At(try, "catch") /\ At(open, "(") THEN Consume(Name(Advance(open)), ")") ELSE Give(open, NoName)
      catch == IF At(try, "catch") THEN BlockStatement(param) ELSE Give(param, None)
      finally == IF At(catch, "finally") THEN BlockStatement(Advance(catch)) ELSE Give(catch, None)
  IN IF ~At(try, "catch") /\ ~At(catch, "finally") THEN Fail(finally)
     ELSE Give(finally, TryCatch(try.value, param.value, catch.value, finally.value))

ParseLeave(p) ==   \* break or continue
  LET label == IF At(Advance(p), "Identifier") THEN Name(Advance(p)) ELSE Give(Advance(p), NoName)
  IN Give(Semicolon(label), IF At(p, "break") THEN Break(label.value) ELSE Continue(label.value))
ParseReturn(p) ==
  LET e == IF Within(Advance(p), {";", "}", "Eos"}) THEN Give(Advance(p), None) ELSE Expression(Advance(p))
  IN Give(Semicolon(e), Return(e.value))
ParseThrow(p) == LET e == Expression(Advance(p)) IN Give(Semicolon(e), Throw(e.value))

ParseStatement(p) ==
  CASE At(p, "Identifier") /\ Ahead(p) = ":" ->
         LET body == Statement(Advance(Advance(p))) IN Give(body, Labeled(p.token[2], body.value))
    [] At(p, "{") -> BlockStatement(p)
    [] Within(p, {"var", "let", "const"}) -> ParseVariable(Advance(p))
    [] At(p, "using") -> ParseUsing(Advance(p), FALSE)
    [] At(p, "await") /\ Ahead(p) = "using" -> ParseUsing(Advance(Advance(p)), TRUE)
    [] At(p, "class") -> ParseClass(p)
    [] At(p, "function") -> ParseFunctionDeclaration(p, FALSE)
    [] At(p, "async") /\ Ahead(p) = "function" -> ParseFunctionDeclaration(Advance(p), TRUE)
    [] At(p, "if") -> ParseIf(p)
    [] At(p, "while") -> ParseWhile(p)
    [] At(p, "do") -> ParseDo(p)
    [] At(p, "for") -> ParseFor(p)
    [] At(p, "switch") -> ParseSwitch(p)
    [] Within(p, {"break", "continue"}) -> ParseLeave(p)
    [] At(p, "debugger") -> Give(Semicolon(Advance(p)), Debugger)
    [] At(p, "with") -> ParseWith(p)
    [] At(p, "try") -> ParseTry(p)
    [] At(p, "throw") -> ParseThrow(p)
    [] At(p, "return") -> ParseReturn(p)
    [] At(p, "import") /\ Ahead(p) # "(" -> ParseImport(Advance(p))
    [] At(p, "export") -> ParseExport(Advance(p))
    [] At(p, ";") -> Give(Advance(p), Empty)
    [] OTHER -> LET e == Expression(p) IN Give(Semicolon(e), ExpressionStatement(e.value))

-----------------------------------------------------------------------------
(* Primary expressions *)

(* All runs of digits fit in 32 bits; what has two points is no number.    *)
NumberOf(digits) ==
  CASE Len(digits) = 1 -> Smi(Numbers[digits[1]])
    [] Len(SelectSeq(digits, LAMBDA piece : piece = ".")) > 1 -> Smi(0)
    [] OTHER -> <<"double", digits>>
StringOf(pieces) == Literal(<<"string", pieces>>)
Constants == "null" :> Null @@ "true" :> Bool(TRUE) @@ "false" :> Bool(FALSE)

ParseIdentifier(p) ==
  LET next == Advance(p)
      name == p.token[2]
  IN CASE At(next, "=>") -> ParseArrow(Advance(next), Plain(<<name>>))
       [] ~At(next, "=>") /\ name = "undefined" -> Give(next, Literal(Undefined))
       [] ~At(next, "=>") /\ IsPrivate(p.token) -> IF InScope(p, name) THEN Give(next, StringOf(<<name>>)) ELSE Fail(p)
       [] OTHER -> Give(next, Variable(name))

ParseAsync(p) == IF Ahead(p) = "function" THEN ParseFunction(Advance(p), TRUE) ELSE Give(Advance(p), Variable("async"))

ParseYield(p) ==
  LET start == Skip(Advance(p), "*")
      value == IF Within(start, {";", ")", "]", "}", ",", ":", "Eos"}) THEN Give(start, None) ELSE Expression(start)
  IN Give(value, Yield(value.value, Ahead(p) = "*"))

ParseImportExpression(p) ==   \* behind import
  LET specifier == Parenthesized(p)
  IN IF At(p, ".") THEN Give(Word(Advance(p), "meta"), ImportMeta)
     ELSE Give(specifier, DynamicImport(specifier.value))

ParseNew(p) ==   \* behind new
  LET callee == Parse(Primary(p), Goal("Callee"))
      arguments == IF At(callee, "(") THEN Listed(callee, "(", ")", "Expression") ELSE Give(callee, <<>>)
  IN IF At(p, ".") THEN Give(Word(Advance(p), "target"), NewTarget)
     ELSE Give(arguments, New(callee.value, arguments.value))
ParseCallee(p) ==   \* the properties behind the callee that is the value of p
  LET name == PropertyName(Advance(p))
  IN IF At(p, ".") THEN Parse(Give(name, PropertyAccess(p.value, name.value)), Goal("Callee")) ELSE p

ParseProperty(p) ==   \* of an object literal, with the name "" for what has none
  LET spread == Expression(Advance(p))
      key == Consume(Expression(Advance(p)), "]")
      name == PropertyName(p)
      Valued(k, what) == IF At(k, ":") THEN Expression(Advance(k)) ELSE ParseMethod(k, what)
  IN CASE At(p, "...") -> Give(spread, <<NoName, Spread(spread.value)>>)
       [] At(p, "[") -> LET v == Valued(key, "computed_method") IN Give(v, <<NoName, ComputedProperty(key.value, v.value)>>)
       [] OTHER -> LET v == IF Within(name, {":", "("}) THEN Valued(name, "method") ELSE Give(name, Variable(name.value))
                   IN Give(v, <<name.value, v.value>>)

(* The rest of a template, behind the string or expressions that are the   *)
(* value of p.                                                             *)
ParseTemplate(p) ==
  LET e == Expression(p)
      all == Binary("+", p.value, e.value)
      text == IF Len(e.token) = 2 /\ e.token[2] # <<>> THEN Binary("+", all, StringOf(e.token[2])) ELSE all
  IN CASE At(e, "TemplateSpan") -> Parse(Give(Advance(e), text), Goal("Template"))
       [] At(e, "TemplateTail") -> Give(Advance(e), text)
       [] OTHER -> Give(e, all)

(* Assignment to a target, with = or by an operator.                       *)
Store(p, target, value) ==
  CASE target.kind = "Variable" -> Give(p, Assignment(target.name, value))
    [] target.kind = "PropertyAccess" -> Give(p, PropertyAssignment(target.object, target.property, value))
    [] target.kind = "KeyedAccess" -> Give(p, KeyedAssignment(target.object, target.key, value))
    [] OTHER -> Fail(p)
Assign(p, target, value) ==
  CASE target.kind = "ArrayLiteral" -> Give(p, ArrayDestructureAssignment(target.elements, value))
    [] target.kind = "ObjectLiteral" -> Give(p, ObjectDestructureAssignment(target.properties, value))
    [] OTHER -> Store(p, target, value)
Stepped(p, target, op) == Store(p, target, Binary(IF op = "++" THEN "+" ELSE "-", target, Literal(Smi(1))))

ParsePrimary(p) ==
  LET next == Advance(p)
      type == p.token[1]
      operand == Precedence1(next, 15)
  IN CASE type = "Number" -> Give(next, Literal(NumberOf(p.token[2])))
       [] type = "BigInt" -> Give(next, Literal(<<"bigint", p.token[2]>>))
       [] type \in {"String", "TemplateTail"} -> Give(next, StringOf(p.token[2]))
       [] type \in DOMAIN Constants -> Give(next, Literal(Constants[type]))
       [] type = "Identifier" -> ParseIdentifier(p)
       [] type = "function" -> ParseFunction(p, FALSE)
       [] type = "async" -> ParseAsync(p)
       [] type = "await" -> Give(operand, Await(operand.value))
       [] type = "yield" -> ParseYield(p)
       [] type = "import" -> ParseImportExpression(next)
       [] type = "this" -> Give(next, This)
       [] type = "super" -> Give(next, Super)
       [] type = "new" -> ParseNew(next)
       [] type = "(" -> ParseParenthesis(p)
       [] type = "{" -> LET o == Listed(p, "{", "}", "Property") IN Give(o, ObjectLiteral(o.value))
       [] type = "[" -> LET a == Listed(p, "[", "]", "Argument") IN Give(a, ArrayLiteral(a.value))
       [] type = "TemplateSpan" -> Parse(Give(next, StringOf(p.token[2])), Goal("Template"))
       [] type \in {"+", "-", "!", "~", "typeof", "void", "delete"} -> Give(operand, Unary(type, operand.value))
       [] type \in {"++", "--"} -> LET target == Primary(next) IN Stepped(target, target.value, type)
       [] type \in {"/", "/="} ->
            LET r == RegExpFrom(p, IF type = "/=" THEN <<"=">> ELSE <<>>, FALSE)
            IN IF At(r, "RegExp") THEN Give(NextToken(r), RegExpLiteral(r.token[2], r.token[3])) ELSE Fail(p)
       [] OTHER -> Fail(p)

-----------------------------------------------------------------------------
(* What follows an expression, which is the value of p: calls, properties  *)
(* and steps always, an operator when it binds as tight as level at least. *)

Tails == {"++", "--", "(", "?.", ".", "["}
Arguments(p) == Listed(p, "(", ")", "Argument")
Key(p) == Consume(Expression(Advance(p)), "]")
ParseTail(p) ==
  LET left == p.value
      next == Advance(p)
      Named(Node(_, _)) == LET n == PropertyName(next) IN Give(n, Node(left, n.value))
      Keyed(k, Node(_, _)) == Give(k, Node(left, k.value))
  IN CASE Within(p, {"++", "--"}) -> Stepped(next, left, p.token[1])
       [] At(p, "(") -> Keyed(Arguments(p), Call)
       [] At(p, ".") -> Named(PropertyAccess)
       [] At(p, "[") -> Keyed(Key(p), KeyedAccess)
       [] At(p, "?.") /\ At(next, "[") -> Keyed(Key(next), OptionalKeyedAccess)
       [] At(p, "?.") /\ At(next, "(") -> Keyed(Arguments(next), OptionalCall)
       [] OTHER -> Named(OptionalPropertyAccess)

(* How tight an operator of the right side must bind: what associates to   *)
(* the right takes its own kind.                                           *)
MutRightLevel(op) == Precedence[op]   \* all operators to the right
RightLevel(op) == Precedence[op] + IF op \in AssignmentOps \cup {"**"} THEN 0 ELSE 1
ParseInfix(p) ==
  LET left == p.value
      op == p.token[1]
      right == Precedence1(Advance(p), RightLevel(op))
      then == Expression(Advance(p))
      else == Expression(Consume(then, ":"))
  IN CASE op = "=" -> Assign(right, left, right.value)
       [] op \in AssignmentOps \ {"="} ->
            Store(right, left, Binary(CHOOSE o \in DOMAIN CompoundOps : CompoundOps[o] = op, left, right.value))
       [] op = "?" -> Give(else, Conditional(left, then.value, else.value))
       [] OTHER -> Give(right, Binary(op, left, right.value))

-----------------------------------------------------------------------------
ParseItem(p, item) ==
  CASE item = "Binding" -> ParseBinding(p)
    [] item = "PropertyBinding" -> ParsePropertyBinding(p)
    [] item = "Name" -> Name(p)
    [] item = "Specifier" -> ParseSpecifier(p)
    [] item = "Property" -> ParseProperty(p)
    [] item = "Argument" /\ At(p, "...") -> LET e == Expression(Advance(p)) IN Give(e, Spread(e.value))
    [] OTHER -> Expression(p)
ParseItems(p, goal) ==   \* nothing may follow the rest of a list
  LET item == Parse(p, [what |-> "Item", item |-> goal.item])
      rest == Parse(Advance(item), goal)
  IN IF Within(p, {goal.close, "Eos"}) THEN Give(p, <<>>)
     ELSE IF At(item, ",") /\ ~(goal.item = "Binding" /\ item.value.rest) THEN Give(rest, <<item.value>> \o rest.value)
     ELSE Give(item, <<item.value>>)
ParseStatements(p, goal) ==
  LET first == Statement(p)
      rest == Parse(first, goal)
  IN IF Within(p, goal.stops) THEN Give(p, <<>>) ELSE Give(rest, <<first.value>> \o rest.value)
ParseUses(p) ==
  LET first == ParseUsed(p)
      rest == Parse(Advance(first), Goal("Used"))
  IN IF At(first, ",") THEN Give(rest, <<first.value>> \o rest.value) ELSE Give(first, <<first.value>>)

(* The program: the functions of its expressions, then its statements.     *)
ParseAll(p) ==
  LET s == Statements(Advance(p), {"Eos"})
  IN DesugarUsing(Give(s, s.functions \o s.value))

Parse(p, goal) ==
  IF p.failed THEN p
  ELSE CASE goal.what = "Program" -> ParseAll(p)
         [] goal.what = "Advance" -> NextToken(p)
         [] goal.what = "Statement" -> ParseStatement(p)
         [] goal.what = "Statements" -> ParseStatements(p, goal)
         [] goal.what = "Precedence" -> Climb(Primary(p), goal.level)
         [] goal.what = "Primary" -> ParsePrimary(p)
         [] goal.what = "Climb" ->
              IF Within(p, Tails) THEN Climb(ParseTail(p), goal.level)
              ELSE IF Within(p, Infix) /\ Precedence[p.token[1]] >= goal.level THEN Climb(ParseInfix(p), goal.level)
              ELSE p
         [] goal.what = "Block" -> ParseBlock(p)
         [] goal.what = "Items" -> ParseItems(p, goal)
         [] goal.what = "Item" -> ParseItem(p, goal.item)
         [] goal.what = "Cases" -> ParseCases(p)
         [] goal.what = "Members" -> IF Within(p, {"}", "Eos"}) THEN p ELSE Parse(ParseMember(p), goal)
         [] goal.what = "Used" -> ParseUses(p)
         [] goal.what = "Callee" -> ParseCallee(p)
         [] goal.what = "Template" -> ParseTemplate(p)

ParseProgram(text) == Parse(NewParser(text), Goal("Program"))
=============================================================================
