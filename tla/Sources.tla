--------------------------------- MODULE Sources ---------------------------------
(***************************************************************************)
(* Texts written by hand: some to run, with what they print, some that are *)
(* refused, and some only to parse, with their trees.  In a text @ is the  *)
(* backtick.                                                               *)
(***************************************************************************)
EXTENDS Ast, SequencesExt

N(k) == Literal(Smi(k))
V(x) == Variable(x)
Word(x) == Literal(Str(x))
Do(e) == ExpressionStatement(e)
Let(x, e) == VariableDeclaration(x, e)
Dot(e, x) == PropertyAccess(e, x)
C(f, arguments) == Call(V(f), arguments)
Fn(name, params, body) == FunctionDeclaration(name, params, 0, FALSE, body)
Printing(text, printed) == [text |-> text, printed |-> printed]
Reading(text, tree) == [text |-> text, tree |-> tree]
Ints(ks) == [i \in DOMAIN ks |-> Smi(ks[i])]

(* Each in a function of its own, which the script calls.                  *)
InMain(text) == "function main() {\n" \o text \o "\n}\nmain();"

-----------------------------------------------------------------------------
(* What is written in terms of other constructs. *)

Functions ==
  <<Printing("let f = x => x + 1; print(f(2)); let g = (a, b) => { return a - b }; print(g(5, 3)); print((() => 7)())", Ints(<<3, 2, 7>>)),
    Printing("let f = function twice(x) { return x * 2 }; print(f(4)); print(function () { return 5 }())", Ints(<<8, 5>>)),
    Printing("let x = 4; let o = {x, add(n) { return this.x + n }, ['k']: 6, [\"m\"](n) { return n }}; print(o.add(3)); print(o.k); print(o.m(9))",
             Ints(<<7, 6, 9>>)),
    Printing("let f = (a, b = a + 1, ...r) => { print(b); print(r.length) }; f(1); f(1, 5, 6, 7); f(1, undefined)", Ints(<<2, 0, 5, 2, 2, 0>>)),
    Printing("let a = 1; print((a) + 1); print((a = 3) + a); let b = 0; (b = (x => x + 4)(3)); print(b)", Ints(<<2, 6, 7>>)),
    Printing("let f = x => y => y; print(f(1)(2)); print((x => ({a: x}))(8).a)", Ints(<<2, 8>>))>>
Declarations ==
  <<Printing("let [a, b = 5, c] = [1, undefined, 3]; print(a); print(b); print(c)", Ints(<<1, 5, 3>>)),
    Printing("let {x, y: z = 4, if: w} = {x: 1, if: 2}; print(x); print(z); print(w)", Ints(<<1, 4, 2>>)),
    Printing("let a; let b; [a, b] = [7, 8]; print(a + b); ({x: a, b} = {x: 1, b: 2}); print(a); print(b)", Ints(<<15, 1, 2>>))>>
Assignments ==
  <<Printing("let i = 2; i += 3; print(i); i **= 2; print(i); i <<= 1; print(i); i %= 7; print(i); i >>>= 0; print(i)", Ints(<<5, 25, 50, 1, 1>>)),
    Printing("let o = {x: 1}; o.x += 2; o['x'] *= 3; print(o.x); let a = [4, 5]; a[1] -= 3; print(a[1]); let k = 0; a[k]++; ++(a[k]); print(a[0])",
             Ints(<<9, 2, 6>>)),
    Printing("let x = null; x ??= 5; print(x); x &&= 6; print(x); let y = 0; y ||= 8; print(y)", Ints(<<5, 6, 8>>)),
    Printing("let i = 3; i++; i++; i--; print(i); let j = ++i; print(j); print(- --j)", Ints(<<4, 5, -4>>)),
    Printing("for (let i = 0; i < 3; i++) print(i); for (const x of [5, 6]) { print(x) } for (let k in {a: 1}) print(k)",
             Ints(<<0, 1, 2, 5, 6>>) \o <<Str("a")>>)>>
Templates ==
  <<Printing("print(@a${1 + 2}b${'c'}@); print(@@); print(@${4}@)",
             <<<<"string", <<"a", "3", "b", "c">>>>, <<"string", <<>>>>, <<"string", <<"4">>>>>>),
    Printing("print(@a${@b${1}${{x: 2}.x}@}c${(() => { return 3 })()}@)", <<<<"string", <<"a", "b", "1", "2", "c", "3">>>>>>)>>
Layouts ==
  <<Printing("let a = 12 // c\nlet b = 3 /* } */\nlet c = 2\nprint(a / b / c)\nprint(a /* / */ / 4)", Ints(<<2, 3>>)),
    Printing("if (0) if (1) print(1); else print(2); if (1) if (0) print(3); else print(4); ; {}", Ints(<<4>>)),
    Printing("a: for (let i = 0; i < 2; i++) { b: { if (i) continue a; break b } print(i) }", Ints(<<0>>)),
    Printing("let get = 1; let from = 2; let set = 3; print(get + from + set); let o = {new: 4, async: 5}; print(o.new + o.async)", Ints(<<6, 9>>)),
    Printing("print(1 + 2 * 3 - 4); print(2 ** 3 ** 2); print(1 < 2 === true ? 3 : 4); print(1 | 6 & 3 ^ 1); print(- - 2 + + 1); print(!0 + typeof 1)",
             Ints(<<3, 512, 3, 3, 3>>) \o <<<<"string", <<"true", "number">>>>>>),
    Printing("let o = {p: {q: x => x}}; print(o?.p?.q(3)); print(o.r?.s); print(o?.['p'].q?.(4)); let n = null; print(n?.x)",
             <<Smi(3), Undefined, Smi(4), Undefined>>),
    Printing("switch (2) { case 1: print(1); case 2: print(2); default: print(3) case 4: print(4); break; case 5: print(5) }", Ints(<<2, 3, 4>>)),
    Printing("let k = 0; do k++; while (k < 3) print(k); try { throw 5 } catch (e) { print(e) } try { throw 6 } catch { print(7) } finally { print(8) }",
             Ints(<<3, 5, 7, 8>>))>>

(* Behind what is printed when the text may run: nothing of it does.       *)
Refusals ==
  <<"let = 3", "f(1", "if (x", "{", "}", "1 = 2", "1++", "f() += 1", "try {}", "@a", "'a", "x = ;", "#x", "class A { m() { return this.#y } }",
    "for (let x of y", "switch (x) { y }", "(a, b) = c", "let [a, ...b, c] = d", "function (a) {}", "x = /a", "export 1", "import a b",
    "new.x", "a ? b", "[a", "{a: 1, b: 2}", "a => ", "class { }", "class A { #x; } class B { m() { #x } }", "with (a", "throw ;", "import {a as} from 'm'">>

Runnable == Functions \o Declarations \o Assignments \o Templates \o Layouts

-----------------------------------------------------------------------------
(* Classes *)

Private(x) == Dot(This, "#" \o x)
Accessor(name, params, body, static, which) == ClassMethod(name, params, body, static, which)
Member(name, params, body) == ClassMethod(name, params, body, FALSE, NoName)
Class(name, super, constructor, methods, fields, blocks) ==
  [ClassDeclaration(name, super) EXCEPT !.constructor = constructor, !.methods = methods, !.fields = fields, !.static_blocks = blocks]
Classes ==
  <<Reading("class A extends B { #x = 1; static y; constructor(a) { super(a) } m(b) { return this.#x } }",
            <<Class("A", "B", Member("constructor", <<"a">>, <<Do(Call(Super, <<V("a")>>))>>),
                    <<Member("m", <<"b">>, <<Return(Private("x"))>>)>>,
                    <<ClassField("#x", N(1), FALSE), ClassField("y", None, TRUE)>>, <<>>)>>),
    Reading("class A { get v() { return this.#x } set v(n) { this.#x = n } get(k) {} set = 2; static static() {} #x; static { f() } has(o) { return #x in o } }",
            <<Class("A", NoName, None,
                    <<Accessor("v", <<>>, <<Return(Private("x"))>>, FALSE, "get"),
                      Accessor("v", <<"n">>, <<Do(PropertyAssignment(This, "#x", V("n")))>>, FALSE, "set"),
                      Member("get", <<"k">>, <<>>), ClassMethod("static", <<>>, <<>>, TRUE, NoName),
                      Member("has", <<"o">>, <<Return(Binary("in", Word("#x"), V("o")))>>)>>,
                    <<ClassField("set", N(2), FALSE), ClassField("#x", None, FALSE)>>, <<<<Do(C("f", <<>>))>>>>)>>),
    Reading("class A { static constructor() {} m() { class B { n() { return this.#p + this.#q } #q } } #p }",
            <<Class("A", NoName, None,
                    <<ClassMethod("constructor", <<>>, <<>>, TRUE, NoName),
                      Member("m", <<>>, <<Class("B", NoName, None, <<Member("n", <<>>, <<Return(Binary("+", Private("p"), Private("q")))>>)>>,
                                                <<ClassField("#q", None, FALSE)>>, <<>>)>>)>>,
                    <<ClassField("#p", None, FALSE)>>, <<>>)>>)>>

-----------------------------------------------------------------------------
(* Modules *)

Names(list) == [i \in DOMAIN list |-> <<list[i], list[i]>>]
Modules ==
  <<Reading("import 'm'; import a from 'm'; import * as b from 'm'; import {c, d as e} from \"m\"; import f, {g} from 'm'; import h, * as i from 'm'",
            <<ImportDeclaration("m", <<>>), ImportDeclaration("m", <<<<"default", "a">>>>), ImportDeclaration("m", <<<<"*", "b">>>>),
              ImportDeclaration("m", <<<<"c", "c">>, <<"d", "e">>>>), ImportDeclaration("m", <<<<"default", "f">>, <<"g", "g">>>>),
              ImportDeclaration("m", <<<<"default", "h">>, <<"*", "i">>>>)>>),
    Reading("export const a = 1; export function f() {} export class A {} export {a, f as g}; export {h} from 'm'; export * from 'm'",
            <<ExportDeclaration(NoName, Names(<<"a">>), Let("a", N(1)), FALSE), ExportDeclaration(NoName, Names(<<"f">>), Fn("f", <<>>, <<>>), FALSE),
              ExportDeclaration(NoName, Names(<<"A">>), ClassDeclaration("A", NoName), FALSE),
              ExportDeclaration(NoName, <<<<"a", "a">>, <<"f", "g">>>>, None, FALSE), ExportDeclaration("m", Names(<<"h">>), None, FALSE),
              ExportDeclaration("m", <<<<"*", "*">>>>, None, FALSE)>>),
    Reading("export default a + 1; export default function f() {} export async function g() {}",
            <<ExportDeclaration(NoName, <<<<"default", "default">>>>, Do(Binary("+", V("a"), N(1))), TRUE),
              ExportDeclaration(NoName, <<<<"default", "default">>>>, Fn("f", <<>>, <<>>), TRUE),
              ExportDeclaration(NoName, Names(<<"g">>), Async(Fn("g", <<>>, <<>>)), FALSE)>>),
    Reading("import(a + 'b').then; f(import.meta.url); new.target", <<Do(Dot(DynamicImport(Binary("+", V("a"), Word("b"))), "then")),
            Do(C("f", <<Dot(ImportMeta, "url")>>)), Do(NewTarget)>>)>>

-----------------------------------------------------------------------------
(* What waits, and what is disposed of *)

Waiting ==
  <<Reading("async function f(a) { await a.b; for await (const x of await a) { } return - await a ** 2 }",
            <<Async(Fn("f", <<"a">>, <<Do(Await(Dot(V("a"), "b"))), Async(ForOf("x", Await(V("a")), Block(<<>>))),
                                       Return(Binary("**", Unary("-", Await(V("a"))), N(2)))>>))>>),
    Reading("function* g() { yield; x = yield a; yield* b; [yield, yield 1] }",
            <<FunctionDeclaration("g", <<>>, 0, TRUE,
                <<Do(Yield(None, FALSE)), Do(Assignment("x", Yield(V("a"), FALSE))), Do(Yield(V("b"), TRUE)),
                  Do(ArrayLiteral(<<Yield(None, FALSE), Yield(N(1), FALSE)>>))>>)>>)>>
Disposed(stack, type, dispose, statements) ==
  <<Let(stack, New(V(type), <<>>)), TryCatch(Block(statements), NoName, None, Do(dispose))>>
Using ==
  LET s == "__using_stack_1__"
      Use(x, e) == Let(x, Call(Dot(V(s), "use"), <<e>>))
  IN <<Reading("f(); using a = g(), b = a; h(a)",
               <<Do(C("f", <<>>))>>
               \o Disposed(s, "DisposableStack", Call(Dot(V(s), "dispose"), <<>>), <<Use("a", C("g", <<>>)), Use("b", V("a")), Do(C("h", <<V("a")>>))>>)),
       Reading("function f() { { await using a = b; } }",
               <<Fn("f", <<>>, <<Block(Disposed(s, "AsyncDisposableStack", Await(Call(Dot(V(s), "disposeAsync"), <<>>)), <<Use("a", V("b"))>>))>>)>>)>>

-----------------------------------------------------------------------------
(* Slashes and operators that are one another's beginnings. *)

Pattern(pieces, flags) == RegExpLiteral(pieces, flags)
Slashes ==
  <<Reading("x = /a[/]b\\/c/gi; y = a / b / c; z = [/=/, /=a/i]; f(/'/)",
            <<Do(Assignment("x", Pattern(<<"a", "[", "/", "]", "b", "\\", "/", "c">>, "gi"))),
              Do(Assignment("y", Binary("/", Binary("/", V("a"), V("b")), V("c")))),
              Do(Assignment("z", ArrayLiteral(<<Pattern(<<"=">>, ""), Pattern(<<"=", "a">>, "i")>>))), Do(C("f", <<Pattern(<<"'">>, "")>>))>>),
    Reading("a+++b; a+ ++b; a- -b; a- --b; a=-b; a==-b; a>>>b>>c; a>=b; a<b>c; a&&b&c; a|b||c; a??b; a?.b; a?b:c; a!==!b; a**-b; a%+b",
            [i \in 1..17 |-> Do(
              <<Binary("+", Assignment("a", Binary("+", V("a"), N(1))), V("b")), Binary("+", V("a"), Assignment("b", Binary("+", V("b"), N(1)))),
                Binary("-", V("a"), Unary("-", V("b"))), Binary("-", V("a"), Assignment("b", Binary("-", V("b"), N(1)))),
                Assignment("a", Unary("-", V("b"))), Binary("==", V("a"), Unary("-", V("b"))), Binary(">>", Binary(">>>", V("a"), V("b")), V("c")),
                Binary(">=", V("a"), V("b")), Binary(">", Binary("<", V("a"), V("b")), V("c")), Binary("&&", V("a"), Binary("&", V("b"), V("c"))),
                Binary("||", Binary("|", V("a"), V("b")), V("c")), Binary("??", V("a"), V("b")), OptionalPropertyAccess(V("a"), "b"),
                Conditional(V("a"), V("b"), V("c")), Binary("!==", V("a"), Unary("!", V("b"))), Binary("**", V("a"), Unary("-", V("b"))),
                Binary("%", V("a"), Unary("+", V("b")))>>[i])]),
    Reading("debugger; with (a) b; .5; a = b = c; a = b ? c = 1 : d = 2; new a.b(c).d(e); delete a.b; void 0; typeof typeof a",
            <<Debugger, With(V("a"), Do(V("b"))), Do(Literal(<<"double", <<".", "5">>>>)),
              Do(Assignment("a", Assignment("b", V("c")))),
              Do(Assignment("a", Conditional(V("b"), Assignment("c", N(1)), Assignment("d", N(2))))),
              Do(Call(Dot(New(Dot(V("a"), "b"), <<V("c")>>), "d"), <<V("e")>>)), Do(Unary("delete", Dot(V("a"), "b"))),
              Do(Unary("void", N(0))), Do(Unary("typeof", Unary("typeof", V("a"))))>>)>>

(* Every operator beside and below every other.                            *)
BinaryOps ==
  <<"??", "||", "&&", "|", "^", "&", "==", "!=", "===", "!==", "<", "<=", ">", ">=", "instanceof", "in", "<<", ">>", ">>>",
    "+", "-", "*", "/", "%", "**">>
Others ==
  LET a == V("a")
  IN <<Unary("!", a), Unary("typeof", a), Conditional(a, a, a), Assignment("b", a), Dot(a, "b"), Call(a, <<a>>), New(a, <<>>)>>
Around(op, inner) == <<Do(Binary(op, inner, V("a"))), Do(Binary(op, V("a"), inner))>>
Beside(op, ops) == FlattenSeq([i \in DOMAIN ops |-> Around(op, Binary(ops[i], V("a"), V("a")))])
Within(op) ==
  LET e == Binary(op, V("a"), V("a"))
  IN FlattenSeq([i \in DOMAIN Others |-> Around(op, Others[i])])
     \o <<Do(Unary("-", e)), Do(Conditional(e, e, e)), Do(Assignment("b", e)), Do(Dot(e, "b"))>>
Nested ==
  FlattenSeq([i \in DOMAIN BinaryOps |->
    <<Beside(BinaryOps[i], SubSeq(BinaryOps, 1, 12)), Beside(BinaryOps[i], SubSeq(BinaryOps, 13, 25)), Within(BinaryOps[i])>>])

Readings == Classes \o Modules \o Waiting \o Using \o Slashes
===================================================================================
