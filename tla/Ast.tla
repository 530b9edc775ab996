---------------------------------- MODULE Ast ----------------------------------
(***************************************************************************)
(* The abstract syntax trees of src/src/ast/ast.rs that the generator of   *)
(* bytecode and the parser work on, and the values of literals.            *)
(*                                                                         *)
(* A value is a pair of its type and its content.  A string is a sequence  *)
(* of atoms, each a name or the digits of a number, so that strings can be *)
(* joined and compared without being taken apart.                          *)
(***************************************************************************)
EXTENDS Integers, Sequences, TLC

Smi(n) == <<"number", n>>
NaN == <<"nan", 0>>
Str(atom) == <<"string", <<atom>>>>
Bool(b) == <<"boolean", b>>
Null == <<"null", 0>>
Undefined == <<"undefined", 0>>

None == [kind |-> "None"]   \* an Option that holds nothing
NoName == ""                \* no label, no name, no parameter

-----------------------------------------------------------------------------
(* Expression *)

Literal(value) == [kind |-> "Literal", value |-> value]
Variable(name) == [kind |-> "Variable", name |-> name]
This == [kind |-> "This"]
Binary(op, left, right) == [kind |-> "Binary", op |-> op, left |-> left, right |-> right]
Unary(op, expr) == [kind |-> "Unary", op |-> op, expr |-> expr]
Assignment(target, value) == [kind |-> "Assignment", target |-> target, value |-> value]
Call(callee, arguments) == [kind |-> "Call", callee |-> callee, arguments |-> arguments]
New(callee, arguments) == [kind |-> "New", callee |-> callee, arguments |-> arguments]
PropertyAccess(object, property) ==
  [kind |-> "PropertyAccess", object |-> object, property |-> property]
KeyedAccess(object, key) == [kind |-> "KeyedAccess", object |-> object, key |-> key]
PropertyAssignment(object, property, value) ==
  [kind |-> "PropertyAssignment", object |-> object, property |-> property, value |-> value]
KeyedAssignment(object, key, value) ==
  [kind |-> "KeyedAssignment", object |-> object, key |-> key, value |-> value]
ObjectLiteral(properties) == [kind |-> "ObjectLiteral", properties |-> properties]
ArrayLiteral(elements) == [kind |-> "ArrayLiteral", elements |-> elements]
Spread(expr) == [kind |-> "Spread", expr |-> expr]
ComputedProperty(key, value) == [kind |-> "ComputedProperty", key |-> key, value |-> value]
OptionalPropertyAccess(object, property) ==
  [kind |-> "OptionalPropertyAccess", object |-> object, property |-> property]
OptionalKeyedAccess(object, key) == [kind |-> "OptionalKeyedAccess", object |-> object, key |-> key]
OptionalCall(callee, arguments) ==
  [kind |-> "OptionalCall", callee |-> callee, arguments |-> arguments]
Yield(value, delegate) == [kind |-> "Yield", value |-> value, delegate |-> delegate]
Conditional(condition, then, else) ==
  [kind |-> "Conditional", condition |-> condition, then |-> then, else |-> else]
ArrayDestructureAssignment(targets, value) ==
  [kind |-> "ArrayDestructureAssignment", targets |-> targets, value |-> value]
ObjectDestructureAssignment(pairs, value) ==
  [kind |-> "ObjectDestructureAssignment", pairs |-> pairs, value |-> value]

Await(expr) == [kind |-> "Await", expr |-> expr]
DynamicImport(specifier) == [kind |-> "DynamicImport", specifier |-> specifier]
RegExpLiteral(pattern, flags) == [kind |-> "RegExpLiteral", pattern |-> pattern, flags |-> flags]
Super == [kind |-> "Super"]
ImportMeta == [kind |-> "ImportMeta"]
NewTarget == [kind |-> "NewTarget"]

-----------------------------------------------------------------------------
(* Statement *)

Block(statements) == [kind |-> "Block", statements |-> statements]
ExpressionStatement(expr) == [kind |-> "Expression", expr |-> expr]
VariableDeclaration(name, init) == [kind |-> "VariableDeclaration", name |-> name, init |-> init]
If(condition, then, else) == [kind |-> "If", condition |-> condition, then |-> then, else |-> else]
While(condition, body) == [kind |-> "While", condition |-> condition, body |-> body]
DoWhile(body, condition) == [kind |-> "DoWhile", condition |-> condition, body |-> body]
For(init, condition, update, body) ==
  [kind |-> "For", init |-> init, condition |-> condition, update |-> update, body |-> body]
ForOf(name, iterable, body) == [kind |-> "ForOf", name |-> name, iterable |-> iterable, body |-> body]
ForIn(name, object, body) == [kind |-> "ForIn", name |-> name, object |-> object, body |-> body]
Switch(discriminant, cases) == [kind |-> "Switch", discriminant |-> discriminant, cases |-> cases]
SwitchCase(test, statements) == [test |-> test, statements |-> statements]
Break(label) == [kind |-> "Break", label |-> label]
Continue(label) == [kind |-> "Continue", label |-> label]
Labeled(label, body) == [kind |-> "Labeled", label |-> label, body |-> body]
With(object, body) == [kind |-> "With", object |-> object, body |-> body]
Throw(expr) == [kind |-> "Throw", expr |-> expr]
Return(expr) == [kind |-> "Return", expr |-> expr]
TryCatch(try, param, catch, finally) ==
  [kind |-> "TryCatch", try |-> try, param |-> param, catch |-> catch, finally |-> finally]
FunctionDeclaration(name, params, rest, generator, body) ==
  [kind |-> "FunctionDeclaration", name |-> name, params |-> params, rest |-> rest,
   generator |-> generator, body |-> body]
Async(node) == node @@ [async |-> TRUE]   \* an async function, or a loop that awaits
UsingDeclaration(name, init, await) ==
  [kind |-> "UsingDeclaration", name |-> name, init |-> init, await |-> await]
ClassDeclaration(name, super) ==   \* before its members are added
  [kind |-> "ClassDeclaration", name |-> name, super_class |-> super, constructor |-> None,
   methods |-> <<>>, fields |-> <<>>, static_blocks |-> <<>>]
ClassMethod(name, params, body, static, accessor) ==
  [kind |-> "ClassMethod", name |-> name, params |-> params, body |-> body, static |-> static, accessor |-> accessor]
ClassField(name, initializer, static) == [name |-> name, initializer |-> initializer, static |-> static]
ImportDeclaration(specifier, specifiers) ==
  [kind |-> "ImportDeclaration", specifier |-> specifier, specifiers |-> specifiers]
ExportDeclaration(specifier, specifiers, declaration, default) ==
  [kind |-> "ExportDeclaration", specifier |-> specifier, specifiers |-> specifiers,
   declaration |-> declaration, default |-> default]
Debugger == [kind |-> "Debugger"]
Empty == [kind |-> "Empty"]

StatementKinds ==
  {"Block", "Expression", "VariableDeclaration", "If", "While", "DoWhile", "For", "ForOf", "ForIn", "Switch", "Break",
   "Continue", "Labeled", "With", "Throw", "Return", "TryCatch", "FunctionDeclaration", "Empty"}
Loops == {"While", "DoWhile", "For", "ForOf", "ForIn"}
=============================================================================
