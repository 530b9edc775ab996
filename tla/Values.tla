-------------------------------- MODULE Values --------------------------------
(***************************************************************************)
(* JavaScript values and the operations on them                            *)
(* (src/src/objects/value.rs, js_object.rs, generator.rs): conversions,    *)
(* operators, properties and elements, iterators.                          *)
(*                                                                         *)
(* Beside the values of Ast there are references: an object or array by    *)
(* its place in the heap, a function by its name.  Numbers are small       *)
(* integers or NaN, so Smi and Number are told apart by no operation; text *)
(* is never read back as a number, but for the digits of an index.         *)
(***************************************************************************)
EXTENDS Ast, SequencesExt, Bitwise, TLC

Reference(type, id) == <<type, id>>
FunctionValue(name) == <<"function", name>>
Native(name) == <<"native", name>>

ToBoolean(v) ==
  \/ v[1] \in {"object", "array", "function", "native"}
  \/ v[1] = "number" /\ v[2] # 0
  \/ v[1] = "string" /\ v[2] # <<>>
  \/ v = Bool(TRUE)

ToNumber(v) ==
  CASE v[1] = "number" -> v
    [] v[1] = "boolean" -> Smi(IF v[2] THEN 1 ELSE 0)
    [] v[1] = "null" -> Smi(0)
    [] OTHER -> NaN

RECURSIVE Text(_, _)
Text(objects, v) ==
  CASE v[1] = "string" -> v[2]
    [] v[1] \in {"number", "boolean"} -> <<IF v[1] = "number" THEN ToString(v[2]) ELSE IF v[2] THEN "true" ELSE "false">>
    [] v[1] = "object" -> <<"[object Object]">>
    [] v[1] = "array" ->
         FlattenSeq([i \in DOMAIN objects[v[2]].elements |->
                       (IF i = 1 THEN <<>> ELSE <<",">>) \o Text(objects, objects[v[2]].elements[i])])
    [] v[1] \in {"function", "native"} -> <<"function">>
    [] OTHER -> <<v[1]>>   \* undefined, null

TypeOf(v) ==
  Str(CASE v[1] \in {"number", "nan"} -> "number"
        [] v[1] \in {"null", "object", "array"} -> "object"
        [] v[1] = "native" -> "function"
        [] OTHER -> v[1])

StrictEqual(a, b) == a = b /\ a # NaN
LooseEqual(a, b) == StrictEqual(a, b) \/ {a, b} = {Null, Undefined}

(* Integers as 32 bits: NaN becomes 0. *)
AsInteger(v) == IF v = NaN THEN 0 ELSE v[2]
Magnitude(n) == IF n >= 0 THEN n ELSE -n
Remainder(a, b) == IF a >= 0 THEN a % Magnitude(b) ELSE -((-a) % Magnitude(b))

Numeric(op, a, b) ==
  CASE op = "+" -> a + b
    [] op = "-" -> a - b
    [] op = "*" -> a * b
    [] op = "/" -> a \div b         \* exact in every program
    [] op = "%" -> Remainder(a, b)
    [] op = "&" -> a & b
    [] op = "|" -> a | b
    [] op = "^" -> a ^^ b
    [] op = "<<" -> a * 2 ^ b
    [] op = ">>" -> a \div 2 ^ b

OnBits == {"&", "|", "^", "<<", ">>"}

Arithmetic(objects, op, a, b) ==
  IF op = "+" /\ (a[1] = "string" \/ b[1] = "string") THEN <<"string", Text(objects, a) \o Text(objects, b)>>
  ELSE LET m == ToNumber(a)
           n == ToNumber(b)
       IN IF op \in OnBits THEN Smi(Numeric(op, AsInteger(m), AsInteger(n)))
          ELSE IF NaN \in {m, n} \/ (op \in {"/", "%"} /\ n[2] = 0) THEN NaN
          ELSE Smi(Numeric(op, m[2], n[2]))

Tests == {"==", "===", "<", ">", "<=", ">="}
Test(op, a, b) ==
  LET m == ToNumber(a)
      n == ToNumber(b)
  IN CASE op = "==" -> LooseEqual(a, b)
       [] op = "===" -> StrictEqual(a, b)
       [] OTHER -> /\ NaN \notin {m, n}
                   /\ CASE op = "<" -> m[2] < n[2]
                        [] op = ">" -> m[2] > n[2]
                        [] op = "<=" -> m[2] <= n[2]
                        [] op = ">=" -> m[2] >= n[2]

-----------------------------------------------------------------------------
(* Objects: the keys in the order they were added, and a value for each.   *)

EmptyObject == [kind |-> "object", keys |-> <<>>, properties |-> <<>>]
ArrayOf(elements) == [kind |-> "array", elements |-> elements]
ArrayIterator(array) == [kind |-> "arrayIterator", array |-> array, index |-> 1]
StringIterator(text) == [kind |-> "stringIterator", text |-> text, index |-> 1]

HasProperty(object, key) == object.kind = "object" /\ key \in DOMAIN object.properties
Property(object, key) == IF HasProperty(object, key) THEN object.properties[key] ELSE Undefined
SetProperty(object, key, v) ==
  IF HasProperty(object, key) THEN [object EXCEPT !.properties[key] = v]
  ELSE [object EXCEPT !.keys = Append(@, key), !.properties = (key :> v) @@ @]
DeleteProperty(object, key) ==
  [object EXCEPT !.keys = SelectSeq(@, LAMBDA k : k # key),
                 !.properties = [k \in DOMAIN @ \ {key} |-> @[k]]]

Element(array, i) == IF i + 1 \in DOMAIN array.elements THEN array.elements[i + 1] ELSE Undefined
SetElement(array, i, v) ==
  [array EXCEPT !.elements = [k \in 1..(IF i + 1 > Len(@) THEN i + 1 ELSE Len(@)) |->
                                IF k = i + 1 THEN v ELSE Element(array, k - 1)]]

IterResult(v, done) ==
  SetProperty(SetProperty(EmptyObject, <<"value">>, v), <<"done">>, Bool(done))

MaxIndex == 9   \* the largest index that is ever written as text
Indices(text) == {i \in 0..MaxIndex : text = <<ToString(i)>>}

(* a.x, and a[key] where the key has become text.                          *)
GetNamed(objects, v, key) ==
  CASE v[1] = "object" -> IF objects[v[2]].kind = "generator" /\ key \in {<<"next">>, <<"return">>, <<"throw">>}
                          THEN Native(key[1]) ELSE Property(objects[v[2]], key)
    [] v[1] = "array" -> CASE key = <<"length">> -> Smi(Len(objects[v[2]].elements))
                           [] key = <<"push">> -> Native("push")
                           [] OTHER -> Undefined
    [] v[1] = "string" /\ key = <<"length">> -> Smi(Len(v[2]))   \* one character for each atom
    [] v[1] = "function" /\ key = <<"name">> -> Str(v[2])
    [] OTHER -> Undefined

GetKeyed(objects, v, k) ==
  LET text == Text(objects, k)
      index == IF k[1] = "number" THEN {k[2]} \cap Nat ELSE Indices(text)
  IN IF v[1] = "array" /\ index # {} THEN Element(objects[v[2]], CHOOSE i \in index : TRUE)
     ELSE IF v[1] = "string" /\ index # {}
     THEN LET i == CHOOSE i \in index : TRUE
          IN IF i < Len(v[2]) THEN Str(v[2][i + 1]) ELSE Undefined
     ELSE GetNamed(objects, v, text)

(* The heap after a.x = v and a[k] = v; other targets ignore the store.    *)
SetNamed(objects, a, key, v) ==
  IF a[1] = "object" /\ objects[a[2]].kind = "object" THEN [objects EXCEPT ![a[2]] = SetProperty(@, key, v)] ELSE objects
SetKeyed(objects, a, k, v) ==
  IF a[1] = "array"
  THEN [objects EXCEPT ![a[2]] = SetElement(@, CHOOSE i \in IF k[1] = "number" THEN {k[2]} ELSE Indices(Text(objects, k)) : TRUE, v)]
  ELSE SetNamed(objects, a, Text(objects, k), v)

(* What ForInEnumerate lists, and what a spread adds to an array.          *)
KeysOf(objects, v) ==
  CASE v[1] = "object" /\ objects[v[2]].kind = "object" -> [i \in DOMAIN objects[v[2]].keys |-> <<"string", objects[v[2]].keys[i]>>]
    [] v[1] = "array" -> [i \in DOMAIN objects[v[2]].elements |-> Str(ToString(i - 1))]
    [] OTHER -> <<>>
Spreads(objects, v) ==
  CASE v[1] = "array" -> objects[v[2]].elements
    [] v[1] = "string" -> [i \in DOMAIN v[2] |-> Str(v[2][i])]
    [] OTHER -> <<>>
SpreadObject(objects, object, v) ==
  IF v[1] = "object" /\ objects[v[2]].kind = "object"
  THEN [objects EXCEPT ![object[2]] =
          FoldLeft(LAMBDA o, key : SetProperty(o, key, objects[v[2]].properties[key]), @, objects[v[2]].keys)]
  ELSE objects
===============================================================================
