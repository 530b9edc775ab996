-------------------------------- MODULE MCWasm --------------------------------
EXTENDS WasmReference

Get(i) == <<"local.get", i>>
Set(i) == <<"local.set", i>>
Const(n) == <<"const", n>>
Bump == <<Get(0), Const(1), <<"add">>, Set(0)>>
Quiet == {<<>>, Bump}

\* Statements that may leave their block, of which depth + 1 are around them; a value goes along.
Leaves(depth) ==
  Quiet \cup {<<Get(0), <<"br", d>>>> : d \in 0..depth}
  \cup {<<Get(0), Get(0), <<"br_if", d>>, <<"drop">>>> : d \in {0, depth}}
  \cup {<<Get(0), <<"return">>>>, <<Get(0), Get(0), <<"br_table", <<0, depth>>>>>>}
Throws == {<<Get(0), <<"throw", 0>>>>}
\* The constructs around code, and around code that may throw.
Around(code) ==
  {<<<<"block", 1, code \o <<Get(0)>>>>, Set(0)>>, <<Get(0), <<"if", 0, code, <<>>>>>>, <<Get(0), <<"if", 0, code, Bump>>>>,
   <<Get(0), <<"if", 1, Bump \o <<Const(1)>>, code \o <<Const(2)>>>>, <<"drop">>>>,
   <<<<"loop", Bump \o <<Get(0), Const(-2), <<"add">>, <<"br_if", 0>>>> \o code>>>>}
Try(code) ==
  {<<<<"block", 1, <<<<"try_table", 1, clauses, code \o <<Const(3)>>>>>>>>, Set(0)>> :
     clauses \in {<<<<"catch", 0, 0>>>>, <<<<"catch", 1, 1>>, <<"catch", 0, 0>>>>}}
F(code) == Function(0, 1, 1, code \o <<Get(0)>>)
One(code) == Program(<<F(code)>>, <<0, <<0>>>>, <<0, <<>>>>, 0)
Starts == {<<>>, <<Const(1), Set(0)>>}
Control ==
  {One(start \o b) : start \in Starts,
     b \in UNION {Around(i) : i \in UNION {Around(l) : l \in Leaves(2)}}
           \cup UNION {Around(i \o l) : i \in UNION {Around(l) : l \in Quiet}, l \in Leaves(1)}
           \cup UNION {Try(l) : l \in Throws \cup Leaves(1)}}

\* Calls: the second function, and how the first calls it.
Callees == {Function(1, 1, 0, c) : c \in {
  <<Get(0), Const(1), <<"add">>>>,
  <<Get(0), <<"if", 0, <<Get(0), Const(-1), <<"add">>, <<"call", 1>>, <<"return">>>>, <<>>>>, Const(7)>>,
  <<Get(0), <<"if", 0, <<Get(0), Const(-1), <<"add">>, <<"return_call", 1>>>>, <<>>>>, Const(5)>>,
  <<Get(0), <<"if", 0, <<Get(0), Const(-1), <<"add">>, Const(1), <<"return_call_indirect", 3>>>>, <<>>>>, Const(5)>>,
  <<Get(0), <<"throw", 0>>>>, <<<<"unreachable">>>>, <<Get(0), <<"global.set", 0>>, <<"global.get", 0>>>>}}
Callers == {<<Const(n), c>> : n \in {0, 1, 4}, c \in {<<"call", 1>>, <<"return_call", 1>>}}
           \cup {<<Const(2), Const(k), <<"call_indirect", t>>>> : k \in 0..3, t \in {2, 3}}
Calling == {Program(<<Function(0, 1, 0, a), b>>, <<1, <<1>>>>, <<0, <<>>>>, 0) : a \in Callers, b \in Callees}

\* Straight lines over the data of the instance, from cells <<3, 9>> behind offset 1.
Struct2 == <<Const(4), Const(5), <<"struct.new", 0>>>>
Array2 == <<Const(6), Const(2), <<"array.new", 0>>>>
Vector1 == <<Const(1), <<"v128.load", 0, 0>>>>
Lines == {
  <<Const(1), <<"load", 2, 1>>>>, <<Const(3), <<"load", 2, 1>>>>,
  <<Const(1), Const(200 - 256), <<"store", 2, 0>>, Const(1), <<"load", 2, 0>>>>, <<Const(4), Const(1), <<"store", 2, 0>>, Const(0)>>,
  <<Const(1), <<"memory.grow", 0>>, <<"memory.size", 0>>, <<"add">>>>, <<Const(2), <<"memory.grow", 0>>>>,
  <<Const(-128), Const(-1), <<"div_s">>>>, <<Const(-7), Const(2), <<"div_s">>>>, <<Const(1), Const(0), <<"div_s">>>>,
  <<Const(100), Const(100), <<"add">>>>, <<Const(1), Const(2), Const(0), <<"select">>>>, <<Const(3), <<"local.tee", 0>>, Get(0), <<"add">>>>,
  <<<<"global.get", 0>>, Const(90), <<"add">>, <<"global.set", 0>>, <<"global.get", 0>>>>,
  <<Const(0), Const(1), Const(2), <<"memory.copy", 0, 0>>, Const(0), <<"load", 0, 0>>>>, <<Const(3), Const(1), Const(2), <<"memory.fill", 0>>, Const(0)>>,
  <<Const(2), Const(8), Const(2), <<"memory.fill", 0>>, Const(3), <<"load", 0, 0>>>>, <<Const(-1), Const(0), Const(1), <<"memory.fill", 0>>, Const(0)>>,
  Vector1 \o <<<<"extract_lane", 1>>>>, <<Const(2), Const(9), <<"splat">>, <<"v128.store", 0, 0>>, Const(3), <<"load", 0, 0>>>>,
  Vector1 \o Vector1 \o <<<<"vector.add">>, <<"extract_lane", 0>>>>, Vector1 \o <<Const(9), <<"replace_lane", 0>>>> \o Vector1 \o <<<<"vector.eq">>, <<"extract_lane", 1>>>>,
  <<<<"ref.null", 112>>, <<"ref.is_null">>>>, <<<<"ref.func", 0>>, <<"ref.is_null">>>>, <<<<"ref.null", 111>>, <<"struct.get", 0, 0>>>>,
  Struct2 \o <<<<"struct.get", 0, 1>>>>, Struct2 \o <<Get(0), <<"struct.get", 0, 0>>>>, Struct2 \o <<<<"local.tee", 0>>, Const(8), <<"struct.set", 0, 1>>, Get(0), <<"struct.get", 0, 1>>>>,
  <<<<"struct.new_default", 0>>, <<"struct.get", 0, 0>>>>, Array2 \o <<Const(1), <<"array.get", 0>>>>, Array2 \o <<Const(2), <<"array.get", 0>>>>,
  Array2 \o <<<<"local.tee", 0>>, Const(1), Const(9), <<"array.set", 0>>, Get(0), Const(1), <<"array.get", 0>>>>, Array2 \o <<<<"array.len">>>>,
  <<Const(0), Const(-1), <<"array.new", 0>>>>, Struct2 \o <<<<"ref.test", -20>>>>, Struct2 \o <<<<"ref.cast", -21>>>>, Struct2 \o <<<<"ref.cast_null", 0>>, <<"drop">>, Const(1)>>,
  <<Const(-3), <<"i31.new">>, <<"i31.get_s">>>>, <<Const(-3), <<"i31.new">>, <<"i31.get_u">>>>, <<Const(0), <<"i31.new">>, <<"ref.test_null", -19>>>>,
  <<Const(1), Const(1), <<"atomic.store", 0, 0>>, Const(1), <<"atomic.load", 0, 0>>>>, <<Const(7), Const(1), <<"atomic.rmw", 0, 0>>, Const(1), <<"load", 0, 0>>, <<"add">>>>,
  <<Const(3), Const(8), Const(1), <<"atomic.cmpxchg", 0, 0>>, Const(1), <<"load", 0, 0>>, <<"add">>>>, <<Const(9), Const(8), Const(7), <<"atomic.cmpxchg", 0, 0>>>>,
  <<Const(3), Const(8), Const(1), <<"atomic.wait", 0, 0>>>>, <<Const(8), Const(1), <<"atomic.notify", 0, 0>>>>, <<<<"drop">>, Const(1)>>, <<Const(1), <<"throw_ref">>>>, <<<<"unknown">>>>}
Straight == {Program(<<Function(0, 1, 1, l)>>, <<0, <<0>>>>, <<1, <<3, 9>>>>, g) : l \in Lines, g \in {0, 70}}
            \cup {Program(<<Function(0, 1, 0, <<Const(1)>>)>>, <<3, <<0>>>>, <<4, <<1>>>>, -70)}

\* Without the programs that never end.
Ends(p) == Head(Meaning(p, Initial(p), 1, Fuel)) # <<"fuel">>
MCPrograms == {p \in Control : Ends(p)} \cup Calling \cup Straight
\* A branch over an instruction whose immediate is a byte that opens a block.
MCMisread == {One(<<<<"block", 0, <<<<"br", 0>>, Const(1), <<"load", 2, 0>>, <<"drop">>>>>>, Const(5), Set(0)>>)}
MCCut == {Program(<<Function(0, 1, 1, <<Const(100)>>), Function(1, 1, 2, <<Get(2)>>)>>, <<1, <<1>>>>, <<1, <<3, 9>>>>, -70)}
===============================================================================
