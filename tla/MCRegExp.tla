------------------------------- MODULE MCRegExp --------------------------------
(***************************************************************************)
(* Patterns that are written as text, parsed, compiled and matched, each   *)
(* compared with its meaning.                                              *)
(***************************************************************************)
EXTENDS RegExpMachine, TLC

Compiler == INSTANCE RegExpCompiler
Meaning == INSTANCE RegExpMeaning
LOCAL INSTANCE SequencesExt

-----------------------------------------------------------------------------
(* Text *)

Chars(text) == [i \in 1..Len(text) |-> SubSeq(text, i, i)]

QuantifierText(min, max) ==
  CASE min = 0 /\ max = NoMax -> "*"
    [] min = 1 /\ max = NoMax -> "+"
    [] min = 0 /\ max = 1 -> "?"
    [] min = max -> "{" \o ToString(min) \o "}"
    [] min > 1 /\ max = NoMax -> "{" \o ToString(min) \o ",}"
    [] OTHER -> "{" \o ToString(min) \o "," \o ToString(max) \o "}"

Dashed(range) == IF range[1] = range[2] THEN Alphabet[range[1]] ELSE Alphabet[range[1]] \o "-" \o Alphabet[range[2]]
ClassText(ranges, negated) ==
  CASE ranges = DigitRanges -> IF negated THEN "\\D" ELSE "\\d"
    [] ranges = WordRanges -> IF negated THEN "\\W" ELSE "\\w"
    [] ranges = SpaceRanges -> IF negated THEN "\\S" ELSE "\\s"
    [] OTHER -> FoldLeft(LAMBDA text, r : text \o Dashed(r), IF negated THEN "[^" ELSE "[", ranges) \o "]"
AssertionTexts == [StartOfInput |-> "^", EndOfInput |-> "$", WordBoundary |-> "\\b", NonWordBoundary |-> "\\B"]

RECURSIVE TextOf(_)
Joined(nodes, between) ==
  FoldLeft(LAMBDA text, i : text \o (IF i = 1 THEN "" ELSE between) \o TextOf(nodes[i]), "", [i \in DOMAIN nodes |-> i])
TextOf(node) ==
  LET kind == node[1]
  IN CASE kind = "Empty" -> ""
       [] kind = "Char" -> node[2]
       [] kind = "AnyChar" -> "."
       [] kind = "CharacterClass" -> ClassText(node[2], node[3])
       [] kind = "Assertion" -> AssertionTexts[node[2]]
       [] kind = "Sequence" -> Joined(node[2], "")
       [] kind = "Disjunction" -> Joined(node[2], "|")
       [] kind = "Capture" -> "(" \o TextOf(node[3]) \o ")"
       [] kind = "NonCapturing" -> "(?:" \o TextOf(node[2]) \o ")"
       [] kind = "BackReference" -> "\\" \o ToString(node[2])
       [] kind = "Quantifier" -> TextOf(node[5]) \o QuantifierText(node[2], node[3]) \o (IF node[4] THEN "" ELSE "?")
       [] kind = "Lookaround" ->
            "(?" \o (IF node[3] THEN "<" ELSE "") \o (IF node[2] THEN "=" ELSE "!") \o TextOf(node[4]) \o ")"

-----------------------------------------------------------------------------
(* Trees, of which the machine keeps to the meaning: what is repeated      *)
(* takes a character each time, or never does, and sets its captures each  *)
(* time; a lookahead has one way to match, and no other in it.             *)

A == Char("a")
B == Char("b")
Class(c, d, negated) == CharacterClass(<<<<Place(c), Place(d)>>>>, negated)
Seq2(x, y) == Concatenation(<<x, y>>)
Or(x, y) == Disjunction(<<x, y>>)
Star(x) == Quantifier(0, NoMax, TRUE, x)

Positions == {Assertion(t) : t \in {"StartOfInput", "EndOfInput", "WordBoundary", "NonWordBoundary"}}
Singles == {A, AnyChar, Class("a", "b", TRUE), CharacterClass(WordRanges, FALSE)}
Groups(k) == {Capture(k, A), Capture(k, Or(A, Seq2(A, B))), Capture(k, Star(B))}
Bodies == Singles \cup {Capture(1, A), Capture(1, Or(A, Seq2(A, B)))}
          \cup {NonCapturing(Seq2(A, B)), NonCapturing(Empty), NonCapturing(Or(B, Seq2(A, AnyChar))),
               NonCapturing(Seq2(Quantifier(1, NoMax, TRUE, A), B))}
Counts == {<<0, NoMax>>, <<1, NoMax>>, <<0, 1>>, <<1, 2>>, <<2, 2>>, <<2, NoMax>>}
Repeats == {Quantifier(c[1], c[2], greedy, body) : c \in Counts, greedy \in BOOLEAN, body \in Bodies}
Aheads == {Lookaround(positive, FALSE, body) : positive \in BOOLEAN, body \in {A, Seq2(A, B), Class("a", "b", FALSE)}}

Trees ==
  Positions \cup Singles \cup Groups(1) \cup Repeats
  \cup {Seq2(x, B) : x \in Repeats}
  \cup {Seq2(x, y) : x \in Positions \cup Aheads, y \in {AnyChar, Star(A), Capture(1, Star(B))}}
  \cup {Seq2(AnyChar, x) : x \in Positions \cup Aheads}
  \cup {Or(x, y) : x \in {A, Seq2(A, B), Empty, Star(A)}, y \in Groups(1) \cup Aheads}
  \cup {Seq2(Capture(1, x), BackReference(1)) : x \in {AnyChar, Star(A), Or(A, B)}}
  \cup {Concatenation(<<x, y, BackReference(2)>>) : x \in Groups(1), y \in Groups(2)}

(* Texts that a tree is not written as.                                    *)
Single(c) == <<Place(c), Place(c)>>
OneOf(ranges) == CharacterClass(ranges, FALSE)
Readings == {
  <<"[]a]", OneOf(<<Single("]"), Single("a")>>)>>,
  <<"[^a-c-]", CharacterClass(<<<<Place("a"), Place("c")>>, Single("-")>>, TRUE)>>,
  <<"[a-\\d]", OneOf(DigitRanges \o <<Single("a"), Single("-")>>)>>,
  <<"[\\d_\\n]", OneOf(DigitRanges \o <<Single("_"), Single("\n")>>)>>,
  <<"[\\b\\0]\\0", Seq2(OneOf(<<Single("BS"), Single("NUL")>>), Char("NUL"))>>,
  <<"(?<a>a)(?<b>b)\\2", Concatenation(<<Capture(1, A), Capture(2, B), BackReference(2)>>)>>,
  <<"((a)|(b))", Capture(1, Or(Capture(2, A), Capture(3, B)))>>,
  <<"a{1,2}?b", Seq2(Quantifier(1, 2, FALSE, A), B)>>,
  <<"|a", Or(Empty, A)>>, <<"a||b", Disjunction(<<A, Empty, B>>)>>, <<"", Empty>>,
  <<"\\!\\n", Seq2(Char("!"), Char("\n"))>>,
  <<"a(?=b)|(?!a)b", Or(Seq2(A, Lookaround(TRUE, FALSE, B)), Seq2(Lookaround(FALSE, FALSE, A), B))>>}
Refusals == {"(a", "a)", "*", "a**", "[a", "[b-a]", "a{2,1}", "(?a)", "(?<>a)", "\\", "(?:a", "{1}"}

Parse(text) == Compiler!ParsePattern(Chars(text))
(* The program of a text, with the text and the tree it should have.       *)
Program(text, tree, flags) == Compiler!Compile(Parse(text), flags) @@ [text |-> text, tree |-> tree]
Written(tree, flags) == Program(TextOf(tree), tree, flags)
MCPatterns ==
  {Written(tree, flags) : tree \in Trees, flags \in {{}, {"g"}}}
  \cup {Program(r[1], r[2], {"g"}) : r \in Readings}
  \cup {Written(Seq2(x, y), flags) : x \in Positions, y \in {AnyChar, Star(A)}, flags \in {{"g", "m"}, {"y"}, {"g", "y"}}}
  \cup {Written(x, flags) : x \in Singles, flags \in {{"i"}, {"g", "s"}}}
  \cup {Written(Seq2(Capture(1, A), BackReference(2)), {})}   \* there is no group 2
MCSubjects == {Chars(text) : text \in {"", "a", "ab", "aab", "b b", "aB", "a\nb", "10", "]a", "abc"}}

-----------------------------------------------------------------------------

(* A text is taken for the tree it is written from, which the grammar of   *)
(* ECMAScript gives it (but for a ] that comes first in a class), and one  *)
(* that the grammar does not have is refused (regexp/parser.rs).           *)
ParsesAsWritten ==
  calls = 0 => /\ ~Parse(re.text).failed /\ Parse(re.text).node = re.tree
               /\ \A text \in Refusals : Parse(text).failed

(* A search finds what the text means: the leftmost match, of those there  *)
(* the one that is preferred, with its captures, or none; whatever the     *)
(* parser and the compiler made of it and the machine tried and took back  *)
(* (regexp/compiler.rs, regexp/interpreter.rs).                            *)
MatchesAsReference ==
  LET meant == Meaning!Matching(re.tree, re.captures, subject, re.flags, cursor)
  IN /\ ParsesAsWritten
     /\ mode = "found" => meant = <<Result>>
     /\ mode = "missed" => meant = <<>>
===============================================================================
