------------------------------- MODULE RegExpAst -------------------------------
(***************************************************************************)
(* Patterns of src/src/regexp/ast.rs as trees, and which characters they   *)
(* stand for; the flags of one are a set of letters.  A character is a     *)
(* string of one; Alphabet has those that occur, in the order of their     *)
(* codes, and a range is a pair of places in it.  Of a kind of character   *)
(* the alphabet has few: the last digit in it stands where 9 does, the     *)
(* last letter where z does.                                               *)
(***************************************************************************)
EXTENDS Integers, Sequences

Alphabet == <<"NUL", "BS", "\n", " ", "!", "-", "0", "1", "2", "A", "B", "]", "_", "a", "b", "c">>
Place(c) == CHOOSE i \in DOMAIN Alphabet : Alphabet[i] = c
MinChar == Place("NUL")
MaxChar == Len(Alphabet) + 1

-----------------------------------------------------------------------------
(* Trees *)

NoMax == -1
Empty == <<"Empty">>
AnyChar == <<"AnyChar">>
Char(c) == <<"Char", c>>
CharacterClass(ranges, negated) == <<"CharacterClass", ranges, negated>>
Quantifier(min, max, greedy, body) == <<"Quantifier", min, max, greedy, body>>
Capture(index, body) == <<"Capture", index, body>>
NonCapturing(body) == <<"NonCapturing", body>>
BackReference(number) == <<"BackReference", number>>
Disjunction(alternatives) == <<"Disjunction", alternatives>>
Concatenation(nodes) == <<"Sequence", nodes>>
Assertion(type) == <<"Assertion", type>>
Lookaround(positive, behind, body) == <<"Lookaround", positive, behind, body>>

-----------------------------------------------------------------------------
(* Characters *)

Lowers == [c \in {"A", "B"} |-> IF c = "A" THEN "a" ELSE "b"]
Uppers == [c \in {"a", "b"} |-> IF c = "a" THEN "A" ELSE "B"]
ToLower(c) == IF c \in DOMAIN Lowers THEN Lowers[c] ELSE c
ToUpper(c) == IF c \in DOMAIN Uppers THEN Uppers[c] ELSE c

Same(c, d, ignoreCase) == IF ignoreCase THEN ToLower(c) = ToLower(d) \/ ToUpper(c) = ToUpper(d) ELSE c = d

(* The case of the ends of a range; the ends of all codes have none.       *)
LowerPlace(i) == IF i \in DOMAIN Alphabet THEN Place(ToLower(Alphabet[i])) ELSE i
UpperPlace(i) == IF i \in DOMAIN Alphabet THEN Place(ToUpper(Alphabet[i])) ELSE i
InRange(c, range, ignoreCase) ==
  IF ~ignoreCase THEN Place(c) \in range[1]..range[2]
  ELSE \/ Place(ToLower(c)) \in LowerPlace(range[1])..LowerPlace(range[2])
       \/ Place(ToUpper(c)) \in UpperPlace(range[1])..UpperPlace(range[2])
InClass(c, ranges, negated, ignoreCase) ==
  (\E i \in DOMAIN ranges : InRange(c, ranges[i], ignoreCase)) # negated

DigitRanges == <<<<Place("0"), Place("2")>>>>
WordRanges == <<<<Place("a"), Place("c")>>, <<Place("A"), Place("B")>>, <<Place("0"), Place("2")>>,
                <<Place("_"), Place("_")>>>>
SpaceRanges == <<<<Place(" "), Place(" ")>>, <<Place("\n"), Place("\n")>>>>
IsWordChar(c) == InClass(c, WordRanges, FALSE, FALSE)
IsLineEnd(c) == c = "\n"
===============================================================================
