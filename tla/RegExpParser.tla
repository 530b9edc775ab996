----------------------------- MODULE RegExpParser ------------------------------
(***************************************************************************)
(* The parser of patterns, src/src/regexp/parser.rs.  A parser is a record *)
(* of the pattern, the place in it, how many groups capture, the places of *)
(* the named ones, and the tree just read.  Escapes that give a character  *)
(* by its code are left out.                                               *)
(***************************************************************************)
EXTENDS RegExpAst, SequencesExt, TLC

NewParser(pattern) ==
  [chars |-> pattern, cursor |-> 0, captures |-> 0, names |-> <<>>, node |-> Empty, failed |-> FALSE]

PeekAt(p, offset) == IF p.cursor + offset < Len(p.chars) THEN p.chars[p.cursor + offset + 1] ELSE ""
Peek(p) == PeekAt(p, 0)
Advance(p) == IF p.cursor < Len(p.chars) THEN [p EXCEPT !.cursor = @ + 1] ELSE p
Give(p, node) == IF p.failed THEN p ELSE [p EXCEPT !.node = node]
Fail(p) == [p EXCEPT !.failed = TRUE]
Expect(p, c) == IF p.failed \/ Peek(p) # c THEN Fail(p) ELSE Advance(p)

Numerals == [c \in {"0", "1", "2"} |-> IF c = "0" THEN 0 ELSE IF c = "1" THEN 1 ELSE 2]
RECURSIVE Digits(_, _)   \* the digits at p, behind those that were read
Digits(p, read) == IF Peek(p) \in DOMAIN Numerals THEN Digits(Advance(p), Append(read, Peek(p))) ELSE read
Skip(p, n) == [p EXCEPT !.cursor = @ + n]
Number(digits) == FoldLeft(LAMBDA n, d : 10 * n + Numerals[d], 0, digits)

-----------------------------------------------------------------------------
(* Escapes and classes *)

Controls == "n" :> "\n" @@ "0" :> "NUL"   \* of the alphabet
ClassControls == Controls @@ "b" :> "BS"   \* in a class \b is no assertion
Outside(ranges) == CharacterClass(ranges, TRUE)
ParseEscape(p) ==
  LET c == Peek(p)
      next == Advance(p)
      digits == Digits(p, <<>>)
  IN CASE c = "" -> Fail(p)
       [] c = "d" -> Give(next, CharacterClass(DigitRanges, FALSE))
       [] c = "D" -> Give(next, Outside(DigitRanges))
       [] c = "w" -> Give(next, CharacterClass(WordRanges, FALSE))
       [] c = "W" -> Give(next, Outside(WordRanges))
       [] c = "s" -> Give(next, CharacterClass(SpaceRanges, FALSE))
       [] c = "S" -> Give(next, Outside(SpaceRanges))
       [] c = "b" -> Give(next, Assertion("WordBoundary"))
       [] c = "B" -> Give(next, Assertion("NonWordBoundary"))
       [] c \in {"1", "2"} -> Give(Skip(p, Len(digits)), BackReference(Number(digits)))
       [] c \in DOMAIN Controls -> Give(next, Char(Controls[c]))
       [] OTHER -> Give(next, Char(c))

(* In a class an escape may give ranges; \W gives the digit 0 too.         *)
ClassEscapes ==
  "d" :> DigitRanges @@ "w" :> WordRanges @@ "s" :> SpaceRanges
  @@ "D" :> <<<<MinChar, Place("0") - 1>>, <<Place("2") + 1, MaxChar>>>>
  @@ "W" :> <<<<MinChar, Place("0")>>, <<MinChar, Place("0") - 1>>, <<Place("2") + 1, Place("A") - 1>>,
              <<Place("B") + 1, Place("_") - 1>>, <<Place("c") + 1, MaxChar>>>>
ClassChar(p) ==   \* the character at p, none when it is an escape for ranges
  IF Peek(p) # "\\" THEN Peek(p)
  ELSE LET c == PeekAt(p, 1)
       IN IF c \in DOMAIN ClassEscapes THEN "" ELSE IF c \in DOMAIN ClassControls THEN ClassControls[c] ELSE c
ClassRanges(p) ==
  IF Peek(p) = "\\" /\ PeekAt(p, 1) \in DOMAIN ClassEscapes THEN ClassEscapes[PeekAt(p, 1)] ELSE <<>>
PastClassChar(p) ==
  IF Peek(p) # "\\" THEN Advance(p) ELSE IF PeekAt(p, 1) = "" THEN Fail(p) ELSE Skip(p, 2)

Single(c) == <<Place(c), Place(c)>>
RECURSIVE ClassFrom(_, _, _, _)
ClassFrom(p, negated, ranges, first) ==
  LET start == ClassChar(p)
      next == PastClassChar(p)
      read == ranges \o ClassRanges(p)
      to == Advance(next)   \* behind the "-"
      end == ClassChar(to)
      past == PastClassChar(to)
      readBoth == read \o ClassRanges(to)
  IN CASE p.failed \/ Peek(p) = "" -> Fail(p)
       [] ~p.failed /\ Peek(p) = "]" /\ ~first -> Give(Advance(p), CharacterClass(ranges, negated))
       [] OTHER ->
            IF next.failed \/ start = "" THEN ClassFrom(next, negated, read, FALSE)
            ELSE IF Peek(next) # "-" \/ PeekAt(next, 1) = "]"
            THEN ClassFrom(next, negated, Append(read, Single(start)), FALSE)
            ELSE IF end = "" THEN ClassFrom(past, negated, readBoth \o <<Single(start), Single("-")>>, FALSE)
            ELSE IF Place(start) > Place(end) THEN Fail(p)
            ELSE ClassFrom(past, negated, Append(readBoth, <<Place(start), Place(end)>>), FALSE)
ParseClass(p) ==
  LET inside == Advance(p)
  IN IF Peek(inside) = "^" THEN ClassFrom(Advance(inside), TRUE, <<>>, TRUE) ELSE ClassFrom(inside, FALSE, <<>>, TRUE)

-----------------------------------------------------------------------------
(* Quantifiers *)

RECURSIVE ClosesFrom(_, _)
ClosesFrom(p, i) == IF PeekAt(p, i) \in DOMAIN Numerals \cup {","} THEN ClosesFrom(p, i + 1) ELSE PeekAt(p, i) = "}"
LooksLikeQuantifier(p) == Peek(p) = "{" /\ ClosesFrom(p, 1)

Quantified(p, min, max) ==   \* a ? behind it makes it lazy
  IF Peek(p) = "?" THEN Give(Advance(p), Quantifier(min, max, FALSE, p.node))
  ELSE Give(p, Quantifier(min, max, TRUE, p.node))
Braced(p) ==
  LET min == Digits(Advance(p), <<>>)
      low == Skip(p, 1 + Len(min))
      max == Digits(Advance(low), <<>>)
      ranged == Peek(low) = ","
      high == IF ranged THEN Skip(low, 1 + Len(max)) ELSE low
      end == Expect(high, "}")
      most == IF ~ranged THEN Number(min) ELSE IF max = <<>> THEN NoMax ELSE Number(max)
  IN IF min = <<>> \/ end.failed \/ (most # NoMax /\ most < Number(min)) THEN Fail(p)
     ELSE Quantified(end, Number(min), most)
ParseQuantifier(p) ==
  CASE p.failed -> p
    [] ~p.failed /\ Peek(p) = "*" -> Quantified(Advance(p), 0, NoMax)
    [] ~p.failed /\ Peek(p) = "+" -> Quantified(Advance(p), 1, NoMax)
    [] ~p.failed /\ Peek(p) = "?" -> Quantified(Advance(p), 0, 1)
    [] ~p.failed /\ LooksLikeQuantifier(p) -> Braced(p)
    [] OTHER -> p

-----------------------------------------------------------------------------
(* Groups, terms, alternatives *)

(* What comes next, behind the parts of it that were read.                 *)
RECURSIVE Parse(_, _, _)
ParseDisjunction(p) == Parse("Disjunction", p, <<>>)
Body(p) == Parse("Body", p, <<>>)

Around(p, positive, behind) == LET body == Body(p) IN Give(body, Lookaround(positive, behind, body.node))
Capturing(p) ==
  LET index == p.captures + 1
      body == Body([p EXCEPT !.captures = index])
  IN Give(body, Capture(index, body.node))
RECURSIVE NameFrom(_, _)
NameFrom(p, name) == IF Peek(p) \in {"", ">"} THEN name ELSE NameFrom(Advance(p), Append(name, Peek(p)))
Named(p) ==
  LET name == NameFrom(p, <<>>)
      start == Advance(Skip(p, Len(name)))
  IN IF name = <<>> THEN Fail(p) ELSE Capturing([start EXCEPT !.names = (name :> (p.captures + 1)) @@ @])

ParseGroup(p) ==
  LET kind == PeekAt(p, 2)
      then == PeekAt(p, 3)
      body == Body(Skip(p, 3))
  IN CASE PeekAt(p, 1) # "?" -> Capturing(Advance(p))
       [] PeekAt(p, 1) = "?" /\ kind = ":" -> Give(body, NonCapturing(body.node))
       [] PeekAt(p, 1) = "?" /\ kind \in {"=", "!"} -> Around(Skip(p, 3), kind = "=", FALSE)
       [] PeekAt(p, 1) = "?" /\ kind = "<" ->
            IF then \in {"=", "!"} THEN Around(Skip(p, 4), then = "=", TRUE) ELSE Named(Skip(p, 3))
       [] OTHER -> Fail(p)

ParseAtom(p) ==
  CASE Peek(p) = "^" -> Give(Advance(p), Assertion("StartOfInput"))
    [] Peek(p) = "$" -> Give(Advance(p), Assertion("EndOfInput"))
    [] Peek(p) = "." -> Give(Advance(p), AnyChar)
    [] Peek(p) = "(" -> ParseGroup(p)
    [] Peek(p) = "[" -> ParseClass(p)
    [] Peek(p) = "\\" -> ParseEscape(Advance(p))
    [] Peek(p) \in {"*", "+", "?"} \/ LooksLikeQuantifier(p) -> Fail(p)
    [] OTHER -> Give(Advance(p), Char(Peek(p)))

ParseSequence(p, elements) ==
  LET term == Parse("Term", p, <<>>)
  IN CASE p.failed -> p
       [] ~p.failed /\ Peek(p) \in {"", "|", ")"} ->
            Give(p, IF elements = <<>> THEN Empty ELSE IF Len(elements) = 1 THEN elements[1] ELSE Concatenation(elements))
       [] OTHER -> IF term.failed THEN term ELSE Parse("Sequence", term, Append(elements, term.node))

Alternatives(p, read) ==
  LET alternative == Parse("Sequence", p, <<>>)
      all == Append(read, alternative.node)
  IN IF alternative.failed THEN alternative
     ELSE IF Peek(alternative) = "|" THEN Parse("Disjunction", Advance(alternative), all)
     ELSE Give(alternative, IF Len(all) = 1 THEN all[1] ELSE Disjunction(all))

Parse(goal, p, read) ==
  CASE goal = "Disjunction" -> Alternatives(p, read)
    [] goal = "Sequence" -> ParseSequence(p, read)
    [] goal = "Term" -> ParseQuantifier(ParseAtom(p))
    [] goal = "Body" -> Expect(ParseDisjunction(p), ")")

ParsePattern(pattern) ==
  LET p == ParseDisjunction(NewParser(pattern))
  IN IF Peek(p) = "" THEN p ELSE Fail(p)
===============================================================================
