----------------------------- MODULE RegExpMeaning -----------------------------
(***************************************************************************)
(* What ECMAScript says a pattern matches, apart from the machine: a node  *)
(* leads from a place and the captures so far to others, in the order in   *)
(* which they are preferred.  Lookbehinds are left out.                    *)
(***************************************************************************)
EXTENDS RegExpAst, SequencesExt

State(cp, captures) == [cp |-> cp, captures |-> captures]

RECURSIVE Captured(_)   \* the groups in a node
Captured(node) ==
  CASE node[1] = "Capture" -> {node[2]} \cup Captured(node[3])
    [] node[1] \in {"Sequence", "Disjunction"} -> UNION {Captured(node[2][i]) : i \in DOMAIN node[2]}
    [] node[1] = "NonCapturing" -> Captured(node[2])
    [] node[1] = "Quantifier" -> Captured(node[5])
    [] node[1] = "Lookaround" -> Captured(node[4])
    [] OTHER -> {}
Cleared(x, node) ==
  [x EXCEPT !.captures = [i \in DOMAIN x.captures |-> IF i \in Captured(node) THEN <<>> ELSE x.captures[i]]]

HoldsAt(type, s, cp, flags) ==
  LET multiline == "m" \in flags
      boundary == (cp > 0 /\ IsWordChar(s[cp])) # (cp < Len(s) /\ IsWordChar(s[cp + 1]))
  IN CASE type = "StartOfInput" -> cp = 0 \/ (multiline /\ IsLineEnd(s[cp]))
       [] type = "EndOfInput" -> cp = Len(s) \/ (multiline /\ IsLineEnd(s[cp + 1]))
       [] type = "WordBoundary" -> boundary
       [] type = "NonWordBoundary" -> ~boundary
Accepts(node, c, flags) ==
  CASE node[1] = "Char" -> Same(c, node[2], "i" \in flags)
    [] node[1] = "CharacterClass" -> InClass(c, node[2], node[3], "i" \in flags)
    [] node[1] = "AnyChar" -> "s" \in flags \/ ~IsLineEnd(c)

RECURSIVE After(_, _, _, _), Repeated(_, _, _, _, _, _, _)
Each(node, s, flags, states) == FlattenSeq([i \in DOMAIN states |-> After(node, s, flags, states[i])])

(* An optional repetition that takes no character is none.                 *)
Repeated(node, min, max, greedy, s, flags, x) ==
  LET once == After(node, s, flags, Cleared(x, node))
      moves == SelectSeq(once, LAMBDA y : min > 0 \/ y.cp # x.cp)
      less(n) == IF n <= 0 THEN n ELSE n - 1
      more == FlattenSeq([i \in DOMAIN moves |->
                Repeated(node, less(min), less(max), greedy, s, flags, moves[i])])
  IN IF max = 0 THEN <<x>> ELSE IF min > 0 THEN more ELSE IF greedy THEN Append(more, x) ELSE <<x>> \o more

After(node, s, flags, x) ==
  LET kind == node[1]
      stays(holds) == IF holds THEN <<x>> ELSE <<>>
      inside == After(node[4], s, flags, x)
      span == x.captures[node[2]]
      width == IF span = <<>> THEN 0 ELSE span[2] - span[1]
      again == x.cp + width <= Len(s) /\ \A i \in 1..width : Same(s[span[1] + i], s[x.cp + i], "i" \in flags)
  IN CASE kind = "Empty" -> <<x>>
       [] kind \in {"Char", "CharacterClass", "AnyChar"} ->
            IF x.cp < Len(s) /\ Accepts(node, s[x.cp + 1], flags) THEN <<[x EXCEPT !.cp = @ + 1]>> ELSE <<>>
       [] kind = "Assertion" -> stays(HoldsAt(node[2], s, x.cp, flags))
       [] kind = "Sequence" -> FoldLeft(LAMBDA states, n : Each(n, s, flags, states), <<x>>, node[2])
       [] kind = "Disjunction" -> FlattenSeq([i \in DOMAIN node[2] |-> After(node[2][i], s, flags, x)])
       [] kind = "NonCapturing" -> After(node[2], s, flags, x)
       [] kind = "Capture" ->
            LET ends == After(node[3], s, flags, x)
            IN [i \in DOMAIN ends |-> [ends[i] EXCEPT !.captures[node[2]] = <<x.cp, ends[i].cp>>]]
       [] kind = "BackReference" -> IF again THEN <<[x EXCEPT !.cp = @ + width]>> ELSE <<>>
       [] kind = "Quantifier" -> Repeated(node[5], node[2], node[3], node[4], s, flags, x)
       [] kind = "Lookaround" ->
            IF ~node[2] THEN stays(inside = <<>>)
            ELSE IF inside = <<>> THEN <<>> ELSE <<[inside[1] EXCEPT !.cp = x.cp]>>

(* The match that is preferred: the first place where there is one, and    *)
(* there the first; none if there is none.                                 *)
None == <<>>
Matching(tree, captures, s, flags, start) ==
  LET all(place) == After(tree, s, flags, State(place, [i \in 1..captures |-> <<>>]))
      places == {place \in start..(IF "y" \in flags THEN start ELSE Len(s)) : all(place) # <<>>}
      first == CHOOSE place \in places : \A other \in places : place <= other
  IN IF places = {} THEN None
     ELSE <<[start |-> first, end |-> all(first)[1].cp, captures |-> all(first)[1].captures]>>
===============================================================================
