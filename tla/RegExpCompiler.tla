---------------------------- MODULE RegExpCompiler -----------------------------
(***************************************************************************)
(* From the tree of a pattern to the instructions of the machine           *)
(* (src/src/regexp/compiler.rs, bytecodes.rs).  The places that jumps name *)
(* are counted from 0; one whose end is not known yet is patched in later. *)
(* Every on_fail is FAIL_TARGET and left out, and so are the instructions  *)
(* Fail and PopBacktrack, which the compiler never emits.                  *)
(***************************************************************************)
EXTENDS RegExpParser

PushBacktrack(target) == <<"PushBacktrack", target>>
Jump(target) == <<"Jump", target>>
SetRegisterCurrentPosition(reg) == <<"SetRegisterCurrentPosition", reg>>
SetRegister(reg, value) == <<"SetRegister", reg, value>>
BeginLookaround(positive, behind) == <<"BeginLookaround", positive, behind>>
EndLookaround(positive) == <<"EndLookaround", positive>>
Succeed == <<"Succeed">>

Unknown == 0   \* the target of a jump that is patched later
Patch(code, pc, instruction) == [code EXCEPT ![pc + 1] = instruction]

AssertionCode(type, flags) ==
  CASE type = "StartOfInput" -> <<"CheckNotAtStart", "m" \in flags>>
    [] type = "EndOfInput" -> <<"CheckNotAtEnd", "m" \in flags>>
    [] type = "WordBoundary" -> <<"CheckWordBoundary", FALSE>>
    [] type = "NonWordBoundary" -> <<"CheckWordBoundary", TRUE>>

RECURSIVE CompileNode(_, _, _), CompileAlternatives(_, _, _), Optionally(_, _, _, _, _)

Times(code, n, body, flags) == FoldLeft(LAMBDA c, i : CompileNode(c, body, flags), code, [i \in 1..n |-> i])

(* An alternative that fails goes on with the next one, one that matches   *)
(* jumps behind them all.                                                  *)
CompileAlternatives(code, alternatives, flags) ==
  IF Len(alternatives) = 1 THEN CompileNode(code, alternatives[1], flags)
  ELSE LET first == CompileNode(Append(code, PushBacktrack(Unknown)), alternatives[1], flags)
           next == Patch(Append(first, Jump(Unknown)), Len(code), PushBacktrack(Len(first) + 1))
           all == CompileAlternatives(next, Tail(alternatives), flags)
       IN Patch(all, Len(first), Jump(Len(all)))

(* Up to n bodies: each may be left out, with those behind it.             *)
Optionally(code, n, greedy, body, flags) ==
  IF n = 0 THEN code
  ELSE LET more(c) == Optionally(CompileNode(c, body, flags), n - 1, greedy, body, flags)
           eager == more(Append(code, PushBacktrack(Unknown)))
           lazy == more(code \o <<PushBacktrack(Len(code) + 2), Jump(Unknown)>>)
       IN IF greedy THEN Patch(eager, Len(code), PushBacktrack(Len(eager)))
          ELSE Patch(lazy, Len(code) + 1, Jump(Len(lazy)))

Repeatedly(code, greedy, body, flags) ==
  LET eager == Append(CompileNode(Append(code, PushBacktrack(Unknown)), body, flags), Jump(Len(code)))
      start == code \o <<PushBacktrack(Len(code) + 2), Jump(Unknown)>>
      lazy == Append(CompileNode(start, body, flags), Jump(Len(code)))
  IN IF greedy THEN Patch(eager, Len(code), PushBacktrack(Len(eager)))
     ELSE Patch(lazy, Len(code) + 1, Jump(Len(lazy)))

CompileQuantifier(code, min, max, greedy, body, flags) ==
  LET mandatory == Times(code, min, body, flags)
  IN IF max = NoMax THEN Repeatedly(mandatory, greedy, body, flags)
     ELSE Optionally(mandatory, max - min, greedy, body, flags)

CompileNode(code, node, flags) ==
  LET kind == node[1]
  IN CASE kind = "Empty" -> code
       [] kind = "Char" -> Append(code, <<"CheckCharacter", node[2], "i" \in flags>>)
       [] kind = "CharacterClass" -> Append(code, <<"CheckCharacterClass", node[2], node[3], "i" \in flags>>)
       [] kind = "AnyChar" -> Append(code, <<"CheckAnyCharacter", "s" \in flags>>)
       [] kind = "Assertion" -> Append(code, AssertionCode(node[2], flags))
       [] kind = "Sequence" -> FoldLeft(LAMBDA c, n : CompileNode(c, n, flags), code, node[2])
       [] kind = "Disjunction" -> CompileAlternatives(code, node[2], flags)
       [] kind = "Capture" ->
            Append(CompileNode(Append(code, SetRegisterCurrentPosition(2 * node[2])), node[3], flags),
                   SetRegisterCurrentPosition(2 * node[2] + 1))
       [] kind = "NonCapturing" -> CompileNode(code, node[2], flags)
       [] kind = "BackReference" -> Append(code, <<"CheckBackReference", 2 * node[2], "i" \in flags>>)
       [] kind = "Quantifier" -> CompileQuantifier(code, node[2], node[3], node[4], node[5], flags)
       [] kind = "Lookaround" ->
            Append(CompileNode(Append(code, BeginLookaround(node[2], node[3])), node[4], flags), EndLookaround(node[2]))

(* The whole match is in the registers 0 and 1, the others begin unset.    *)
Compile(parsed, flags) ==
  LET registers == 2 * (parsed.captures + 1)
      unset == [i \in 1..registers - 2 |-> SetRegister(i + 1, -1)]
      body == CompileNode(<<SetRegisterCurrentPosition(0)>> \o unset, parsed.node, flags)
  IN [code |-> body \o <<SetRegisterCurrentPosition(1), Succeed>>,
      registers |-> registers, captures |-> parsed.captures, flags |-> flags]
===============================================================================
