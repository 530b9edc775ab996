----------------------------- MODULE RegExpMachine -----------------------------
(***************************************************************************)
(* The machine that runs a compiled pattern (src/src/regexp/interpreter.rs)*)
(* and those who call it: exec and test with their lastIndex               *)
(* (src/src/builtins/regexp.rs), and the loops of match, matchAll,         *)
(* replace, replaceAll, search and split (src/src/builtins/string.rs).     *)
(*                                                                         *)
(* A place in the code or in the subject is a number from 0, and a span is *)
(* a pair of places, the second behind its last character.                 *)
(***************************************************************************)
EXTENDS RegExpAst

CONSTANTS
  Patterns,     \* compiled: the code, how many registers and captures it has, the flags
  Subjects,     \* strings they are matched with
  Limits,       \* that split is given; a large one is none
  LastIndexes,  \* that a script sets
  MaxCalls      \* bound: calls of a behaviour

Unset == -1
Never == <<>>

(* What the compiler makes of every pattern: a match starts with the       *)
(* register 0 and ends with the register 1, and no jump goes between.      *)
WellFormed(p) ==
  LET size == Len(p.code)
  IN /\ p.captures \in Nat /\ p.registers = 2 * (p.captures + 1)
     /\ p.code \in Seq({p.code[i] : i \in DOMAIN p.code}) /\ size >= 3
     /\ p.code[1] = <<"SetRegisterCurrentPosition", 0>>
     /\ p.code[size - 1] = <<"SetRegisterCurrentPosition", 1>>
     /\ p.code[size] = <<"Succeed">>
     /\ \A i \in 2..size - 2 :
          /\ p.code[i][1] # "Succeed"
          /\ p.code[i][1] = "SetRegisterCurrentPosition" => p.code[i][2] \in 2..p.registers - 1
          /\ p.code[i][1] = "SetRegister" => p.code[i][2] \in 2..p.registers - 1 /\ p.code[i][3] = Unset
          /\ p.code[i][1] \in {"PushBacktrack", "Jump"} => p.code[i][2] \in 1..size - 2
          /\ p.code[i][1] = "CheckBackReference" => p.code[i][2] \in Nat
          /\ p.code[i][1] = "BeginLookaround" => p.code[i][2] \in BOOLEAN
ASSUME RegExpAssumption ==
  /\ \A p \in Patterns : WellFormed(p)
  /\ \A s \in Subjects : s \in Seq(STRING)
  /\ Limits \subseteq Nat /\ LastIndexes \subseteq Nat /\ MaxCalls \in Nat

VARIABLES
  re,           \* the regular expression
  lastIndex,    \* its property
  calls,        \* how many calls there were
  call,         \* the function called
  limit,        \* what split was given
  subject,      \* the string of the call
  cursor,       \* where the search began
  matches,      \* what the call found so far
  parts,        \* and what split cut off
  mode,         \* "idle", "running", "found", "missed", "panicked"
  at,           \* where the attempt began
  pc, cp,       \* the places in the code and in the subject
  registers,
  backtracks,   \* what to go on with when an instruction fails
  lookarounds,  \* the frames of the lookarounds begun
  lastPush      \* where a backtrack point was pushed last

attempt == <<at, pc, cp, registers, backtracks, lookarounds, lastPush>>
caller == <<re, lastIndex, calls, call, limit, subject, cursor, matches, parts>>
vars == <<caller, mode, attempt>>

Code == re.code
Flag(f) == f \in re.flags
End == Len(subject)
Fresh == [r \in 0..re.registers - 1 |-> Unset]

Init ==
  /\ re \in Patterns /\ lastIndex = 0 /\ calls = 0 /\ call = "exec" /\ limit = 0
  /\ subject = <<>> /\ cursor = 0 /\ matches = <<>> /\ parts = <<>>
  /\ mode = "idle" /\ at = 0 /\ pc = 0 /\ cp = 0 /\ registers = Fresh
  /\ backtracks = <<>> /\ lookarounds = <<>> /\ lastPush = Never

-----------------------------------------------------------------------------
(* Attempts *)

From(place) ==
  /\ at' = place /\ pc' = 0 /\ cp' = place /\ registers' = Fresh
  /\ backtracks' = <<>> /\ lookarounds' = <<>> /\ lastPush' = Never
Anchored == ~Flag("m") /\ Code[2][1] = "CheckNotAtStart"

(* RegExpInterpreter::execute; a sticky pattern is tried once, and one     *)
(* that begins with ^ only at 0.                                           *)
OnlyHere == Flag("y") \/ Anchored
Tried(start) == Flag("y") \/ ~Anchored \/ start = 0
Search(s, start) ==
  /\ cursor' = start
  /\ \/ start <= Len(s) /\ Tried(start) /\ From(start) /\ mode' = "running"
     \/ (start > Len(s) \/ ~Tried(start)) /\ From(0) /\ mode' = "missed"
MutMiss ==   \* tries behind the end of the subject
  \/ ~OnlyHere /\ at <= End /\ From(at + 1) /\ UNCHANGED mode
  \/ (OnlyHere \/ at > End) /\ From(0) /\ mode' = "missed"
Miss ==
  \/ ~OnlyHere /\ at < End /\ From(at + 1) /\ UNCHANGED mode
  \/ (OnlyHere \/ at = End) /\ From(0) /\ mode' = "missed"

(* An instruction fails, with these frames left: a negative lookaround     *)
(* around it holds, and else what was pushed last is tried.                *)
Top(s) == s[Len(s)]
Pop(s) == SubSeq(s, 1, Len(s) - 1)
InNegative(frames) == frames # <<>> /\ ~Top(frames).positive
Ends == {i \in pc..Len(Code) - 1 : Code[i + 1] = <<"EndLookaround", FALSE>>}
Holds(frames) ==
  /\ InNegative(frames) /\ lookarounds' = Pop(frames) /\ cp' = Top(frames).cp
  /\ \E end \in Ends : (\A i \in Ends : end <= i) /\ pc' = end + 1
  /\ UNCHANGED <<mode, at, registers, backtracks, lastPush>>
MutResume(frames) ==   \* keeps what the groups took
  LET left == IF InNegative(frames) THEN Pop(frames) ELSE frames
      entry == Top(backtracks)
      depth == IF entry.depth < Len(left) THEN entry.depth ELSE Len(left)
  IN /\ backtracks # <<>> /\ pc' = entry.pc /\ cp' = entry.cp
     /\ backtracks' = Pop(backtracks) /\ lookarounds' = SubSeq(left, 1, depth)
     /\ UNCHANGED <<mode, at, lastPush, registers>>
Resume(frames) ==
  LET left == IF InNegative(frames) THEN Pop(frames) ELSE frames
      entry == Top(backtracks)
      depth == IF entry.depth < Len(left) THEN entry.depth ELSE Len(left)
  IN /\ backtracks # <<>>
     /\ pc' = entry.pc /\ cp' = entry.cp /\ registers' = entry.registers
     /\ backtracks' = Pop(backtracks) /\ lookarounds' = SubSeq(left, 1, depth)
     /\ UNCHANGED <<mode, at, lastPush>>
Fail(frames) ==
  \/ Holds(frames)
  \/ ~(InNegative(frames) /\ Ends # {}) /\ (Resume(frames) \/ (backtracks = <<>> /\ Miss))

Goes(places) ==   \* on, over some characters
  /\ cp' = cp + places /\ pc' = pc + 1
  /\ UNCHANGED <<mode, at, registers, backtracks, lookarounds, lastPush>>

-----------------------------------------------------------------------------
(* Instructions *)

At(name) == mode = "running" /\ Code[pc + 1][1] = name
Operand(i) == Code[pc + 1][i + 1]
Here == subject[cp + 1]
Before == subject[cp]

Takes ==   \* the character, where the instruction checks one
  /\ cp < End
  /\ CASE At("CheckCharacter") -> Same(Here, Operand(1), Operand(2))
       [] At("CheckCharacterClass") -> InClass(Here, Operand(1), Operand(2), Operand(3))
       [] At("CheckAnyCharacter") -> Operand(1) \/ ~IsLineEnd(Here)
CheckCharacter ==
  /\ At("CheckCharacter") \/ At("CheckCharacterClass") \/ At("CheckAnyCharacter")
  /\ (Takes /\ Goes(1)) \/ (~Takes /\ Fail(lookarounds))
  /\ UNCHANGED caller

Asserted ==
  CASE At("CheckNotAtStart") -> cp > 0 => Operand(1) /\ IsLineEnd(Before)
    [] At("CheckNotAtEnd") -> cp < End => Operand(1) /\ IsLineEnd(Here)
    [] At("CheckWordBoundary") -> ((cp > 0 /\ IsWordChar(Before)) # (cp < End /\ IsWordChar(Here))) # Operand(1)
CheckAssertion ==
  /\ At("CheckNotAtStart") \/ At("CheckNotAtEnd") \/ At("CheckWordBoundary")
  /\ (Asserted /\ Goes(0)) \/ (~Asserted /\ Fail(lookarounds))
  /\ UNCHANGED caller

(* A group that did not match is taken for the empty string; one that the  *)
(* pattern does not have is out of the registers' bounds.                  *)
CheckBackReference ==
  /\ At("CheckBackReference")
  /\ LET reg == Operand(1)
         from == registers[reg]
         to == registers[reg + 1]
         width == to - from
         repeats == cp + width <= End /\ \A i \in 1..width : Same(subject[from + i], subject[cp + i], Operand(2))
     IN \/ reg + 1 >= re.registers /\ mode' = "panicked" /\ UNCHANGED attempt
        \/ /\ reg + 1 < re.registers
           /\ \/ (from = Unset \/ to = Unset \/ from > to) /\ Goes(0)
              \/ /\ from # Unset /\ to # Unset /\ from <= to
                 /\ (repeats /\ Goes(width)) \/ (~repeats /\ Fail(lookarounds))
  /\ UNCHANGED caller

Sets(reg, value) ==
  /\ registers' = [registers EXCEPT ![reg] = value] /\ pc' = pc + 1
  /\ UNCHANGED <<caller, mode, at, cp, backtracks, lookarounds, lastPush>>
SetRegisterCurrentPosition == At("SetRegisterCurrentPosition") /\ Sets(Operand(1), cp)
SetRegister == At("SetRegister") /\ Sets(Operand(1), Operand(2))

MutPushBacktrack ==   \* pushes a point again
  /\ At("PushBacktrack") /\ lastPush' = <<pc, cp>> /\ pc' = pc + 1
  /\ backtracks' = Append(backtracks,
       [pc |-> Operand(1), cp |-> cp, registers |-> registers, depth |-> Len(lookarounds)])
  /\ UNCHANGED <<caller, mode, at, cp, registers, lookarounds>>
(* A point that was just pushed at this place is not pushed again.         *)
PushBacktrack ==
  /\ At("PushBacktrack")
  /\ \/ lastPush = <<pc, cp>> /\ pc' = Operand(1) /\ UNCHANGED <<backtracks, lastPush>>
     \/ /\ lastPush # <<pc, cp>> /\ lastPush' = <<pc, cp>> /\ pc' = pc + 1
        /\ backtracks' = Append(backtracks,
             [pc |-> Operand(1), cp |-> cp, registers |-> registers, depth |-> Len(lookarounds)])
  /\ UNCHANGED <<caller, mode, at, cp, registers, lookarounds>>

Jump ==
  /\ At("Jump") /\ pc' = Operand(1)
  /\ UNCHANGED <<caller, mode, at, cp, registers, backtracks, lookarounds, lastPush>>

(* A lookbehind goes forward as a lookahead does.                          *)
BeginLookaround ==
  /\ At("BeginLookaround")
  /\ lookarounds' = Append(lookarounds, [cp |-> cp, positive |-> Operand(1)]) /\ pc' = pc + 1
  /\ UNCHANGED <<caller, mode, at, cp, registers, backtracks, lastPush>>
EndLookaround ==
  /\ At("EndLookaround")
  /\ \/ lookarounds = <<>> /\ Goes(0)
     \/ /\ lookarounds # <<>> /\ Top(lookarounds).positive
        /\ cp' = Top(lookarounds).cp /\ lookarounds' = Pop(lookarounds) /\ pc' = pc + 1
        /\ UNCHANGED <<mode, at, registers, backtracks, lastPush>>
     \/ InNegative(lookarounds) /\ Fail(Pop(lookarounds))
  /\ UNCHANGED caller

Succeed == At("Succeed") /\ mode' = "found" /\ UNCHANGED <<caller, attempt>>

Step ==
  \/ CheckCharacter \/ CheckAssertion \/ CheckBackReference \/ SetRegisterCurrentPosition \/ SetRegister
  \/ PushBacktrack \/ Jump \/ BeginLookaround \/ EndLookaround \/ Succeed

-----------------------------------------------------------------------------
(* Callers *)

AtLeast(i, j) == IF i < j THEN j ELSE i
NoSpan == <<>>
Span(from, to) == IF from >= 0 /\ to >= from /\ to <= End THEN <<from, to>> ELSE NoSpan
Result ==
  LET start == AtLeast(registers[0], 0)
  IN [start |-> start, end |-> AtLeast(registers[1], start),
      captures |-> [i \in 1..re.captures |-> Span(registers[2 * i], registers[2 * i + 1])]]

Stateful == Flag("g") \/ Flag("y")
Idle == mode' = "idle" /\ From(0)
Begins(name, s) ==
  /\ mode = "idle" /\ calls < MaxCalls /\ calls' = calls + 1
  /\ call' = name /\ subject' = s /\ matches' = <<>> /\ parts' = <<>> /\ UNCHANGED re

SetLastIndex(n) ==
  /\ mode = "idle" /\ lastIndex' = n
  /\ UNCHANGED <<re, calls, call, limit, subject, cursor, matches, parts, mode, attempt>>

Exec(s) ==
  LET start == IF Stateful THEN lastIndex ELSE 0
  IN /\ Begins("exec", s) /\ UNCHANGED limit
     /\ \/ start > Len(s) /\ lastIndex' = 0 /\ cursor' = 0 /\ UNCHANGED <<mode, attempt>>
        \/ start <= Len(s) /\ Search(s, start) /\ UNCHANGED lastIndex
ExecEnds ==
  /\ call = "exec"
  /\ \/ mode = "found" /\ matches' = <<Result>> /\ lastIndex' = IF Stateful THEN Result.end ELSE lastIndex
     \/ mode = "missed" /\ lastIndex' = (IF Stateful THEN 0 ELSE lastIndex) /\ UNCHANGED matches
  /\ Idle /\ UNCHANGED <<re, calls, call, limit, subject, cursor, parts>>

(* Some take global patterns only, and match resets lastIndex.             *)
Loops == {"match", "matchAll", "replace", "replaceAll", "search"}
Loop(name, s) ==
  /\ name \in {"match", "matchAll", "replaceAll"} => Flag("g")
  /\ Begins(name, s) /\ Search(s, 0)
  /\ lastIndex' = IF name = "match" THEN 0 ELSE lastIndex
  /\ UNCHANGED limit
Once == call = "search" \/ (call = "replace" /\ ~Flag("g"))
MutFollowingStays(end) == end   \* also behind an empty match
MutFollowingNext(end) == cursor + 1   \* as behind an empty match
Following(end) == IF end = cursor THEN cursor + 1 ELSE end
LoopGoesOn ==
  /\ call \in Loops /\ mode = "found"
  /\ matches' = Append(matches, Result)
  /\ \/ (Once \/ Following(Result.end) > End) /\ Idle /\ UNCHANGED cursor
     \/ ~Once /\ Following(Result.end) <= End /\ Search(subject, Following(Result.end))
  /\ UNCHANGED <<re, lastIndex, calls, call, limit, subject, parts>>
LoopEnds ==
  /\ call \in Loops /\ mode = "missed"
  /\ Idle /\ UNCHANGED caller

(* split cuts between the matches and puts their captures between.         *)
Split(s, most) ==
  /\ Begins("split", s) /\ limit' = most /\ UNCHANGED lastIndex
  /\ \/ most = 0 /\ cursor' = 0 /\ UNCHANGED <<mode, attempt>>
     \/ most > 0 /\ Search(s, 0)
LastEnd == IF matches = <<>> THEN 0 ELSE Top(matches).end
CutOff == parts \o <<<<LastEnd, Result.start>>>> \o Result.captures
AtTheEnd == Result.start = End /\ LastEnd = End
SplitGoesOn ==
  /\ call = "split" /\ mode = "found" /\ ~AtTheEnd
  /\ matches' = Append(matches, Result)
  /\ \/ Len(CutOff) >= limit /\ parts' = SubSeq(CutOff, 1, limit) /\ Idle /\ UNCHANGED cursor
     \/ /\ Len(CutOff) < limit /\ Following(Result.end) <= End
        /\ parts' = CutOff /\ Search(subject, Following(Result.end))
     \/ /\ Len(CutOff) < limit /\ Following(Result.end) > End
        /\ parts' = Append(CutOff, <<Result.end, End>>) /\ Idle /\ UNCHANGED cursor
  /\ UNCHANGED <<re, lastIndex, calls, call, limit, subject>>
SplitEnds ==
  /\ call = "split" /\ (mode = "missed" \/ (mode = "found" /\ AtTheEnd))
  /\ parts' = Append(parts, <<LastEnd, End>>) /\ Idle
  /\ UNCHANGED <<re, lastIndex, calls, call, limit, subject, cursor, matches>>

Next ==
  \/ Step
  \/ \E n \in LastIndexes : SetLastIndex(n)
  \/ \E s \in Subjects : Exec(s) \/ \E name \in Loops : Loop(name, s)
  \/ \E s \in Subjects, most \in Limits : Split(s, most)
  \/ ExecEnds \/ LoopGoesOn \/ LoopEnds \/ SplitGoesOn \/ SplitEnds
Spec == Init /\ [][Next]_vars

-----------------------------------------------------------------------------
(* What holds *)

Places == 0..End
Spans == {NoSpan} \cup Places \X Places
Registers == [0..re.registers - 1 -> {Unset} \cup Places]

(* The places in the code and the subject are in them, and the registers   *)
(* are those of the pattern (RegExpInterpreter::match_at); the machine     *)
(* panics at a back reference only, when its group is none of the          *)
(* pattern's (state.registers[reg + 1]).                                   *)
PanicOK == mode = "panicked" => Code[pc + 1][1] = "CheckBackReference" /\ Operand(1) + 1 >= re.registers
TypeOK ==
  /\ WellFormed(re) /\ lastIndex \in Nat /\ calls \in 0..MaxCalls /\ call \in Loops \cup {"exec", "split"}
  /\ limit \in Nat /\ subject \in Subjects \cup {<<>>} /\ cursor \in Places
  /\ matches \in Seq([start : Places, end : Places, captures : [1..re.captures -> Spans]])
  /\ parts \in Seq(Spans) /\ mode \in {"idle", "running", "found", "missed", "panicked"}
  /\ at \in Places /\ pc \in 0..Len(Code) - 1 /\ cp \in Places /\ registers \in Registers
  /\ backtracks \in Seq([pc : 1..Len(Code) - 2, cp : Places, registers : Registers, depth : Nat])
  /\ lookarounds \in Seq([cp : Places, positive : BOOLEAN])
  /\ lastPush \in {Never} \cup (Nat \X Places) /\ PanicOK

(* Matches come in order and do not overlap, so what replace and split     *)
(* take between them, s_chars[last_end..m.start], is a slice; what a group *)
(* took does not begin before its match. The loops move their cursor on by *)
(* one behind an empty match at the cursor only (string.rs, m.end ==       *)
(* cursor), so an empty match found farther on is found again from its     *)
(* place: two matches may begin at one place, the first of them empty, as  *)
(* those of $ in "ab" do; never three, and a call finds no more matches    *)
(* than the subject has places.                                            *)
NoOverlap ==
  /\ \A i \in DOMAIN matches :
       /\ matches[i].start <= matches[i].end
       /\ \A k \in 1..re.captures :
            matches[i].captures[k] # NoSpan =>
              matches[i].start <= matches[i].captures[k][1] /\ matches[i].captures[k][1] <= matches[i].captures[k][2]
  /\ \A i, j \in DOMAIN matches : i < j => matches[i].end <= matches[j].start
NeverThrice == \A i, j, k \in DOMAIN matches : i < j /\ j < k => matches[i].start < matches[k].start
LoopsEnd == Len(matches) <= End + 1
MatchesInOrder == NoOverlap /\ NeverThrice /\ LoopsEnd

(* Every search of a loop begins behind the one before.                    *)
CursorAdvances == [][mode = "found" /\ mode' # "idle" => cursor' > cursor]_vars

(* What was pushed is not pushed again before a character is taken: no     *)
(* repetition goes on for ever (match_at, last_push_state).                *)
LoopsProgress ==
  \A i, j \in DOMAIN backtracks : i # j =>
    <<backtracks[i].pc, backtracks[i].cp>> # <<backtracks[j].pc, backtracks[j].cp>>
===============================================================================
