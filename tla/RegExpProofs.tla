----------------------------- MODULE RegExpProofs ------------------------------
(***************************************************************************)
(* For every program the compiler makes, every subject and every sequence  *)
(* of calls: the machine stays inside its code and the subject, the        *)
(* matches of a call come in order, and its searches advance.              *)
(***************************************************************************)
EXTENDS RegExpMachine, SequenceTheorems, TLAPS

-----------------------------------------------------------------------------
(* The inductive invariant *)

Inside == at..End   \* the places of an attempt
Size == Len(Code)
AttemptRegisters == [0..re.registers - 1 -> {Unset} \cup Inside]
Entries == [pc : 1..Size - 2, cp : Inside, registers : {f \in AttemptRegisters : f[0] = at}, depth : Nat]
Frames == [cp : Inside, positive : BOOLEAN]
Starts == re' = re /\ subject' = subject

(* An attempt takes nothing before the place where it began; once the      *)
(* first instruction ran the register 0 has this place, and at the last    *)
(* the register 1 has the end.                                             *)
AttemptOK ==
  /\ at \in Places /\ pc \in 0..Size - 1 /\ cp \in Inside /\ registers \in AttemptRegisters
  /\ IF pc = 0 THEN cp = at ELSE registers[0] = at
  /\ pc = Size - 1 => registers[1] = cp
  /\ backtracks \in Seq(Entries) /\ lookarounds \in Seq(Frames)
  /\ lastPush \in {Never} \cup (Nat \X Places)
SearchOK ==
  /\ mode \in {"running", "found"} => cursor <= at
  /\ mode = "found" => pc = Size - 1
  /\ PanicOK
Match == [start : Places, end : Places, captures : [1..re.captures -> Spans]]
CallerTypes ==
  /\ WellFormed(re) /\ lastIndex \in Nat /\ calls \in 0..MaxCalls /\ call \in Loops \cup {"exec", "split"}
  /\ limit \in Nat /\ subject \in Subjects \cup {<<>>} /\ cursor \in Places
  /\ matches \in Seq(Match) /\ parts \in Seq(Spans) /\ mode \in {"idle", "running", "found", "missed", "panicked"}
AtRest == at = 0 /\ pc = 0 /\ cp = 0 /\ registers = Fresh /\ backtracks = <<>> /\ lookarounds = <<>> /\ lastPush = Never
(* While a call runs, its matches end before the search going on, there is *)
(* a place before the cursor for each, and only the last may begin at the  *)
(* cursor.                                                                 *)
CallOK ==
  /\ mode = "idle" => AtRest
  /\ mode # "idle" => Len(matches) <= cursor /\ \A i \in DOMAIN matches : matches[i].end <= cursor
  /\ mode # "idle" => \A i, j \in DOMAIN matches : i < j => matches[i].start < cursor
  /\ mode # "idle" /\ call = "exec" => matches = <<>>
IInv == CallerTypes /\ AttemptOK /\ SearchOK /\ CallOK /\ NoOverlap /\ NeverThrice /\ LoopsEnd

-----------------------------------------------------------------------------
(* Sequences and code *)

(* What is below the top of a stack is what was there.                     *)
LEMMA PopType ==
  ASSUME NEW S, NEW s \in Seq(S), s # <<>>
  PROVE  /\ Top(s) \in S /\ Pop(s) \in Seq(S) /\ Len(Pop(s)) = Len(s) - 1
<1>1. Len(s) \in Nat \ {0}
  BY EmptySeq
<1>2. \A i \in 1..Len(s) : s[i] \in S
  BY ElementOfSeq
<1>3. Top(s) \in S
  BY <1>1, <1>2 DEF Top
<1> DEFINE n == Len(s) - 1
<1>4. n \in Nat /\ n \in Int /\ \A i \in 1..n : s[i] \in S
  BY <1>1, <1>2
<1> HIDE DEF n
<1>5. SubSeq(s, 1, n) \in Seq(S) /\ Len(SubSeq(s, 1, n)) = IF 1 <= n THEN n - 1 + 1 ELSE 0
  BY <1>4, SubSeqProperties
<1>6. SubSeq(s, 1, n) \in Seq(S) /\ Len(SubSeq(s, 1, n)) = n
  BY <1>4, <1>5
<1> QED BY <1>3, <1>6 DEF Pop, n

(* The first elements of a sequence are elements of it.                    *)
LEMMA PrefixType ==
  ASSUME NEW S, NEW s \in Seq(S), NEW n \in 0..Len(s)
  PROVE  SubSeq(s, 1, n) \in Seq(S)
  BY SMT

(* A program has three instructions and two registers or more.             *)
LEMMA Sizes ==
  ASSUME WellFormed(re)
  PROVE  /\ Size \in Nat /\ Size >= 3 /\ re.captures \in Nat
         /\ re.registers \in Nat /\ re.registers >= 2 /\ re.registers = 2 * re.captures + 2
  BY DEF WellFormed, Size, Code

(* Between its first and its last two instructions a program has others    *)
(* only, with operands in their ranges.                                    *)
LEMMA Middle ==
  ASSUME WellFormed(re), pc \in 0..Size - 1, NEW name, At(name), name \notin {"SetRegisterCurrentPosition", "Succeed"}
  PROVE  /\ pc \in 1..Size - 3
         /\ name = "SetRegister" => Operand(1) \in 2..re.registers - 1 /\ Operand(2) = Unset
         /\ name \in {"PushBacktrack", "Jump"} => Operand(1) \in 1..Size - 2
         /\ name = "CheckBackReference" => Operand(1) \in Nat
         /\ name = "BeginLookaround" => Operand(1) \in BOOLEAN
<1>1. Code[pc + 1][1] = name
  BY DEF At
<1>2. pc # 0 /\ pc # Size - 2 /\ pc # Size - 1
  <2>1. Code[1][1] = "SetRegisterCurrentPosition" /\ Code[Size - 1][1] = "SetRegisterCurrentPosition"
        /\ Code[Size][1] = "Succeed"
    BY DEF WellFormed, Size, Code
  <2> QED BY <1>1, <2>1, Sizes
<1>3. pc \in 1..Size - 3 /\ pc + 1 \in 2..Size - 2
  BY <1>2, Sizes
<1> DEFINE i == pc + 1
<1>4. /\ Code[i][1] = "SetRegister" => Code[i][2] \in 2..re.registers - 1 /\ Code[i][3] = Unset
      /\ Code[i][1] \in {"PushBacktrack", "Jump"} => Code[i][2] \in 1..Size - 2
      /\ Code[i][1] = "CheckBackReference" => Code[i][2] \in Nat
      /\ Code[i][1] = "BeginLookaround" => Code[i][2] \in BOOLEAN
  BY <1>3 DEF WellFormed, Size, Code
<1>5. Operand(1) = Code[i][2] /\ Operand(2) = Code[i][3]
  BY DEF Operand
<1> QED BY <1>1, <1>3, <1>4, <1>5

(* The registers that instructions set.                                    *)
LEMMA Setting ==
  ASSUME WellFormed(re), pc \in 0..Size - 1, At("SetRegisterCurrentPosition")
  PROVE  \/ pc = 0 /\ Operand(1) = 0
         \/ pc \in 1..Size - 3 /\ Operand(1) \in 2..re.registers - 1
         \/ pc = Size - 2 /\ Operand(1) = 1
<1>1. Code[pc + 1][1] = "SetRegisterCurrentPosition" /\ Operand(1) = Code[pc + 1][2]
  BY DEF At, Operand
<1>2. Code[1][2] = 0 /\ Code[Size - 1][2] = 1 /\ Code[Size][1] = "Succeed"
  BY DEF WellFormed, Size, Code
<1>3. CASE pc \in 1..Size - 3
  <2>1. pc + 1 \in 2..Size - 2
    BY <1>3, Sizes
  <2> QED BY <1>1, <1>3, <2>1 DEF WellFormed, Size, Code
<1>4. CASE pc = 0
  BY <1>1, <1>2, <1>4
<1>5. CASE pc = Size - 2
  <2>1. pc + 1 = Size - 1
    BY <1>5, Sizes
  <2> QED BY <1>1, <1>2, <1>5, <2>1
<1>6. pc # Size - 1
  BY <1>1, <1>2, Sizes
<1>7. pc \in 1..Size - 3 \/ pc = 0 \/ pc = Size - 2
  BY <1>6, Sizes
<1> QED BY <1>3, <1>4, <1>5, <1>7

(* Behind the end of a negative lookaround the program goes on.            *)
LEMMA EndsInside ==
  ASSUME WellFormed(re), pc \in 0..Size - 1, NEW end \in Ends
  PROVE  end + 1 \in 1..Size - 2
<1>1. end \in pc..Size - 1 /\ Code[end + 1][1] = "EndLookaround"
  BY DEF Ends, Size
<1>2. Code[Size - 1][1] = "SetRegisterCurrentPosition" /\ Code[Size][1] = "Succeed"
  BY DEF WellFormed, Size, Code
<1> QED BY <1>1, <1>2, Sizes

(* Subjects have lengths.                                                  *)
LEMMA SubjectLength ==
  ASSUME NEW s \in Subjects \cup {<<>>}
  PROVE  Len(s) \in Nat
  BY RegExpAssumption

-----------------------------------------------------------------------------
(* Attempts *)

(* An attempt begins well wherever it begins.                              *)
LEMMA FromKeeps ==
  ASSUME WellFormed(re), re' = re, subject' \in Subjects \cup {<<>>},
         NEW place \in 0..Len(subject'), From(place)
  PROVE  AttemptOK' /\ at' = place /\ pc' = 0 /\ (place = 0 => AtRest')
<1>1. Len(subject') \in Nat
  BY SubjectLength
<1>2. registers' \in [0..re'.registers - 1 -> {Unset}]
  BY DEF From, Fresh
<1>3. at' = place /\ pc' = 0 /\ cp' = place /\ backtracks' = <<>> /\ lookarounds' = <<>> /\ lastPush' = Never
  BY DEF From
<1>4. Size' = Size /\ Size >= 3 /\ Size \in Nat
  BY Sizes DEF Size, Code
<1>5. registers' \in AttemptRegisters'
  BY <1>2 DEF AttemptRegisters
<1>6. backtracks' \in Seq(Entries') /\ lookarounds' \in Seq(Frames')
  BY <1>3, EmptySeq
<1>7. at' \in Places' /\ cp' \in Inside'
  BY <1>1, <1>3 DEF Places, Inside, End
<1>8. AttemptOK'
  BY <1>3, <1>4, <1>5, <1>6, <1>7 DEF AttemptOK
<1>9. place = 0 => AtRest'
  <2>1. registers' = Fresh'
    BY DEF From, Fresh
  <2> QED BY <1>3, <2>1 DEF AtRest
<1> QED BY <1>3, <1>8, <1>9

(* A step of the machine, with what it starts from.                        *)
Running ==
  /\ WellFormed(re) /\ subject \in Subjects \cup {<<>>} /\ cursor \in Places
  /\ AttemptOK /\ SearchOK /\ mode = "running" /\ UNCHANGED caller
Kept == AttemptOK' /\ SearchOK' /\ mode' \in {"running", "missed", "found", "panicked"}

(* What a step of the machine does not touch.                              *)
LEMMA Untouched ==
  ASSUME Running
  PROVE  /\ re' = re /\ subject' = subject /\ cursor' = cursor
         /\ Size' = Size /\ End' = End /\ Places' = Places
         /\ End \in Nat /\ cursor \in Nat /\ at \in Nat /\ cursor <= at /\ at <= End /\ Size \in Nat /\ Size >= 3
<1>1. re' = re /\ subject' = subject /\ cursor' = cursor
  BY DEF Running, caller
<1>2. End \in Nat
  BY SubjectLength DEF Running, End
<1>3. Size \in Nat /\ Size >= 3
  BY Sizes DEF Running
<1>4. cursor \in 0..End /\ at \in 0..End /\ cursor <= at
  BY DEF Running, AttemptOK, SearchOK, Places
<1> QED BY <1>1, <1>2, <1>3, <1>4 DEF Size, Code, End, Places

(* While an attempt goes on, what it may hold stays the same.              *)
LEMMA SameAttempt ==
  ASSUME Running, at' = at
  PROVE  /\ Inside' = Inside /\ AttemptRegisters' = AttemptRegisters
         /\ Entries' = Entries /\ Frames' = Frames
  BY Untouched DEF Inside, AttemptRegisters, Entries, Frames

(* So such a step keeps the invariant if the new values are in these sets. *)
LEMMA Continues ==
  ASSUME Running, at' = at, mode' = "running", pc' \in 1..Size - 1, cp' \in Inside,
         registers' \in AttemptRegisters, registers'[0] = at, pc' = Size - 1 => registers'[1] = cp',
         backtracks' \in Seq(Entries), lookarounds' \in Seq(Frames),
         lastPush' \in {Never} \cup (Nat \X Places)
  PROVE  Kept
<1>1. pc' \in 0..Size' - 1
  BY Untouched
<1>2. at' \in Places'
  BY Untouched DEF Running, AttemptOK
<1>3. AttemptOK'
  BY <1>1, <1>2, SameAttempt, Untouched DEF AttemptOK
<1>4. SearchOK'
  BY Untouched DEF SearchOK, PanicOK
<1> QED BY <1>3, <1>4 DEF Kept

(* An attempt that fails is followed by one that begins well, or by none.  *)
LEMMA MissKeeps ==
  ASSUME Running, Miss
  PROVE  Kept
<1>1. CASE From(at + 1) /\ at < End /\ mode' = mode
  <2>1. at + 1 \in 0..Len(subject')
    BY <1>1, Untouched DEF End
  <2>2. AttemptOK' /\ at' = at + 1
    BY <1>1, <2>1, FromKeeps, Untouched DEF Running
  <2> QED BY <1>1, <2>2, Untouched DEF Kept, SearchOK, PanicOK, Running
<1>2. CASE From(0) /\ mode' = "missed"
  <2>1. 0 \in 0..Len(subject')
    BY Untouched DEF End
  <2>2. AttemptOK'
    BY <1>2, <2>1, FromKeeps, Untouched DEF Running
  <2> QED BY <1>2, <2>2 DEF Kept, SearchOK, PanicOK
<1> QED BY <1>1, <1>2 DEF Miss

(* Behind a negative lookaround the attempt goes on where it began.        *)
LEMMA HoldsKeeps ==
  ASSUME Running, pc \in 1..Size - 3, NEW frames \in Seq(Frames), Holds(frames)
  PROVE  Kept
<1>1. /\ frames # <<>> /\ lookarounds' = Pop(frames) /\ cp' = Top(frames).cp
      /\ UNCHANGED <<mode, at, registers, backtracks, lastPush>>
  BY DEF Holds, InNegative
<1>2. PICK end \in Ends : pc' = end + 1
  BY DEF Holds
<1>3. Top(frames) \in Frames /\ Pop(frames) \in Seq(Frames)
  BY <1>1, PopType
<1>4. pc \in 0..Size - 1 /\ pc > 0
  BY Untouched
<1>5. pc' \in 1..Size - 2
  BY <1>2, <1>4, EndsInside DEF Running
<1>6. cp' \in Inside
  BY <1>1, <1>3 DEF Frames
<1> QED BY <1>1, <1>3, <1>4, <1>5, <1>6, Continues, Untouched DEF Running, AttemptOK

(* So it does at what was pushed last.                                     *)
LEMMA ResumeKeeps ==
  ASSUME Running, NEW frames \in Seq(Frames), Resume(frames)
  PROVE  Kept
<1> DEFINE left == IF InNegative(frames) THEN Pop(frames) ELSE frames
           entry == Top(backtracks)
           depth == IF entry.depth < Len(left) THEN entry.depth ELSE Len(left)
<1>1. /\ backtracks # <<>>
      /\ pc' = entry.pc /\ cp' = entry.cp /\ registers' = entry.registers
      /\ backtracks' = Pop(backtracks) /\ lookarounds' = SubSeq(left, 1, depth)
      /\ UNCHANGED <<mode, at, lastPush>>
  BY DEF Resume
<1>2. left \in Seq(Frames)
  <2>1. CASE InNegative(frames)
    BY <2>1, PopType DEF InNegative
  <2> QED BY <2>1
<1>3. entry \in Entries /\ Pop(backtracks) \in Seq(Entries)
  BY <1>1, PopType DEF Running, AttemptOK
<1>4. depth \in 0..Len(left)
  BY <1>2, <1>3, LenProperties DEF Entries
<1> HIDE DEF left, entry, depth
<1>5. lookarounds' \in Seq(Frames)
  BY <1>1, <1>2, <1>4, PrefixType
<1>6. pc' \in 1..Size - 2 /\ cp' \in Inside /\ registers' \in AttemptRegisters /\ registers'[0] = at
  BY <1>1, <1>3 DEF Entries
<1> QED BY <1>1, <1>3, <1>5, <1>6, Continues, Untouched DEF Running, AttemptOK

(* Whatever an instruction that fails does, the invariant is kept.         *)
LEMMA FailKeeps ==
  ASSUME Running, pc \in 1..Size - 3, NEW frames \in Seq(Frames), Fail(frames)
  PROVE  Kept
  BY HoldsKeeps, ResumeKeeps, MissKeeps DEF Fail

(* An instruction that holds goes on over what it took.                    *)
LEMMA GoesKeeps ==
  ASSUME Running, pc \in 1..Size - 3, NEW places \in Nat, cp + places <= End, Goes(places)
  PROVE  Kept
<1>1. cp \in Nat /\ cp >= at /\ at \in Nat /\ End \in Nat
  BY Untouched DEF Running, AttemptOK, Inside
<1>2. cp' \in Inside /\ pc' \in 1..Size - 2
  BY <1>1, Untouched DEF Goes, Inside
<1> QED BY <1>2, Continues, Untouched DEF Goes, Running, AttemptOK

(* One that leaves the attempt as it is keeps what it may hold.            *)
LEMMA StopKeeps ==
  ASSUME Running, UNCHANGED attempt,
         \/ mode' = "panicked" /\ Code[pc + 1][1] = "CheckBackReference" /\ Operand(1) + 1 >= re.registers
         \/ mode' = "found" /\ pc = Size - 1
  PROVE  Kept
<1>1. /\ at' = at /\ pc' = pc /\ cp' = cp /\ registers' = registers
      /\ backtracks' = backtracks /\ lookarounds' = lookarounds /\ lastPush' = lastPush
  BY DEF attempt
<1>2. AttemptOK'
  BY <1>1, SameAttempt, Untouched DEF AttemptOK, Running
<1>3. SearchOK'
  BY <1>1, Untouched DEF SearchOK, PanicOK, Operand, Code
<1> QED BY <1>2, <1>3 DEF Kept

-----------------------------------------------------------------------------
(* Instructions *)

LEMMA CheckCharacterKeeps ==
  ASSUME Running, CheckCharacter
  PROVE  Kept
<1>1. pc \in 1..Size - 3
  BY Middle DEF CheckCharacter, Running, AttemptOK
<1>2. lookarounds \in Seq(Frames) /\ cp \in Nat
  BY Untouched DEF Running, AttemptOK, Inside
<1>3. CASE Takes /\ Goes(1)
  <2>1. cp + 1 <= End
    BY <1>2, <1>3, Untouched DEF Takes
  <2> QED BY <1>1, <1>3, <2>1, GoesKeeps
<1>4. CASE Fail(lookarounds)
  BY <1>1, <1>2, <1>4, FailKeeps
<1> QED BY <1>3, <1>4 DEF CheckCharacter

LEMMA CheckAssertionKeeps ==
  ASSUME Running, CheckAssertion
  PROVE  Kept
<1>1. pc \in 1..Size - 3
  BY Middle DEF CheckAssertion, Running, AttemptOK
<1>2. lookarounds \in Seq(Frames) /\ cp + 0 <= End
  BY Untouched DEF Running, AttemptOK, Inside
<1>3. CASE Goes(0)
  BY <1>1, <1>2, <1>3, GoesKeeps
<1>4. CASE Fail(lookarounds)
  BY <1>1, <1>2, <1>4, FailKeeps
<1> QED BY <1>3, <1>4 DEF CheckAssertion

LEMMA CheckBackReferenceKeeps ==
  ASSUME Running, CheckBackReference
  PROVE  Kept
<1> DEFINE reg == Operand(1)
           from == registers[reg]
           to == registers[reg + 1]
           width == to - from
<1>1. pc \in 1..Size - 3 /\ reg \in Nat
  BY Middle DEF CheckBackReference, Running, AttemptOK
<1>2. lookarounds \in Seq(Frames) /\ cp + 0 <= End
  BY Untouched DEF Running, AttemptOK, Inside
<1>3. CASE reg + 1 >= re.registers /\ mode' = "panicked" /\ UNCHANGED attempt
  BY <1>3, StopKeeps DEF CheckBackReference, At
<1>4. CASE Goes(0)
  BY <1>1, <1>2, <1>4, GoesKeeps
<1>5. CASE Fail(lookarounds)
  BY <1>1, <1>2, <1>5, FailKeeps
<1>6. CASE reg + 1 < re.registers /\ from # Unset /\ to # Unset /\ from <= to /\ cp + width <= End /\ Goes(width)
  <2>1. reg \in 0..re.registers - 1 /\ reg + 1 \in 0..re.registers - 1
    BY <1>1, <1>6, Sizes DEF Running
  <2>2. from \in Nat /\ to \in Nat
    BY <1>6, <2>1, Untouched DEF Running, AttemptOK, AttemptRegisters, Inside
  <2>3. width \in Nat
    BY <1>6, <2>2
  <2> QED BY <1>1, <1>6, <2>3, GoesKeeps
<1> QED BY <1>3, <1>4, <1>5, <1>6 DEF CheckBackReference

LEMMA SetRegisterKeeps ==
  ASSUME Running, SetRegisterCurrentPosition \/ SetRegister
  PROVE  Kept
<1>0. /\ registers \in AttemptRegisters /\ cp \in Inside /\ pc \in 0..Size - 1
      /\ re.registers \in Nat /\ re.registers >= 2
      /\ backtracks \in Seq(Entries) /\ lookarounds \in Seq(Frames) /\ lastPush \in {Never} \cup (Nat \X Places)
  BY Sizes DEF Running, AttemptOK
<1>1. CASE SetRegisterCurrentPosition
  <2> DEFINE reg == Operand(1)
  <2>1. /\ registers' = [registers EXCEPT ![reg] = cp] /\ pc' = pc + 1
        /\ UNCHANGED <<mode, at, cp, backtracks, lookarounds, lastPush>>
    BY <1>1 DEF SetRegisterCurrentPosition, Sets
  <2>2. \/ pc = 0 /\ reg = 0
        \/ pc \in 1..Size - 3 /\ reg \in 2..re.registers - 1
        \/ pc = Size - 2 /\ reg = 1
    BY <1>1, Setting DEF SetRegisterCurrentPosition, Running, AttemptOK
  <2> HIDE DEF reg
  <2>3. reg \in 0..re.registers - 1 /\ registers' \in AttemptRegisters
    BY <1>0, <2>1, <2>2 DEF AttemptRegisters
  <2>4. registers'[0] = at
    BY <1>0, <2>1, <2>2, Untouched DEF Running, AttemptOK, AttemptRegisters
  <2>5. pc' \in 1..Size - 1
    BY <1>0, <2>1, <2>2, Untouched
  <2>6. pc' = Size - 1 => registers'[1] = cp'
    BY <1>0, <2>1, <2>2, Untouched DEF AttemptRegisters
  <2> QED BY <1>0, <2>1, <2>3, <2>4, <2>5, <2>6, Continues DEF Running
<1>2. CASE SetRegister
  <2>1. /\ registers' = [registers EXCEPT ![Operand(1)] = Operand(2)] /\ pc' = pc + 1
        /\ UNCHANGED <<mode, at, cp, backtracks, lookarounds, lastPush>>
    BY <1>2 DEF SetRegister, Sets
  <2>2. pc \in 1..Size - 3 /\ Operand(1) \in 2..re.registers - 1 /\ Operand(2) = Unset
    BY <1>0, <1>2, Middle DEF SetRegister, Running
  <2>3. registers' \in AttemptRegisters /\ registers'[0] = registers[0]
    BY <1>0, <2>1, <2>2 DEF AttemptRegisters
  <2>4. registers'[0] = at
    BY <2>2, <2>3 DEF Running, AttemptOK
  <2>5. pc' \in 1..Size - 2
    BY <2>1, <2>2, Untouched
  <2> QED BY <1>0, <2>1, <2>3, <2>4, <2>5, Untouched, Continues DEF Running
<1> QED BY <1>1, <1>2

LEMMA PushBacktrackKeeps ==
  ASSUME Running, PushBacktrack
  PROVE  Kept
<1> DEFINE entry == [pc |-> Operand(1), cp |-> cp, registers |-> registers, depth |-> Len(lookarounds)]
<1>1. pc \in 1..Size - 3 /\ Operand(1) \in 1..Size - 2
  BY Middle DEF PushBacktrack, Running, AttemptOK
<1>2. /\ registers \in AttemptRegisters /\ registers[0] = at /\ cp \in Inside /\ cp \in Places
      /\ backtracks \in Seq(Entries) /\ lookarounds \in Seq(Frames) /\ lastPush \in {Never} \cup (Nat \X Places)
  BY <1>1, Untouched DEF Running, AttemptOK, Inside, Places
<1>3. UNCHANGED <<mode, at, cp, registers, lookarounds>>
  BY DEF PushBacktrack
<1>4. CASE pc' = Operand(1) /\ UNCHANGED <<backtracks, lastPush>>
  BY <1>1, <1>2, <1>3, <1>4, Untouched, Continues DEF Running
<1>5. CASE lastPush' = <<pc, cp>> /\ pc' = pc + 1 /\ backtracks' = Append(backtracks, entry)
  <2>1. entry \in Entries
    BY <1>1, <1>2, LenProperties DEF Entries
  <2> HIDE DEF entry
  <2>2. backtracks' \in Seq(Entries)
    BY <1>2, <1>5, <2>1
  <2>3. lastPush' \in Nat \X Places
    BY <1>1, <1>2, <1>5, Untouched
  <2>4. pc' \in 1..Size - 2
    BY <1>1, <1>5, Untouched
  <2> QED BY <1>2, <1>3, <2>2, <2>3, <2>4, Untouched, Continues DEF Running
<1> QED BY <1>4, <1>5 DEF PushBacktrack

LEMMA JumpKeeps ==
  ASSUME Running, Jump
  PROVE  Kept
<1>1. pc \in 1..Size - 3 /\ Operand(1) \in 1..Size - 2
  BY Middle DEF Jump, Running, AttemptOK
<1>2. pc' = Operand(1) /\ UNCHANGED <<mode, at, cp, registers, backtracks, lookarounds, lastPush>>
  BY DEF Jump
<1> QED BY <1>1, <1>2, Untouched, Continues DEF Running, AttemptOK

LEMMA LookaroundKeeps ==
  ASSUME Running, BeginLookaround \/ EndLookaround
  PROVE  Kept
<1>0. lookarounds \in Seq(Frames) /\ cp \in Inside /\ cp + 0 <= End
  BY Untouched DEF Running, AttemptOK, Inside
<1>1. CASE BeginLookaround
  <2> DEFINE frame == [cp |-> cp, positive |-> Operand(1)]
  <2>1. pc \in 1..Size - 3 /\ Operand(1) \in BOOLEAN
    BY <1>1, Middle DEF BeginLookaround, Running, AttemptOK
  <2>2. frame \in Frames
    BY <1>0, <2>1 DEF Frames
  <2>3. /\ lookarounds' = Append(lookarounds, frame) /\ pc' = pc + 1
        /\ UNCHANGED <<mode, at, cp, registers, backtracks, lastPush>>
    BY <1>1 DEF BeginLookaround
  <2> HIDE DEF frame
  <2>4. lookarounds' \in Seq(Frames) /\ pc' \in 1..Size - 2
    BY <1>0, <2>1, <2>2, <2>3, Untouched
  <2> QED BY <2>1, <2>3, <2>4, Untouched, Continues DEF Running, AttemptOK
<1>2. CASE EndLookaround
  <2>1. pc \in 1..Size - 3
    BY <1>2, Middle DEF EndLookaround, Running, AttemptOK
  <2>2. CASE Goes(0)
    BY <1>0, <2>1, <2>2, GoesKeeps
  <2>3. lookarounds # <<>> => Top(lookarounds) \in Frames /\ Pop(lookarounds) \in Seq(Frames)
    BY <1>0, PopType
  <2>4. CASE /\ lookarounds # <<>> /\ cp' = Top(lookarounds).cp /\ lookarounds' = Pop(lookarounds) /\ pc' = pc + 1
             /\ UNCHANGED <<mode, at, registers, backtracks, lastPush>>
    <3>1. cp' \in Inside /\ lookarounds' \in Seq(Frames) /\ pc' \in 1..Size - 2
      BY <2>1, <2>3, <2>4, Untouched DEF Frames
    <3> QED BY <2>1, <2>4, <3>1, Untouched, Continues DEF Running, AttemptOK
  <2>5. CASE InNegative(lookarounds) /\ Fail(Pop(lookarounds))
    BY <2>1, <2>3, <2>5, FailKeeps DEF InNegative
  <2> QED BY <1>2, <2>2, <2>4, <2>5 DEF EndLookaround
<1> QED BY <1>1, <1>2

LEMMA SucceedKeeps ==
  ASSUME Running, Succeed
  PROVE  Kept
<1>1. Code[pc + 1][1] = "Succeed" /\ pc \in 0..Size - 1 /\ mode' = "found" /\ UNCHANGED attempt
  BY DEF Succeed, At, Running, AttemptOK
<1>2. Code[1][1] = "SetRegisterCurrentPosition" /\ Code[Size - 1][1] = "SetRegisterCurrentPosition"
      /\ \A i \in 2..Size - 2 : Code[i][1] # "Succeed"
  <2>1. WellFormed(re)
    BY DEF Running
  <2>2. Code[1][1] = "SetRegisterCurrentPosition" /\ Code[Size - 1][1] = "SetRegisterCurrentPosition"
    BY <2>1 DEF WellFormed, Code, Size
  <2>3. \A i \in 2..Size - 2 : Code[i][1] # "Succeed"
    BY <2>1 DEF WellFormed, Code, Size
  <2> QED BY <2>2, <2>3
<1>3. pc = Size - 1
  <2>1. pc # 0 /\ pc # Size - 2 /\ pc + 1 \notin 2..Size - 2
    BY <1>1, <1>2, Untouched
  <2> QED BY <1>1, <2>1, Untouched
<1> QED BY <1>1, <1>3, StopKeeps

(* Every instruction keeps what the attempt may hold.                      *)
LEMMA StepKeeps ==
  ASSUME CallerTypes, AttemptOK, SearchOK, Step
  PROVE  Kept /\ UNCHANGED caller /\ mode = "running"
<1>1. UNCHANGED caller /\ mode = "running"
  BY DEF Step, CheckCharacter, CheckAssertion, CheckBackReference, SetRegisterCurrentPosition, SetRegister, Sets,
         PushBacktrack, Jump, BeginLookaround, EndLookaround, Succeed, At, caller
<1>2. Running
  BY <1>1 DEF Running, CallerTypes
<1> QED BY <1>1, <1>2, CheckCharacterKeeps, CheckAssertionKeeps, CheckBackReferenceKeeps, SetRegisterKeeps,
           PushBacktrackKeeps, JumpKeeps, LookaroundKeeps, SucceedKeeps DEF Step

-----------------------------------------------------------------------------
(* Searches *)

(* A search that begins in the subject's places begins an attempt there,   *)
(* or misses at once.                                                      *)
LEMMA SearchBegins ==
  ASSUME WellFormed(re), re' = re, subject' \in Subjects \cup {<<>>}, NEW start \in 0..Len(subject'),
         Search(subject', start)
  PROVE  AttemptOK' /\ SearchOK' /\ cursor' = start /\ mode' \in {"running", "missed"}
<1>1. Len(subject') \in Nat
  BY SubjectLength
<1>2. cursor' = start
  BY DEF Search
<1>3. CASE From(start) /\ mode' = "running"
  <2>1. AttemptOK' /\ at' = start
    BY <1>3, FromKeeps
  <2> QED BY <1>1, <1>2, <1>3, <2>1 DEF SearchOK, PanicOK
<1>4. CASE From(0) /\ mode' = "missed"
  <2>1. AttemptOK'
    BY <1>1, <1>4, FromKeeps
  <2> QED BY <1>2, <1>4, <2>1 DEF SearchOK, PanicOK
<1> QED BY <1>3, <1>4 DEF Search

(* Between calls the machine rests, whatever the subject was.              *)
LEMMA IdleBegins ==
  ASSUME WellFormed(re), re' = re, subject' \in Subjects \cup {<<>>}, Idle
  PROVE  AttemptOK' /\ SearchOK' /\ AtRest' /\ mode' = "idle"
<1>1. Len(subject') \in Nat
  BY SubjectLength
<1>2. AttemptOK' /\ AtRest' /\ mode' = "idle"
  BY <1>1, FromKeeps DEF Idle
<1> QED BY <1>2 DEF SearchOK, PanicOK

(* A machine that rests and is left alone is one that Idle left.           *)
LEMMA StaysAtRest ==
  ASSUME AtRest, UNCHANGED attempt, re' = re
  PROVE  From(0)
  BY DEF AtRest, attempt, From

(* What a successful attempt found begins where the attempt did, and so do *)
(* the groups or behind it; it ends where the attempt ended.               *)
LEMMA ResultType ==
  ASSUME CallerTypes, AttemptOK, SearchOK, mode = "found"
  PROVE  /\ Result \in Match /\ Result.start = at /\ Result.end = cp
         /\ cursor \in Nat /\ at \in Nat /\ cp \in Nat /\ End \in Nat
         /\ cursor <= at /\ at <= cp /\ cp <= End
         /\ \A k \in 1..re.captures : Result.captures[k] # NoSpan =>
              at <= Result.captures[k][1] /\ Result.captures[k][1] <= Result.captures[k][2]
<1>1. pc = Size - 1 /\ cursor <= at
  BY DEF SearchOK
<1>2. Size \in Nat /\ Size >= 3 /\ re.captures \in Nat /\ re.registers = 2 * re.captures + 2
  BY Sizes DEF CallerTypes
<1>3. End \in Nat
  BY SubjectLength DEF CallerTypes, End
<1>4. registers[0] = at /\ registers[1] = cp /\ registers \in AttemptRegisters
  BY <1>1, <1>2 DEF AttemptOK
<1>5. at \in 0..End /\ cp \in at..End /\ cursor \in 0..End
  BY <1>3 DEF AttemptOK, Inside, Places, CallerTypes
<1>6. AtLeast(registers[0], 0) = at /\ AtLeast(registers[1], at) = cp
  BY <1>3, <1>4, <1>5 DEF AtLeast
<1> DEFINE span(k) == Span(registers[2 * k], registers[2 * k + 1])
<1>7. ASSUME NEW k \in 1..re.captures
      PROVE  span(k) \in Spans /\ (span(k) # NoSpan => at <= span(k)[1] /\ span(k)[1] <= span(k)[2])
  <2>1. 2 * k \in 0..re.registers - 1 /\ 2 * k + 1 \in 0..re.registers - 1
    BY <1>2
  <2> DEFINE from == registers[2 * k]  to == registers[2 * k + 1]
  <2>2. from \in {Unset} \cup Inside /\ to \in {Unset} \cup Inside
    BY <1>4, <2>1 DEF AttemptRegisters
  <2> HIDE DEF from, to
  <2>3. CASE from >= 0 /\ to >= from /\ to <= End
    <3>1. from \in at..End /\ to \in at..End
      BY <1>3, <1>5, <2>2, <2>3 DEF Inside, Unset
    <3>2. from \in Places /\ to \in Places
      BY <1>3, <1>5, <3>1 DEF Places
    <3>3. span(k) = <<from, to>>
      BY <2>3 DEF Span, from, to
    <3>4. span(k) \in Spans
      BY <3>2, <3>3 DEF Spans
    <3>5. span(k)[1] = from /\ span(k)[2] = to
      BY <3>3
    <3> QED BY <2>3, <3>1, <3>4, <3>5
  <2>4. CASE ~(from >= 0 /\ to >= from /\ to <= End)
    BY <2>4 DEF Span, Spans, from, to
  <2> QED BY <2>3, <2>4
<1> HIDE DEF span
<1>8. Result = [start |-> at, end |-> cp, captures |-> [k \in 1..re.captures |-> span(k)]]
  BY <1>6 DEF Result, span
<1>9. Result.start = at /\ Result.end = cp /\ Result.captures = [k \in 1..re.captures |-> span(k)]
  BY <1>8
<1>10. Result \in Match
  <2>1. at \in Places /\ cp \in Places
    BY <1>3, <1>5 DEF Places
  <2>2. [k \in 1..re.captures |-> span(k)] \in [1..re.captures -> Spans]
    BY <1>7
  <2> QED BY <1>8, <2>1, <2>2 DEF Match
<1>11. \A k \in 1..re.captures : Result.captures[k] = span(k)
  BY <1>9
<1> QED BY <1>1, <1>3, <1>5, <1>7, <1>9, <1>10, <1>11

-----------------------------------------------------------------------------
(* Calls *)

(* A call begins without matches, in a search or with nothing to do.       *)
LEMMA BeginsKeeps ==
  ASSUME IInv, NEW s \in Subjects, NEW name \in Loops \cup {"exec", "split"}, Begins(name, s),
         lastIndex' \in Nat, limit' \in Nat,
         \/ \E start \in 0..Len(s) : Search(s, start)
         \/ cursor' = 0 /\ UNCHANGED <<mode, attempt>>
  PROVE  IInv'
<1>1. /\ WellFormed(re) /\ re' = re /\ subject' = s /\ matches' = <<>> /\ parts' = <<>>
      /\ call' = name /\ calls' = calls + 1 /\ calls < MaxCalls /\ calls \in 0..MaxCalls /\ mode = "idle"
  BY DEF IInv, CallerTypes, Begins
<1>2. Len(s) \in Nat
  BY SubjectLength
<1>3. /\ AttemptOK' /\ SearchOK' /\ cursor' \in Places' /\ mode' \in {"idle", "running", "missed"}
      /\ mode' = "idle" => AtRest'
  <2>1. CASE \E start \in 0..Len(s) : Search(s, start)
    <3>1. PICK start \in 0..Len(s) : Search(s, start)
      BY <2>1
    <3>2. AttemptOK' /\ SearchOK' /\ cursor' = start /\ mode' \in {"running", "missed"}
      BY <1>1, <3>1, SearchBegins
    <3> QED BY <1>1, <3>2 DEF Places, End
  <2>2. CASE cursor' = 0 /\ UNCHANGED <<mode, attempt>>
    <3>1. From(0) /\ mode' = "idle"
      BY <1>1, <2>2, StaysAtRest DEF IInv, CallOK
    <3>2. Idle
      BY <3>1 DEF Idle
    <3> QED BY <1>1, <1>2, <2>2, <3>2, IdleBegins DEF Places, End
  <2> QED BY <2>1, <2>2
<1>4. CallerTypes'
  <2>1. calls' \in 0..MaxCalls
    BY <1>1, RegExpAssumption
  <2>2. matches' \in Seq(Match') /\ parts' \in Seq(Spans')
    BY <1>1, EmptySeq
  <2> QED BY <1>1, <1>3, <2>1, <2>2 DEF CallerTypes
<1>5. NoOverlap' /\ NeverThrice' /\ LoopsEnd'
  BY <1>1, <1>2 DEF NoOverlap, NeverThrice, LoopsEnd, End
<1>6. CallOK'
  <2>1. Len(matches') = 0 /\ DOMAIN matches' = {} /\ cursor' >= 0
    BY <1>1, <1>2, <1>3 DEF Places, End
  <2> QED BY <1>1, <1>3, <2>1 DEF CallOK
<1> QED BY <1>3, <1>4, <1>5, <1>6 DEF IInv

(* One more match comes behind the others, and there is a place of the     *)
(* subject for it.                                                         *)
LEMMA OneMore ==
  ASSUME IInv, mode = "found", re' = re, subject' = subject, matches' = Append(matches, Result)
  PROVE  /\ matches' \in Seq(Match') /\ NoOverlap' /\ NeverThrice' /\ LoopsEnd'
         /\ Len(matches') <= cursor + 1 /\ \A i \in DOMAIN matches' : matches'[i].end <= Result.end
         /\ \A i, j \in DOMAIN matches' : i < j => matches'[i].start \in Nat /\ matches'[i].start <= cursor
<1> DEFINE n == Len(matches)
<1>1. /\ Result \in Match /\ Result.start = at /\ Result.end = cp
      /\ cursor \in Nat /\ at \in Nat /\ cp \in Nat /\ End \in Nat
      /\ cursor <= at /\ at <= cp /\ cp <= End
      /\ \A k \in 1..re.captures : Result.captures[k] # NoSpan =>
           at <= Result.captures[k][1] /\ Result.captures[k][1] <= Result.captures[k][2]
  BY ResultType DEF IInv
<1>2. matches \in Seq(Match) /\ n \in Nat /\ n <= cursor /\ \A i \in 1..n : matches[i].end <= cursor
  BY DEF IInv, CallerTypes, CallOK
<1>3. Match' = Match /\ End' = End
  BY DEF Match, Spans, Places, End
<1>4. /\ matches' \in Seq(Match) /\ Len(matches') = n + 1 /\ DOMAIN matches' = 1..n + 1
      /\ matches'[n + 1] = Result /\ \A i \in 1..n : matches'[i] = matches[i]
  BY <1>1, <1>2, AppendProperties
<1>5. \A i \in 1..n : matches[i].end \in Nat /\ matches[i].start \in Nat
  <2>1. \A i \in 1..n : matches[i] \in Match
    BY <1>2, ElementOfSeq
  <2> QED BY <1>1, <2>1 DEF Match, Places
<1> HIDE DEF n
<1>6. \A i \in 1..n + 1 : i \in 1..n \/ i = n + 1
  BY <1>2
<1>7. NoOverlap'
  <2>1. /\ \A i \in 1..n : /\ matches[i].start <= matches[i].end
                          /\ \A k \in 1..re.captures : matches[i].captures[k] # NoSpan =>
                               /\ matches[i].start <= matches[i].captures[k][1]
                               /\ matches[i].captures[k][1] <= matches[i].captures[k][2]
        /\ \A i, j \in 1..n : i < j => matches[i].end <= matches[j].start
    BY DEF IInv, NoOverlap, n
  <2>2. ASSUME NEW i \in 1..n + 1
        PROVE  /\ matches'[i].start <= matches'[i].end
               /\ \A k \in 1..re.captures : matches'[i].captures[k] # NoSpan =>
                    /\ matches'[i].start <= matches'[i].captures[k][1]
                    /\ matches'[i].captures[k][1] <= matches'[i].captures[k][2]
    <3>1. CASE i \in 1..n
      BY <1>4, <2>1, <3>1
    <3>2. CASE i = n + 1
      BY <1>1, <1>4, <3>2
    <3> QED BY <1>6, <3>1, <3>2
  <2>3. ASSUME NEW i \in 1..n + 1, NEW j \in 1..n + 1, i < j
        PROVE  matches'[i].end <= matches'[j].start
    <3>1. i \in 1..n /\ i # n + 1
      BY <1>2, <2>3
    <3>2. CASE j \in 1..n
      BY <1>4, <2>1, <2>3, <3>1, <3>2
    <3>3. CASE j = n + 1
      BY <1>1, <1>2, <1>4, <1>5, <3>1, <3>3
    <3> QED BY <1>6, <3>2, <3>3
  <2> QED BY <1>4, <2>2, <2>3 DEF NoOverlap
<1>8. LoopsEnd' /\ Len(matches') <= cursor + 1
  BY <1>1, <1>2, <1>3, <1>4 DEF LoopsEnd
<1>9. \A i \in DOMAIN matches' : matches'[i].end <= Result.end
  <2>1. \A i \in 1..n : matches[i].end <= cp
    BY <1>1, <1>2, <1>5
  <2> QED BY <1>1, <1>4, <1>6, <2>1
<1>10. \A i, j \in 1..n + 1 : i < j => i \in 1..n /\ matches'[i] = matches[i]
  BY <1>2, <1>4
<1>11. \A i \in 1..n : matches[i].start <= cursor
  <2>1. \A i \in 1..n : matches[i].start <= matches[i].end
    BY DEF IInv, NoOverlap, n
  <2> QED BY <1>1, <1>2, <1>5, <2>1
<1>12. NeverThrice'
  <2>1. /\ \A i, j \in 1..n : i < j => matches[i].start < cursor
        /\ \A i, j, k \in 1..n : i < j /\ j < k => matches[i].start < matches[k].start
    BY DEF IInv, CallOK, NeverThrice, n
  <2>2. ASSUME NEW i \in 1..n + 1, NEW j \in 1..n + 1, NEW k \in 1..n + 1, i < j, j < k
        PROVE  matches'[i].start < matches'[k].start
    <3>1. i \in 1..n /\ j \in 1..n /\ matches'[i] = matches[i]
      BY <1>2, <1>10, <2>2
    <3>2. CASE k \in 1..n
      BY <1>4, <2>1, <2>2, <3>1, <3>2
    <3>3. CASE k = n + 1
      BY <1>1, <1>4, <1>5, <2>1, <2>2, <3>1, <3>3
    <3> QED BY <1>6, <3>2, <3>3
  <2> QED BY <1>4, <2>2 DEF NeverThrice
<1> QED BY <1>3, <1>4, <1>5, <1>7, <1>8, <1>9, <1>10, <1>11, <1>12

(* The next search begins behind the one before and not before the match.  *)
LEMMA Advances ==
  ASSUME IInv, mode = "found"
  PROVE  Following(Result.end) \in Nat /\ Following(Result.end) > cursor /\ Following(Result.end) >= Result.end
  BY ResultType DEF IInv, Following

(* A call that goes on or ends with the matches it has keeps the           *)
(* invariant, if these are well.                                           *)
LEMMA CallKeeps ==
  ASSUME IInv, UNCHANGED <<re, calls, call, limit, subject>>, lastIndex' \in Nat, parts' \in Seq(Spans),
         matches' \in Seq(Match'), NoOverlap', NeverThrice', LoopsEnd',
         \/ Idle /\ UNCHANGED cursor
         \/ /\ call # "exec"
            /\ \E start \in 0..End :
                 /\ Search(subject, start)
                 /\ Len(matches') <= start /\ \A i \in DOMAIN matches' : matches'[i].end <= start
                 /\ \A i, j \in DOMAIN matches' : i < j => matches'[i].start < start
  PROVE  IInv'
<1>1. /\ WellFormed(re) /\ subject \in Subjects \cup {<<>>} /\ cursor \in Places
      /\ re' = re /\ subject' = subject /\ call' = call /\ Places' = Places /\ Spans' = Spans
  BY DEF IInv, CallerTypes, Places, Spans, End
<1>2. /\ AttemptOK' /\ SearchOK' /\ cursor' \in Places' /\ mode' \in {"idle", "running", "missed"} /\ CallOK'
  <2>1. CASE Idle /\ UNCHANGED cursor
    <3>1. AttemptOK' /\ SearchOK' /\ AtRest' /\ mode' = "idle"
      BY <1>1, <2>1, IdleBegins
    <3> QED BY <1>1, <2>1, <3>1 DEF CallOK
  <2>2. CASE /\ call # "exec"
             /\ \E start \in 0..End :
                  /\ Search(subject, start)
                  /\ Len(matches') <= start /\ \A i \in DOMAIN matches' : matches'[i].end <= start
                  /\ \A i, j \in DOMAIN matches' : i < j => matches'[i].start < start
    <3>1. PICK start \in 0..End :
            /\ Search(subject, start)
            /\ Len(matches') <= start /\ \A i \in DOMAIN matches' : matches'[i].end <= start
            /\ \A i, j \in DOMAIN matches' : i < j => matches'[i].start < start
      BY <2>2
    <3>2. AttemptOK' /\ SearchOK' /\ cursor' = start /\ mode' \in {"running", "missed"}
      BY <1>1, <3>1, SearchBegins DEF End
    <3> QED BY <1>1, <2>2, <3>1, <3>2 DEF CallOK, Places
  <2> QED BY <2>1, <2>2
<1>3. CallerTypes'
  BY <1>1, <1>2 DEF IInv, CallerTypes
<1> QED BY <1>2, <1>3 DEF IInv

LEMMA StepHolds ==
  ASSUME IInv, Step
  PROVE  IInv'
<1>1. Kept /\ UNCHANGED caller /\ mode = "running"
  BY StepKeeps DEF IInv
<1>2. /\ AttemptOK' /\ SearchOK' /\ mode' \in {"running", "missed", "found", "panicked"}
      /\ UNCHANGED <<re, lastIndex, calls, call, limit, subject, cursor, matches, parts>>
  BY <1>1 DEF Kept, caller
<1>3. CallerTypes'
  BY <1>2 DEF IInv, CallerTypes, Places, Spans, Match, End
<1>4. NoOverlap' /\ NeverThrice' /\ LoopsEnd'
  BY <1>2 DEF IInv, NoOverlap, NeverThrice, LoopsEnd, End
<1>5. CallOK'
  BY <1>1, <1>2 DEF IInv, CallOK
<1> QED BY <1>2, <1>3, <1>4, <1>5 DEF IInv

LEMMA SetLastIndexHolds ==
  ASSUME IInv, NEW n \in LastIndexes, SetLastIndex(n)
  PROVE  IInv'
<1>1. /\ mode = "idle" /\ lastIndex' \in Nat
      /\ UNCHANGED <<re, calls, call, limit, subject, cursor, matches, parts, mode, attempt>>
  BY RegExpAssumption DEF SetLastIndex
<1>2. Idle
  BY <1>1, StaysAtRest DEF IInv, CallOK, Idle
<1>3. matches' \in Seq(Match') /\ parts' \in Seq(Spans) /\ NoOverlap' /\ NeverThrice' /\ LoopsEnd'
  BY <1>1 DEF IInv, CallerTypes, Match, Spans, Places, NoOverlap, NeverThrice, LoopsEnd, End
<1> QED BY <1>1, <1>2, <1>3, CallKeeps

LEMMA ExecHolds ==
  ASSUME IInv, NEW s \in Subjects, Exec(s)
  PROVE  IInv'
<1> DEFINE start == IF Stateful THEN lastIndex ELSE 0
<1>1. lastIndex \in Nat /\ limit \in Nat /\ start \in Nat /\ Len(s) \in Nat
  BY SubjectLength DEF IInv, CallerTypes
<1>2. Begins("exec", s) /\ limit' = limit
  BY DEF Exec
<1>3. CASE start > Len(s) /\ lastIndex' = 0 /\ cursor' = 0 /\ UNCHANGED <<mode, attempt>>
  BY <1>1, <1>2, <1>3, BeginsKeeps
<1>4. CASE start <= Len(s) /\ Search(s, start) /\ UNCHANGED lastIndex
  BY <1>1, <1>2, <1>4, BeginsKeeps
<1> QED BY <1>3, <1>4 DEF Exec

LEMMA LoopHolds ==
  ASSUME IInv, NEW s \in Subjects, NEW name \in Loops, Loop(name, s)
  PROVE  IInv'
<1>1. lastIndex' \in Nat /\ limit' \in Nat
  BY DEF Loop, IInv, CallerTypes
<1>2. Begins(name, s) /\ Search(s, 0) /\ 0 \in 0..Len(s)
  BY SubjectLength DEF Loop
<1> QED BY <1>1, <1>2, BeginsKeeps

LEMMA SplitHolds ==
  ASSUME IInv, NEW s \in Subjects, NEW most \in Limits, Split(s, most)
  PROVE  IInv'
<1>1. lastIndex' \in Nat /\ limit' \in Nat
  BY RegExpAssumption DEF Split, IInv, CallerTypes
<1>2. Begins("split", s) /\ 0 \in 0..Len(s)
  BY SubjectLength DEF Split
<1>3. Search(s, 0) \/ (cursor' = 0 /\ UNCHANGED <<mode, attempt>>)
  BY DEF Split
<1> QED BY <1>1, <1>2, <1>3, BeginsKeeps

(* What a call found is not touched by its end.                            *)
LEMMA SameMatches ==
  ASSUME IInv, UNCHANGED <<re, subject, matches>>
  PROVE  matches' \in Seq(Match') /\ NoOverlap' /\ NeverThrice' /\ LoopsEnd'
  BY DEF IInv, CallerTypes, Match, Spans, Places, NoOverlap, NeverThrice, LoopsEnd, End

LEMMA ExecEndsHolds ==
  ASSUME IInv, ExecEnds
  PROVE  IInv'
<1>1. call = "exec" /\ Idle /\ UNCHANGED <<re, calls, call, limit, subject, cursor, parts>> /\ parts \in Seq(Spans)
  BY DEF ExecEnds, IInv, CallerTypes
<1>2. CASE mode = "found" /\ matches' = <<Result>> /\ lastIndex' = IF Stateful THEN Result.end ELSE lastIndex
  <2>1. matches = <<>>
    BY <1>1, <1>2 DEF IInv, CallOK
  <2>2. matches' = Append(matches, Result)
    BY <1>2, <2>1
  <2>3. lastIndex' \in Nat
    BY <1>2, ResultType DEF IInv, CallerTypes
  <2> QED BY <1>1, <1>2, <2>2, <2>3, OneMore, CallKeeps
<1>3. CASE mode = "missed" /\ lastIndex' = (IF Stateful THEN 0 ELSE lastIndex) /\ UNCHANGED matches
  <2>1. lastIndex' \in Nat
    BY <1>3 DEF IInv, CallerTypes
  <2> QED BY <1>1, <1>3, <2>1, SameMatches, CallKeeps
<1> QED BY <1>2, <1>3 DEF ExecEnds

LEMMA LoopGoesOnHolds ==
  ASSUME IInv, LoopGoesOn
  PROVE  IInv'
<1>1. /\ call \in Loops /\ mode = "found" /\ matches' = Append(matches, Result)
      /\ UNCHANGED <<re, lastIndex, calls, call, limit, subject, parts>>
      /\ parts \in Seq(Spans) /\ lastIndex \in Nat
  BY DEF LoopGoesOn, IInv, CallerTypes
<1>2. call # "exec"
  BY <1>1 DEF Loops
<1> DEFINE next == Following(Result.end)
<1>3. next \in Nat /\ next > cursor /\ next >= Result.end /\ cursor \in Nat /\ End \in Nat /\ Result.end \in Nat
  BY <1>1, Advances, ResultType DEF IInv
<1>4. /\ matches' \in Seq(Match') /\ NoOverlap' /\ NeverThrice' /\ LoopsEnd'
      /\ Len(matches') <= cursor + 1 /\ \A i \in DOMAIN matches' : matches'[i].end <= Result.end
      /\ \A i, j \in DOMAIN matches' : i < j => matches'[i].start \in Nat /\ matches'[i].start <= cursor
  BY <1>1, OneMore
<1>5. CASE Idle /\ UNCHANGED cursor
  BY <1>1, <1>4, <1>5, CallKeeps
<1>6. CASE next <= End /\ Search(subject, next)
  <2>1. next \in 0..End
    BY <1>3, <1>6
  <2>2. /\ Len(matches') <= next /\ \A i \in DOMAIN matches' : matches'[i].end <= next
        /\ \A i, j \in DOMAIN matches' : i < j => matches'[i].start < next
    <3>1. Match' = Match /\ \A i \in DOMAIN matches' : matches'[i] \in Match
      <4>1. Match' = Match
        BY <1>1 DEF Match, Spans, Places, End
      <4> QED BY <1>4, <4>1, ElementOfSeq
    <3>2. \A i \in DOMAIN matches' : matches'[i].end \in Nat
      <4>1. \A m \in Match : m.end \in Nat
        BY <1>3 DEF Match, Places
      <4> QED BY <3>1, <4>1
    <3>3. Len(matches') \in Nat
      BY <1>4, LenProperties
    <3> QED BY <1>3, <1>4, <3>2, <3>3
  <2> HIDE DEF next
  <2> QED BY <1>1, <1>2, <1>4, <1>6, <2>1, <2>2, CallKeeps
<1> QED BY <1>1, <1>5, <1>6 DEF LoopGoesOn

LEMMA LoopEndsHolds ==
  ASSUME IInv, LoopEnds
  PROVE  IInv'
<1>1. Idle /\ UNCHANGED <<re, lastIndex, calls, call, limit, subject, cursor, matches, parts>>
      /\ parts \in Seq(Spans) /\ lastIndex \in Nat
  BY DEF LoopEnds, caller, IInv, CallerTypes
<1> QED BY <1>1, SameMatches, CallKeeps

(* What split cuts off are spans of the subject.                           *)
LEMMA CutOffType ==
  ASSUME IInv, mode = "found"
  PROVE  CutOff \in Seq(Spans) /\ Len(CutOff) \in Nat /\ <<LastEnd, End>> \in Spans /\ <<Result.end, End>> \in Spans
<1>1. Result \in Match /\ Result.start \in Places /\ Result.end \in Places /\ Result.captures \in [1..re.captures -> Spans]
      /\ End \in Places /\ 0 \in Places
  BY ResultType DEF IInv, Match, Places
<1>2. matches \in Seq(Match) /\ parts \in Seq(Spans) /\ re.captures \in Nat
  BY Sizes DEF IInv, CallerTypes
<1>3. LastEnd \in Places
  <2>1. matches # <<>> => Top(matches) \in Match
    BY <1>2, PopType
  <2> QED BY <1>1, <2>1 DEF LastEnd, Match
<1>4. <<LastEnd, Result.start>> \in Spans /\ <<LastEnd, End>> \in Spans /\ <<Result.end, End>> \in Spans
  BY <1>1, <1>3 DEF Spans
<1> DEFINE cut == <<LastEnd, Result.start>>  groups == Result.captures
<1>5. <<cut>> \in Seq(Spans)
  BY <1>4
<1>6. groups \in Seq(Spans)
  BY <1>1, <1>2, IsASeq
<1> HIDE DEF cut, groups
<1>7. parts \o <<cut>> \in Seq(Spans)
  BY <1>2, <1>5, ConcatProperties
<1>8. (parts \o <<cut>>) \o groups \in Seq(Spans)
  BY <1>6, <1>7, ConcatProperties
<1>9. CutOff \in Seq(Spans)
  BY <1>8 DEF CutOff, cut, groups
<1> QED BY <1>4, <1>9, LenProperties

LEMMA SplitGoesOnHolds ==
  ASSUME IInv, SplitGoesOn
  PROVE  IInv'
<1>1. /\ call = "split" /\ mode = "found" /\ matches' = Append(matches, Result)
      /\ UNCHANGED <<re, lastIndex, calls, call, limit, subject>>
      /\ lastIndex \in Nat /\ limit \in Nat
  BY DEF SplitGoesOn, IInv, CallerTypes
<1>2. /\ CutOff \in Seq(Spans) /\ Len(CutOff) \in Nat /\ <<Result.end, End>> \in Spans
  BY <1>1, CutOffType
<1> DEFINE next == Following(Result.end)
<1>3. next \in Nat /\ next > cursor /\ next >= Result.end /\ cursor \in Nat /\ End \in Nat /\ Result.end \in Nat
  BY <1>1, Advances, ResultType DEF IInv
<1>4. /\ matches' \in Seq(Match') /\ NoOverlap' /\ NeverThrice' /\ LoopsEnd'
      /\ Len(matches') <= cursor + 1 /\ \A i \in DOMAIN matches' : matches'[i].end <= Result.end
      /\ \A i, j \in DOMAIN matches' : i < j => matches'[i].start \in Nat /\ matches'[i].start <= cursor
  BY <1>1, OneMore
<1>5. CASE Len(CutOff) >= limit /\ parts' = SubSeq(CutOff, 1, limit) /\ Idle /\ UNCHANGED cursor
  <2>1. parts' \in Seq(Spans)
    BY <1>1, <1>2, <1>5, PrefixType
  <2> QED BY <1>1, <1>4, <1>5, <2>1, CallKeeps
<1>6. CASE next <= End /\ parts' = CutOff /\ Search(subject, next)
  <2>1. next \in 0..End
    BY <1>3, <1>6
  <2>2. /\ Len(matches') <= next /\ \A i \in DOMAIN matches' : matches'[i].end <= next
        /\ \A i, j \in DOMAIN matches' : i < j => matches'[i].start < next
    <3>1. Match' = Match /\ \A i \in DOMAIN matches' : matches'[i] \in Match
      <4>1. Match' = Match
        BY <1>1 DEF Match, Spans, Places, End
      <4> QED BY <1>4, <4>1, ElementOfSeq
    <3>2. \A i \in DOMAIN matches' : matches'[i].end \in Nat
      <4>1. \A m \in Match : m.end \in Nat
        BY <1>3 DEF Match, Places
      <4> QED BY <3>1, <4>1
    <3>3. Len(matches') \in Nat
      BY <1>4, LenProperties
    <3> QED BY <1>3, <1>4, <3>2, <3>3
  <2> HIDE DEF next
  <2> QED BY <1>1, <1>2, <1>4, <1>6, <2>1, <2>2, CallKeeps
<1>7. CASE parts' = Append(CutOff, <<Result.end, End>>) /\ Idle /\ UNCHANGED cursor
  <2>1. parts' \in Seq(Spans)
    BY <1>2, <1>7, AppendProperties
  <2> QED BY <1>1, <1>4, <1>7, <2>1, CallKeeps
<1> QED BY <1>5, <1>6, <1>7 DEF SplitGoesOn

LEMMA SplitEndsHolds ==
  ASSUME IInv, SplitEnds
  PROVE  IInv'
<1>1. /\ parts' = Append(parts, <<LastEnd, End>>) /\ Idle
      /\ UNCHANGED <<re, lastIndex, calls, call, limit, subject, cursor, matches>>
      /\ parts \in Seq(Spans) /\ lastIndex \in Nat /\ matches \in Seq(Match)
  BY DEF SplitEnds, IInv, CallerTypes
<1>2. LastEnd \in Places /\ End \in Places
  <2>1. End \in Nat
    BY SubjectLength DEF IInv, CallerTypes, End
  <2>2. matches # <<>> => Top(matches) \in Match
    BY <1>1, PopType
  <2> QED BY <2>1, <2>2 DEF LastEnd, Match, Places
<1>3. <<LastEnd, End>> \in Spans
  BY <1>2 DEF Spans
<1>4. parts' \in Seq(Spans)
  BY <1>1, <1>3, AppendProperties
<1> QED BY <1>1, <1>4, SameMatches, CallKeeps

-----------------------------------------------------------------------------
(* The theorems *)

LEMMA InitHolds == Init => IInv
<1> SUFFICES ASSUME Init PROVE IInv
  OBVIOUS
<1>1. WellFormed(re) /\ Size \in Nat /\ Size >= 3
  BY RegExpAssumption, Sizes DEF Init
<1>2. /\ lastIndex = 0 /\ calls = 0 /\ call = "exec" /\ limit = 0 /\ subject = <<>> /\ cursor = 0
      /\ matches = <<>> /\ parts = <<>> /\ mode = "idle"
      /\ at = 0 /\ pc = 0 /\ cp = 0 /\ registers = Fresh /\ backtracks = <<>> /\ lookarounds = <<>> /\ lastPush = Never
  BY DEF Init
<1>3. End = 0 /\ 0 \in Places /\ 0 \in Inside
  BY <1>2 DEF End, Places, Inside
<1>4. CallerTypes
  <2>1. matches \in Seq(Match) /\ parts \in Seq(Spans)
    BY <1>2, EmptySeq
  <2>2. calls \in 0..MaxCalls
    BY <1>2, RegExpAssumption
  <2> QED BY <1>1, <1>2, <1>3, <2>1, <2>2 DEF CallerTypes
<1>5. AttemptOK
  <2>1. registers \in AttemptRegisters
    BY <1>2 DEF Fresh, AttemptRegisters
  <2>2. backtracks \in Seq(Entries) /\ lookarounds \in Seq(Frames)
    BY <1>2, EmptySeq
  <2> QED BY <1>1, <1>2, <1>3, <2>1, <2>2 DEF AttemptOK
<1>6. SearchOK
  BY <1>2 DEF SearchOK, PanicOK
<1>7. CallOK
  BY <1>2 DEF CallOK, AtRest
<1>8. NoOverlap /\ NeverThrice /\ LoopsEnd
  BY <1>2, <1>3 DEF NoOverlap, NeverThrice, LoopsEnd
<1> QED BY <1>4, <1>5, <1>6, <1>7, <1>8 DEF IInv

LEMMA NextKeeps == IInv /\ [Next]_vars => IInv'
<1> SUFFICES ASSUME IInv, [Next]_vars PROVE IInv'
  OBVIOUS
<1>1. CASE Step
  BY <1>1, StepHolds
<1>2. CASE \E n \in LastIndexes : SetLastIndex(n)
  BY <1>2, SetLastIndexHolds
<1>3. CASE \E s \in Subjects : Exec(s) \/ \E name \in Loops : Loop(name, s)
  BY <1>3, ExecHolds, LoopHolds
<1>4. CASE \E s \in Subjects, most \in Limits : Split(s, most)
  BY <1>4, SplitHolds
<1>5. CASE ExecEnds
  BY <1>5, ExecEndsHolds
<1>6. CASE LoopGoesOn
  BY <1>6, LoopGoesOnHolds
<1>7. CASE LoopEnds
  BY <1>7, LoopEndsHolds
<1>8. CASE SplitGoesOn
  BY <1>8, SplitGoesOnHolds
<1>9. CASE SplitEnds
  BY <1>9, SplitEndsHolds
<1>10. CASE UNCHANGED vars
  <2>1. /\ UNCHANGED <<re, lastIndex, calls, call, limit, subject, cursor, matches, parts, mode>>
        /\ UNCHANGED <<at, pc, cp, registers, backtracks, lookarounds, lastPush>>
    BY <1>10 DEF vars, caller, attempt
  <2>2. CallerTypes'
    BY <2>1 DEF IInv, CallerTypes, Places, Spans, Match, End
  <2>3. AttemptOK'
    BY <2>1 DEF IInv, AttemptOK, Places, Inside, AttemptRegisters, Entries, Frames, Size, Code, End
  <2>4. SearchOK' /\ CallOK'
    BY <2>1 DEF IInv, SearchOK, PanicOK, Operand, CallOK, AtRest, Size, Code, Fresh
  <2>5. NoOverlap' /\ NeverThrice' /\ LoopsEnd'
    BY <2>1 DEF IInv, NoOverlap, NeverThrice, LoopsEnd, End
  <2> QED BY <2>2, <2>3, <2>4, <2>5 DEF IInv
<1> QED BY <1>1, <1>2, <1>3, <1>4, <1>5, <1>6, <1>7, <1>8, <1>9, <1>10 DEF Next

(* The machine is always in a state that the invariant describes.          *)
THEOREM Invariant == Spec => []IInv
  BY InitHolds, NextKeeps, PTL DEF Spec

LEMMA IInvTypeOK == IInv => TypeOK
<1> SUFFICES ASSUME IInv PROVE TypeOK
  OBVIOUS
<1>1. CallerTypes /\ AttemptOK /\ PanicOK
  BY DEF IInv, SearchOK
<1>2. Size \in Nat /\ Size >= 3 /\ End \in Nat /\ at \in 0..End
  BY <1>1, Sizes, SubjectLength DEF CallerTypes, AttemptOK, End, Places
<1>3. Inside \subseteq Places
  BY <1>2 DEF Inside, Places
<1>4. cp \in Places /\ registers \in Registers
  BY <1>1, <1>3 DEF AttemptOK, AttemptRegisters, Registers
<1> DEFINE Entry == [pc : 1..Len(Code) - 2, cp : Places, registers : Registers, depth : Nat]
           Frame == [cp : Places, positive : BOOLEAN]
<1>5. Entries \subseteq Entry
  BY <1>3 DEF Entries, AttemptRegisters, Registers, Size
<1>6. Frames \subseteq Frame
  BY <1>3 DEF Frames
<1> HIDE DEF Entry, Frame
<1>7. backtracks \in Seq(Entry) /\ lookarounds \in Seq(Frame)
  BY <1>1, <1>5, <1>6 DEF AttemptOK
<1> QED BY <1>1, <1>4, <1>7 DEF TypeOK, CallerTypes, AttemptOK, Match, Size, Entry, Frame

(* The machine stays in its code and in the subject, whatever the pattern  *)
(* and the calls; it leaves its registers, and panics, only where a back   *)
(* reference names a group that the pattern does not have.                 *)
THEOREM StaysInBounds == Spec => []TypeOK
  BY Invariant, IInvTypeOK, PTL

(* Matches of a call come in order and do not overlap; a group takes       *)
(* nothing before its match; no three matches begin at one place, and      *)
(* there are no more matches than places.                                  *)
THEOREM MatchesComeInOrder == Spec => []MatchesInOrder
<1>1. IInv => MatchesInOrder
  BY DEF IInv, MatchesInOrder
<1> QED BY <1>1, Invariant, PTL

(* A search that follows a match begins behind the search that found it.   *)
LEMMA NextAdvances ==
  ASSUME IInv, [Next]_vars
  PROVE  [mode = "found" /\ mode' # "idle" => cursor' > cursor]_vars
<1> SUFFICES ASSUME Next, mode = "found", mode' # "idle" PROVE cursor' > cursor
  OBVIOUS
<1>1. ~Step
  BY StepKeeps DEF IInv
<1>2. Following(Result.end) > cursor
  BY Advances
<1>3. CASE LoopGoesOn \/ SplitGoesOn
  BY <1>2, <1>3 DEF LoopGoesOn, SplitGoesOn, Idle, Search
<1>4. ~ExecEnds /\ ~LoopEnds /\ ~SplitEnds
  BY DEF ExecEnds, LoopEnds, SplitEnds, Idle
<1>5. /\ ~\E n \in LastIndexes : SetLastIndex(n)
      /\ ~\E s \in Subjects : Exec(s) \/ \E name \in Loops : Loop(name, s)
      /\ ~\E s \in Subjects, most \in Limits : Split(s, most)
  BY DEF SetLastIndex, Exec, Loop, Split, Begins
<1> QED BY <1>1, <1>3, <1>4, <1>5 DEF Next

(* Every search of a loop begins behind the one before: no loop searches   *)
(* for ever.                                                               *)
THEOREM SearchesAdvance == Spec => CursorAdvances
<1>1. IInv /\ [Next]_vars => [mode = "found" /\ mode' # "idle" => cursor' > cursor]_vars
  BY NextAdvances
<1> QED BY <1>1, Invariant, PTL DEF Spec, CursorAdvances
===============================================================================
