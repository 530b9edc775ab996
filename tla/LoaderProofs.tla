---------------------------- MODULE LoaderProofs ----------------------------
(***************************************************************************)
(* However modules import one another, statically, dynamically and with    *)
(* their specifiers registered again, each body runs once at most, and     *)
(* reads its imports only from modules that were evaluated.                *)
(*                                                                         *)
(* What makes it true is that a module that is Linking may be entered      *)
(* again, by an import() in the body of one of its imports, but then       *)
(* stops at the import the first call waits for: a second call of a module *)
(* is never ahead of the first.                                            *)
(***************************************************************************)
EXTENDS ModuleLoader, TLAPS

ImportsOf(f) == records[f.record].imports
Asked(f) == registry[ImportsOf(f)[f.next].from]   \* the record an import names
IsEvaluated(r) == r \in DOMAIN records /\ records[r].status = "Evaluated"

(* A record on the stack has the status its call has given it. *)
FrameStatus ==
  \A i \in DOMAIN stack :
    /\ stack[i].record \in DOMAIN records
    /\ stack[i].phase = "link" => records[stack[i].record].status = "Linking"
    /\ stack[i].phase = "body" => records[stack[i].record].status = "Evaluating"

(* A call that links waits for the call above it, of the record its next   *)
(* import names; the innermost has an import to answer for.                *)
Waits(i) == stack[i].next \in DOMAIN ImportsOf(stack[i])
Calls ==
  /\ \A i \in DOMAIN stack : i < Len(stack) /\ stack[i].phase = "link" =>
       Waits(i) /\ stack[i + 1].record = Asked(stack[i])
  /\ stack # <<>> /\ Top.phase = "link" /\ reply # "none" => Waits(Len(stack))
  /\ stack # <<>> /\ Top.phase = "link" /\ reply = "ok" => IsEvaluated(Asked(Top))

(* Two calls of a record both link, and the second is not ahead of the     *)
(* first, nor about to be.                                                 *)
Follows(i, j) ==
  /\ stack[i].phase = "link" /\ stack[j].phase = "link"
  /\ stack[j].next <= stack[i].next
  /\ j = Len(stack) /\ stack[j].next = stack[i].next => reply # "ok"
NeverAhead ==
  \A i, j \in DOMAIN stack : i < j /\ stack[i].record = stack[j].record => Follows(i, j)

(* Every import behind the call's position was answered by a module that   *)
(* was evaluated, and a body has all of them behind it.                    *)
Behind(f) == IF f.phase = "body" THEN DOMAIN ImportsOf(f) ELSE 1..f.next - 1
Answered ==
  \A i \in DOMAIN stack : \A k \in DOMAIN ImportsOf(stack[i]) :
    k \in Behind(stack[i]) => IsEvaluated(registry[ImportsOf(stack[i])[k].from])

NotStarted == \A r \in DOMAIN records : records[r].status \in {"Unlinked", "Linking"} => started[r] = 0
OnceAtMost == started \in Seq(Nat) /\ \A r \in DOMAIN records : started[r] <= 1

Inv ==
  TypeOK /\ FrameStatus /\ Calls /\ NeverAhead /\ Answered /\ NotStarted /\ OnceAtMost /\ ImportsReady

-----------------------------------------------------------------------------
(* The lists of imports are sequences of bounded length. *)
LEMMA ImportLists ==
  ASSUME NEW imports \in ImportList
  PROVE  imports \in Seq(Import) /\ Len(imports) \in 0..MaxImports /\ DOMAIN imports = 1..Len(imports)
<1>1. PICK n \in 0..MaxImports : imports \in [1..n -> Import]
  BY DEF ImportList, SeqOf
<1>2. n \in Nat
  BY LoaderAssumption
<1> QED BY <1>1, <1>2

(* What the type invariant says of the records and frames. *)
LEMMA Typed ==
  ASSUME TypeOK
  PROVE  /\ records \in Seq(ModuleRecord) /\ Len(records) \in 0..MaxRecords
         /\ DOMAIN records = 1..Len(records)
         /\ \A r \in DOMAIN records :
              /\ records[r].imports \in Seq(Import) /\ Len(records[r].imports) \in 0..MaxImports
              /\ DOMAIN records[r].imports = 1..Len(records[r].imports)
              /\ \A k \in DOMAIN records[r].imports : records[r].imports[k].from \in Specifier
         /\ stack \in Seq(Frame) /\ DOMAIN stack = 1..Len(stack) /\ Len(stack) \in Nat
         /\ \A i \in DOMAIN stack : stack[i].next \in Nat \ {0} /\ stack[i].phase \in {"link", "body"}
<1>1. \A r \in DOMAIN records : records[r] \in ModuleRecord
  BY DEF TypeOK
<1>2. \A r \in DOMAIN records : records[r].imports \in ImportList
  BY <1>1 DEF ModuleRecord
<1>3. \A r \in DOMAIN records : \A k \in DOMAIN records[r].imports : records[r].imports[k].from \in Specifier
  <2> SUFFICES ASSUME NEW r \in DOMAIN records, NEW k \in DOMAIN records[r].imports
               PROVE  records[r].imports[k].from \in Specifier
    OBVIOUS
  <2>1. records[r].imports[k] \in Import
    BY <1>2, ImportLists
  <2> QED BY <2>1 DEF Import
<1>4. \A i \in DOMAIN stack : stack[i] \in Frame
  BY DEF TypeOK
<1>5. \A i \in DOMAIN stack : stack[i].next \in Nat \ {0} /\ stack[i].phase \in {"link", "body"}
  BY <1>4, LoaderAssumption DEF Frame
<1> QED BY <1>2, <1>3, <1>5, ImportLists, LoaderAssumption DEF TypeOK

LEMMA InitInv == Init => Inv
<1> SUFFICES ASSUME Init PROVE Inv
  OBVIOUS
<1> USE DEF Init
<1>1. TypeOK
  <2>1. records \in Seq(ModuleRecord) /\ Len(records) = 0 /\ stack \in Seq(Frame) /\ Len(started) = 0
    OBVIOUS
  <2>2. registry \in [Specifier -> 0..Len(records)] /\ \A m \in Specifier : registry[m] = 0
    BY <2>1
  <2>3. bound \subseteq (DOMAIN records) \X (DOMAIN records) /\ panicked \in BOOLEAN
    OBVIOUS
  <2>4. dynamic \in 0..MaxDynamic /\ Len(records) <= MaxRecords /\ reply \in Replies
    BY <2>1, LoaderAssumption DEF Replies
  <2>5. \A m \in Specifier : registry[m] # 0 => records[registry[m]].specifier = m
    BY <2>2
  <2> QED BY <2>1, <2>2, <2>3, <2>4, <2>5 DEF TypeOK
<1>2. FrameStatus /\ Calls /\ NeverAhead /\ Answered
  BY DEF FrameStatus, Calls, NeverAhead, Answered
<1>3. NotStarted /\ OnceAtMost /\ ImportsReady
  BY DEF NotStarted, OnceAtMost, ImportsReady
<1> QED BY <1>1, <1>2, <1>3 DEF Inv

-----------------------------------------------------------------------------
(* Entering record r from the calls on the stack. *)
Caller(r) == stack # <<>> => Top.phase = "body" \/ (Waits(Len(stack)) /\ r = Asked(Top))

(* A record that answers at once leaves the calls as they are; one that is *)
(* on the stack does not answer ok.                                        *)
LEMMA EnterAnswered ==
  ASSUME Inv, reply = "none", NEW r \in 0..Len(records), Caller(r),
         Enter(records, r, stack), ReplyAtOnce(r, IF r = 0 THEN "Unlinked" ELSE records[r].status) # "none",
         dynamic' \in 0..MaxDynamic, UNCHANGED <<registry, panicked, started, bound>>
  PROVE  Inv'
<1> DEFINE status == IF r = 0 THEN "Unlinked" ELSE records[r].status
<1>1. records' = records /\ stack' = stack /\ reply' = ReplyAtOnce(r, status) /\ reply' # "none"
  BY DEF Enter
<1>2. r \in DOMAIN records => records[r] \in ModuleRecord
  BY DEF Inv, TypeOK
<1>3. reply' \in {"ok", "error"} /\ (reply' = "ok" => IsEvaluated(r))
  BY <1>1, <1>2, Typed DEF ReplyAtOnce, IsEvaluated, Inv, ModuleRecord, ModuleStatus
<1>4. TypeOK'
  BY <1>1, <1>3 DEF Inv, TypeOK, Replies
<1>5. FrameStatus' /\ Answered' /\ NotStarted' /\ OnceAtMost' /\ ImportsReady'
  BY <1>1 DEF Inv, FrameStatus, Answered, NotStarted, OnceAtMost, ImportsReady, Behind, ImportsOf, IsEvaluated
<1>6. Calls'
  BY <1>1, <1>3 DEF Inv, Calls, Caller, Waits, Asked, ImportsOf, IsEvaluated, Top
<1>7. NeverAhead'
  <2> SUFFICES ASSUME NEW i \in DOMAIN stack, NEW j \in DOMAIN stack, i < j,
                      stack[i].record = stack[j].record, j = Len(stack), stack[j].next = stack[i].next, reply' = "ok"
               PROVE  FALSE
    BY <1>1 DEF Inv, NeverAhead, Follows
  <2>1. stack[i].phase = "link" /\ stack[j].phase = "link"
    BY DEF Inv, NeverAhead, Follows
  <2>2. r = Asked(Top) /\ stack[i + 1].record = Asked(stack[i]) /\ i + 1 \in DOMAIN stack
    BY <2>1, Typed DEF Inv, Calls, Caller, Top
  <2>3. stack[i + 1].record = r
    BY <2>2 DEF Asked, ImportsOf, Top
  <2>4. records[r].status \in {"Linking", "Evaluating"}
    BY <2>2, <2>3, Typed DEF Inv, FrameStatus
  <2> QED BY <1>3, <2>4 DEF IsEvaluated
<1> QED BY <1>4, <1>5, <1>6, <1>7 DEF Inv

(* A record that links is called on top of the others. *)
LEMMA EnterPushed ==
  ASSUME Inv, reply = "none", NEW r \in 0..Len(records), Caller(r),
         Enter(records, r, stack), ReplyAtOnce(r, IF r = 0 THEN "Unlinked" ELSE records[r].status) = "none",
         dynamic' \in 0..MaxDynamic, UNCHANGED <<registry, panicked, started, bound>>
  PROVE  Inv'
<1> DEFINE frame == [record |-> r, phase |-> "link", next |-> 1]
           n == Len(stack) + 1
<1>1. /\ records' = [records EXCEPT ![r].status = "Linking"]
      /\ stack' = Append(stack, frame) /\ reply' = "none"
  BY DEF Enter
<1>2. r \in DOMAIN records /\ records[r] \in ModuleRecord /\ records[r].status \in {"Unlinked", "Linking"}
  <2>1. r # 0
    BY DEF ReplyAtOnce
  <2>2. r \in DOMAIN records /\ records[r] \in ModuleRecord
    BY <2>1, Typed DEF Inv
  <2> QED BY <2>1, <2>2 DEF ReplyAtOnce, ModuleRecord, ModuleStatus
<1>3. /\ records' \in Seq(ModuleRecord) /\ Len(records') = Len(records) /\ DOMAIN records' = DOMAIN records
      /\ \A d \in DOMAIN records : /\ records'[d].imports = records[d].imports
                                   /\ records'[d].specifier = records[d].specifier
                                   /\ records'[d].status = IF d = r THEN "Linking" ELSE records[d].status
  <2>1. \A d \in DOMAIN records : records[d] \in ModuleRecord
    BY Typed DEF Inv
  <2>2. [records[r] EXCEPT !.status = "Linking"] \in ModuleRecord
    BY <1>2 DEF ModuleRecord, ModuleStatus
  <2> QED BY <1>1, <1>2, <2>1, <2>2, Typed DEF Inv, ModuleRecord
<1>4. /\ stack' \in Seq(Frame) /\ Len(stack') = n /\ DOMAIN stack' = 1..n /\ DOMAIN stack = 1..n - 1 /\ n \in Nat \ {0}
      /\ stack'[n] = frame /\ \A i \in DOMAIN stack : stack'[i] = stack[i]
  <2>1. frame \in Frame
    BY <1>2, Typed, LoaderAssumption DEF Inv, Frame
  <2> QED BY <1>1, <2>1, Typed DEF Inv
<1>5. TypeOK'
  BY <1>1, <1>3, <1>4 DEF Inv, TypeOK, Replies
<1>6. FrameStatus'
  <2>1. \A i \in DOMAIN stack : stack[i].record # r \/ stack[i].phase = "link"
    BY <1>2, Typed DEF Inv, FrameStatus
  <2> SUFFICES ASSUME NEW i \in DOMAIN stack'
               PROVE  /\ stack'[i].record \in DOMAIN records'
                      /\ stack'[i].phase = "link" => records'[stack'[i].record].status = "Linking"
                      /\ stack'[i].phase = "body" => records'[stack'[i].record].status = "Evaluating"
    BY DEF FrameStatus
  <2>2. CASE i = n
    BY <1>2, <1>3, <1>4, <2>2
  <2>3. CASE i # n
    <3>1. i \in DOMAIN stack /\ stack'[i] = stack[i]
      BY <1>4, <2>3
    <3> QED BY <1>3, <2>1, <3>1 DEF Inv, FrameStatus
  <2> QED BY <2>2, <2>3
<1>7. Calls'
  <2> SUFFICES ASSUME NEW i \in DOMAIN stack, stack[i].phase = "link"
               PROVE  Waits(i)' /\ stack'[i + 1].record = Asked(stack[i])'
    BY <1>1, <1>4 DEF Calls
  <2>1. Waits(i) /\ (IF i < n - 1 THEN stack[i + 1].record ELSE r) = Asked(stack[i])
    BY <1>4 DEF Inv, Calls, Caller, Top
  <2>2. stack'[i + 1].record = IF i < n - 1 THEN stack[i + 1].record ELSE r
    BY <1>4
  <2>3. stack[i].record \in DOMAIN records
    BY DEF Inv, FrameStatus
  <2> QED BY <1>3, <1>4, <2>1, <2>2, <2>3 DEF Waits, Asked, ImportsOf
<1>8. NeverAhead'
  <2> SUFFICES ASSUME NEW i \in DOMAIN stack', NEW j \in DOMAIN stack', i < j,
                      stack'[i].record = stack'[j].record
               PROVE  Follows(i, j)'
    BY DEF NeverAhead
  <2>1. i \in DOMAIN stack
    BY <1>4
  <2>2. CASE j = n
    <3>1. stack[i].record = r /\ stack[i].phase = "link" /\ stack[i].next \in Nat \ {0}
      BY <1>2, <1>4, <2>1, <2>2, Typed DEF Inv, FrameStatus
    <3> QED BY <1>1, <1>4, <2>1, <2>2, <3>1 DEF Follows
  <2>3. CASE j # n
    BY <1>1, <1>4, <2>1, <2>3 DEF Inv, NeverAhead, Follows
  <2> QED BY <2>2, <2>3
<1>9. Answered'
  <2> SUFFICES ASSUME NEW i \in DOMAIN stack', NEW k \in DOMAIN records'[stack'[i].record].imports,
                      k \in IF stack'[i].phase = "body" THEN DOMAIN records'[stack'[i].record].imports
                                                         ELSE 1..stack'[i].next - 1
               PROVE  /\ registry[records'[stack'[i].record].imports[k].from] \in DOMAIN records'
                      /\ records'[registry[records'[stack'[i].record].imports[k].from]].status = "Evaluated"
    BY DEF Answered, ImportsOf, Behind, IsEvaluated
  <2>1. i \in DOMAIN stack /\ stack'[i] = stack[i]
    BY <1>4
  <2>2. records'[stack[i].record].imports = records[stack[i].record].imports
    BY <1>3, <2>1 DEF Inv, FrameStatus
  <2>3. IsEvaluated(registry[records[stack[i].record].imports[k].from])
    BY <2>1, <2>2 DEF Inv, Answered, ImportsOf, Behind
  <2> QED BY <1>2, <1>3, <2>1, <2>2, <2>3 DEF IsEvaluated
<1>10. NotStarted' /\ OnceAtMost'
  BY <1>2, <1>3 DEF Inv, NotStarted, OnceAtMost
<1>11. ImportsReady'
  BY <1>2, <1>3 DEF Inv, ImportsReady, TypeOK
<1> QED BY <1>5, <1>6, <1>7, <1>8, <1>9, <1>10, <1>11 DEF Inv

-----------------------------------------------------------------------------
LEMMA PoppedCalls ==
  ASSUME TypeOK, stack # <<>>
  PROVE  /\ Popped \in Seq(Frame) /\ Len(Popped) = Len(stack) - 1 /\ Len(stack) \in Nat \ {0}
         /\ DOMAIN Popped = 1..Len(stack) - 1 /\ DOMAIN stack = 1..Len(stack)
         /\ \A i \in DOMAIN Popped : Popped[i] = stack[i]
<1>1. stack \in Seq(Frame) /\ Len(stack) \in Nat \ {0} /\ DOMAIN stack = 1..Len(stack)
  <2>1. stack \in Seq(Frame)
    BY DEF TypeOK
  <2> QED BY <2>1
<1>2. \A i \in 1..Len(stack) - 1 : stack[i] \in Frame
  BY <1>1
<1>3. Popped = [i \in 1..Len(stack) - 1 |-> stack[i]]
  BY <1>1 DEF Popped
<1>4. Popped \in Seq(Frame) /\ Len(Popped) = Len(stack) - 1
  BY <1>1, <1>2, <1>3
<1> QED BY <1>1, <1>3, <1>4

LEMMA AdvancedCalls ==
  ASSUME TypeOK, stack # <<>>, Top.next <= MaxImports
  PROVE  /\ Advanced \in Seq(Frame) /\ Len(Advanced) = Len(stack) /\ Len(stack) \in Nat \ {0}
         /\ DOMAIN Advanced = 1..Len(stack) /\ DOMAIN stack = 1..Len(stack)
         /\ \A i \in DOMAIN stack :
              /\ Advanced[i].record = stack[i].record /\ Advanced[i].phase = stack[i].phase
              /\ Advanced[i].next = stack[i].next + (IF i = Len(stack) THEN 1 ELSE 0)
<1>1. stack \in Seq(Frame) /\ Len(stack) \in Nat \ {0} /\ DOMAIN stack = 1..Len(stack)
  <2>1. stack \in Seq(Frame)
    BY DEF TypeOK
  <2> QED BY <2>1
<1>0. \A i \in DOMAIN stack : stack[i] \in Frame
  BY <1>1
<1>2. Top \in Frame /\ Top.next + 1 \in 1..MaxImports + 1
  <2>1. Top \in Frame
    BY <1>0, <1>1 DEF Top
  <2> QED BY <2>1, LoaderAssumption DEF Frame
<1>3. [Top EXCEPT !.next = @ + 1] \in Frame
  BY <1>2 DEF Frame
<1>4. \A i \in DOMAIN stack : Advanced[i] = IF i = Len(stack) THEN [Top EXCEPT !.next = @ + 1] ELSE stack[i]
  BY <1>1 DEF Advanced, Top
<1>5. Advanced \in Seq(Frame) /\ Len(Advanced) = Len(stack) /\ DOMAIN Advanced = DOMAIN stack
  BY <1>1, <1>3 DEF Advanced, Top
<1>6. \A i \in DOMAIN stack : stack[i].next \in Nat
  BY <1>0, LoaderAssumption DEF Frame
<1>7. ASSUME NEW i \in DOMAIN stack
      PROVE  /\ Advanced[i].record = stack[i].record /\ Advanced[i].phase = stack[i].phase
             /\ Advanced[i].next = stack[i].next + (IF i = Len(stack) THEN 1 ELSE 0)
  <2>1. CASE i = Len(stack)
    <3>1. Top = stack[i] /\ Advanced[i] = [Top EXCEPT !.next = @ + 1]
      BY <1>4, <2>1 DEF Top
    <3> QED BY <1>2, <2>1, <3>1 DEF Frame
  <2>2. CASE i # Len(stack)
    BY <1>4, <1>6, <2>2
  <2> QED BY <2>1, <2>2
<1> QED BY <1>1, <1>5, <1>7

LEMMA LinkNextInv == Inv /\ LinkNext => Inv'
<1> SUFFICES ASSUME Inv, LinkNext PROVE Inv'
  OBVIOUS
<1> DEFINE r == Asked(Top)
<1>1. stack # <<>> /\ Top.phase = "link" /\ Len(stack) \in DOMAIN stack /\ Top.record \in DOMAIN records
  BY Typed DEF Inv, LinkNext, Running, FrameStatus, Top
<1>2. Waits(Len(stack))
  BY <1>1, Typed DEF Inv, LinkNext, AllImportsDone, Current, Waits, ImportsOf, Top
<1>3. Current.imports[Top.next].from \in Specifier
  BY <1>1, <1>2, Typed DEF Inv, Waits, ImportsOf, Current, Top
<1>4. r \in 0..Len(records) /\ r = registry[Current.imports[Top.next].from]
  BY <1>3 DEF Inv, TypeOK, Asked, ImportsOf, Current
<1>5. dynamic' \in 0..MaxDynamic /\ Caller(r)
  BY <1>1, <1>2 DEF Inv, TypeOK, LinkNext, Caller
<1> QED BY <1>4, <1>5, EnterAnswered, EnterPushed DEF LinkNext

LEMMA DynamicImportInv == \A m \in Specifier : Inv /\ DynamicImport(m) => Inv'
<1> SUFFICES ASSUME Inv, NEW m \in Specifier, DynamicImport(m) PROVE Inv'
  OBVIOUS
<1>1. registry[m] \in 0..Len(records) /\ reply = "none" /\ dynamic' \in 0..MaxDynamic
  BY LoaderAssumption DEF Inv, TypeOK, DynamicImport, Idle, InBody
<1>2. Caller(registry[m])
  BY DEF DynamicImport, Idle, InBody, Running, Caller
<1> QED BY <1>1, <1>2, EnterAnswered, EnterPushed DEF DynamicImport

(* A new record is linked by the only call there is. *)
LEMMA EvalModuleInv == \A m \in Specifier : \A imports \in Sources(m) : Inv /\ EvalModule(m, imports) => Inv'
<1> SUFFICES ASSUME Inv, NEW m \in Specifier, NEW imports \in Sources(m), EvalModule(m, imports) PROVE Inv'
  OBVIOUS
<1> DEFINE n == Len(records) + 1
           new == [specifier |-> m, imports |-> imports, status |-> "Linking"]
           frame == [record |-> n, phase |-> "link", next |-> 1]
<1>1. /\ n \in 1..MaxRecords /\ DOMAIN records = 1..n - 1 /\ stack = <<>> /\ reply = "none"
      /\ new \in ModuleRecord /\ [new EXCEPT !.status = "Unlinked"] \in ModuleRecord /\ frame \in Frame
  BY Typed, LoaderAssumption DEF Inv, EvalModule, Idle, ModuleRecord, ModuleStatus, Sources, Frame
<1>2. /\ records' = Append(records, new) /\ stack' = <<frame>> /\ reply' = "none"
      /\ registry' = [registry EXCEPT ![m] = n] /\ started' = Append(started, 0)
      /\ UNCHANGED <<dynamic, panicked, bound>>
  <2> DEFINE unlinked == [specifier |-> m, imports |-> imports, status |-> "Unlinked"]
  <2>1. /\ Append(records, unlinked)[n] = unlinked /\ n # 0 /\ unlinked \in ModuleRecord
        /\ [Append(records, unlinked) EXCEPT ![n].status = "Linking"] = Append(records, new)
    <3>1. [unlinked EXCEPT !.status = "Linking"] = new /\ unlinked \in ModuleRecord
      BY <1>1
    <3>2. records \in Seq(ModuleRecord)
      BY DEF Inv, TypeOK
    <3>3. Len(records) \in Nat
      BY <3>2
    <3>4. Append(records, unlinked)[n] = unlinked
      BY <3>2, <3>3
    <3>5. DOMAIN Append(records, unlinked) = 1..n /\ DOMAIN Append(records, new) = 1..n
      BY <3>2, <3>3
    <3>6. \A d \in 1..n : d # n => Append(records, unlinked)[d] = records[d] /\ Append(records, new)[d] = records[d]
      BY <3>2, <3>3
    <3>7. Append(records, new)[n] = new
      BY <3>2, <3>3
    <3>8. [Append(records, unlinked) EXCEPT ![n].status = "Linking"]
            = [d \in 1..n |-> IF d = n THEN new ELSE records[d]]
      BY <3>1, <3>4, <3>5, <3>6
    <3>9. Append(records, new) = [d \in 1..n |-> Append(records, new)[d]]
      BY <3>2, <3>5
    <3>10. Append(records, new) = [d \in 1..n |-> IF d = n THEN new ELSE records[d]]
      BY <3>6, <3>7, <3>9
    <3> QED BY <3>1, <3>3, <3>4, <3>8, <3>10
  <2>2. ReplyAtOnce(n, "Unlinked") = "none"
    BY <2>1 DEF ReplyAtOnce
  <2>3. stack' = Append(stack, frame)
    BY <2>1, <2>2 DEF EvalModule, Enter, NewRecord
  <2> QED BY <1>1, <2>1, <2>2, <2>3 DEF EvalModule, Enter, NewRecord
<1>3. /\ records' \in Seq(ModuleRecord) /\ Len(records') = n /\ DOMAIN records' = 1..n /\ records'[n] = new
      /\ \A d \in DOMAIN records : d \in DOMAIN records' /\ d # n /\ records'[d] = records[d]
  BY <1>1, <1>2, Typed DEF Inv
<1>4. stack' \in Seq(Frame) /\ Len(stack') = 1 /\ DOMAIN stack' = {1} /\ stack'[1] = frame
  BY <1>1, <1>2
<1>5. /\ started' \in Seq(Nat) /\ Len(started') = n /\ started'[n] = 0
      /\ \A d \in DOMAIN records : started'[d] = started[d]
  BY <1>1, <1>2 DEF Inv, OnceAtMost, TypeOK
<1>6. TypeOK'
  <2>1. registry' \in [Specifier -> 0..n] /\ \A s \in Specifier : registry'[s] = IF s = m THEN n ELSE registry[s]
    BY <1>1, <1>2 DEF Inv, TypeOK
  <2>2. \A s \in Specifier : registry'[s] # 0 => records'[registry'[s]].specifier = s
    BY <1>1, <1>3, <2>1 DEF Inv, TypeOK
  <2>3. bound' \subseteq (DOMAIN records') \X (DOMAIN records')
    BY <1>1, <1>2, <1>3 DEF Inv, TypeOK
  <2> QED BY <1>1, <1>2, <1>3, <1>4, <1>5, <2>1, <2>2, <2>3 DEF Inv, TypeOK, Replies
<1>7. FrameStatus' /\ Calls' /\ NeverAhead'
  BY <1>1, <1>2, <1>3, <1>4 DEF FrameStatus, Calls, NeverAhead, Follows, Top
<1>8. Answered'
  BY <1>4 DEF Answered, Behind
<1>9. NotStarted' /\ OnceAtMost'
  <2>1. \A d \in DOMAIN records' : d = n \/ d \in DOMAIN records
    BY <1>1, <1>3
  <2>2. \A d \in DOMAIN records' : started'[d] <= 1
    BY <1>5, <2>1 DEF Inv, OnceAtMost
  <2>3. ASSUME NEW d \in DOMAIN records', records'[d].status \in {"Unlinked", "Linking"} PROVE started'[d] = 0
    <3>1. CASE d = n
      BY <1>5, <3>1
    <3>2. CASE d \in DOMAIN records
      BY <1>3, <1>5, <2>3, <3>2 DEF Inv, NotStarted
    <3> QED BY <2>1, <3>1, <3>2
  <2> QED BY <1>5, <2>2, <2>3 DEF NotStarted, OnceAtMost
<1>10. ImportsReady'
  BY <1>2, <1>3 DEF Inv, ImportsReady, TypeOK
<1> QED BY <1>6, <1>7, <1>8, <1>9, <1>10 DEF Inv

-----------------------------------------------------------------------------
(* A reply reaches the loop over the imports. *)
LEMMA LinkReplyInv == Inv /\ LinkReply => Inv'
<1> SUFFICES ASSUME Inv, LinkReply PROVE Inv'
  OBVIOUS
<1> DEFINE n == Len(stack)
<1>1. /\ stack # <<>> /\ Top.phase = "link" /\ reply # "none" /\ TypeOK
      /\ UNCHANGED <<records, registry, dynamic, panicked, started, bound>>
  BY DEF Inv, LinkReply, Running
<1>2. Waits(n) /\ stack[n] = Top /\ n \in DOMAIN stack /\ Top.record \in DOMAIN records
  BY <1>1, Typed DEF Inv, Calls, FrameStatus, Top
<1>3. NotStarted' /\ OnceAtMost' /\ ImportsReady'
  BY <1>1 DEF Inv, NotStarted, OnceAtMost, ImportsReady
<1>4. CASE reply = "error"
  <2>1. stack' = Popped /\ reply' = "error"
    BY <1>4 DEF LinkReply, LinkFailed
  <2>2. TypeOK'
    BY <1>1, <2>1, PoppedCalls DEF TypeOK, Replies
  <2>3. FrameStatus' /\ Answered' /\ NeverAhead'
    BY <1>1, <2>1, PoppedCalls
       DEF Inv, FrameStatus, Answered, Behind, ImportsOf, IsEvaluated, NeverAhead, Follows
  <2>4. Calls'
    <3>1. \A i \in 1..n - 1 : stack'[i] = stack[i] /\ i \in DOMAIN stack /\ i < n
      BY <1>1, <2>1, PoppedCalls
    <3>2. DOMAIN stack' = 1..n - 1 /\ Len(stack') = n - 1 /\ n \in Nat \ {0}
      BY <1>1, <2>1, PoppedCalls
    <3>3. \A i \in 1..n - 1 : stack[i].phase = "link" => Waits(i)' /\ stack[i + 1].record = Asked(stack[i])
      BY <1>1, <3>1, <3>2 DEF Inv, Calls, Waits, ImportsOf
    <3>4. ASSUME NEW i \in DOMAIN stack', i < Len(stack'), stack'[i].phase = "link"
          PROVE  Waits(i)' /\ stack'[i + 1].record = Asked(stack[i])'
      <4>1. i \in 1..n - 1 /\ i + 1 \in 1..n - 1
        BY <3>2, <3>4
      <4>2. stack'[i] = stack[i] /\ stack'[i + 1] = stack[i + 1]
        BY <3>1, <4>1
      <4> QED BY <1>1, <3>3, <3>4, <4>1, <4>2 DEF Asked, ImportsOf
    <3>5. stack' # <<>> => Len(stack') \in 1..n - 1
      <4>1. stack' \in Seq(Frame)
        BY <2>2 DEF TypeOK
      <4> QED BY <3>2, <4>1
    <3>6. ASSUME stack' # <<>>, Top'.phase = "link" PROVE Waits(Len(stack))'
      BY <3>1, <3>3, <3>5, <3>6 DEF Top
    <3> QED BY <2>1, <3>4, <3>6 DEF Calls
  <2> QED BY <1>3, <2>2, <2>3, <2>4 DEF Inv
<1>5. CASE reply # "error"
  <2>1. stack' = Advanced /\ reply' = "none" /\ reply = "ok"
    BY <1>1, <1>5 DEF LinkReply, LinkFailed, Linked, TypeOK, Replies
  <2>2. Top.next <= MaxImports
    BY <1>1, <1>2, Typed, LoaderAssumption DEF Waits, ImportsOf
  <2>3. /\ stack' \in Seq(Frame) /\ Len(stack') = n /\ n \in Nat \ {0} /\ DOMAIN stack' = 1..n /\ DOMAIN stack = 1..n
        /\ \A i \in 1..n : /\ stack'[i].record = stack[i].record /\ stack'[i].phase = stack[i].phase
                           /\ stack'[i].next = stack[i].next + (IF i = n THEN 1 ELSE 0)
                           /\ stack[i].next \in Nat \ {0}
    BY <1>1, <2>1, <2>2, AdvancedCalls, Typed
  <2>0. n \in Nat /\ \A i \in 1..n : /\ stack[i].next \in Nat /\ (i = n => stack'[i].next = stack[i].next + 1)
                                    /\ (i # n => stack'[i].next = stack[i].next)
    <3> SUFFICES ASSUME NEW i \in 1..n
                 PROVE  /\ stack[i].next \in Nat /\ (i = n => stack'[i].next = stack[i].next + 1)
                        /\ (i # n => stack'[i].next = stack[i].next)
      BY <2>3
    <3>1. stack[i].next \in Nat /\ stack'[i].next = stack[i].next + (IF i = n THEN 1 ELSE 0)
      BY <2>3
    <3> QED BY <3>1
  <2>4. TypeOK'
    BY <1>1, <2>1, <2>3 DEF TypeOK, Replies
  <2>5. FrameStatus'
    BY <1>1, <2>3 DEF Inv, FrameStatus
  <2>6. Calls'
    <3> SUFFICES ASSUME NEW i \in 1..n, i < n, stack[i].phase = "link"
                 PROVE  Waits(i)' /\ stack'[i + 1].record = Asked(stack[i])'
      BY <2>1, <2>3 DEF Calls
    <3>1. Waits(i) /\ stack[i + 1].record = Asked(stack[i])
      BY <2>3 DEF Inv, Calls
    <3>2. /\ stack'[i].record = stack[i].record /\ stack'[i].next = stack[i].next
          /\ stack'[i + 1].record = stack[i + 1].record
      <4>1. n \in Nat
        BY <2>0
      <4>2. i + 1 \in 1..n /\ i # n
        BY <4>1
      <4>3. stack'[i].next = stack[i].next
        BY <2>0, <4>2
      <4>4. stack'[i].record = stack[i].record /\ stack'[i + 1].record = stack[i + 1].record
        BY <2>3, <4>2
      <4> QED BY <4>3, <4>4
    <3> QED BY <1>1, <3>1, <3>2 DEF Waits, Asked, ImportsOf
  <2>7. NeverAhead'
    <3> SUFFICES ASSUME NEW i \in 1..n, NEW j \in 1..n, i < j, stack[i].record = stack[j].record
                 PROVE  Follows(i, j)'
      BY <2>3 DEF NeverAhead
    <3>1. Follows(i, j)
      BY <2>3 DEF Inv, NeverAhead
    <3>2. i # n /\ stack'[i].next = stack[i].next /\ stack[i].next \in Nat /\ stack[j].next \in Nat
      <4>1. i # n
        BY <2>0
      <4> QED BY <2>0, <4>1
    <3>3. stack'[j].next <= stack[i].next
      <4>1. CASE j = n
        <5>1. stack[j].next <= stack[i].next /\ stack[j].next # stack[i].next
          BY <2>1, <3>1, <4>1 DEF Follows
        <5>2. stack'[j].next = stack[j].next + 1
          BY <2>0, <4>1
        <5> QED BY <3>2, <5>1, <5>2
      <4>2. CASE j # n
        <5>1. stack'[j].next = stack[j].next
          BY <2>0, <4>2
        <5> QED BY <3>1, <5>1 DEF Follows
      <4> QED BY <4>1, <4>2
    <3>4. stack'[i].phase = stack[i].phase /\ stack'[j].phase = stack[j].phase
      BY <2>3
    <3> QED BY <2>1, <3>1, <3>2, <3>3, <3>4 DEF Follows
  <2>8. Answered'
    <3> SUFFICES ASSUME NEW i \in DOMAIN stack', NEW k \in DOMAIN records'[stack'[i].record].imports,
                        k \in IF stack'[i].phase = "body" THEN DOMAIN records'[stack'[i].record].imports
                                                           ELSE 1..stack'[i].next - 1
                 PROVE  /\ registry'[records'[stack'[i].record].imports[k].from] \in DOMAIN records'
                        /\ records'[registry'[records'[stack'[i].record].imports[k].from]].status = "Evaluated"
      BY DEF Answered, ImportsOf, Behind, IsEvaluated
    <3>0. i \in 1..n /\ k \in DOMAIN ImportsOf(stack[i]) /\ records'[stack'[i].record].imports = ImportsOf(stack[i])
      BY <1>1, <2>3 DEF ImportsOf
    <3> SUFFICES IsEvaluated(registry[ImportsOf(stack[i])[k].from])
      BY <1>1, <3>0 DEF IsEvaluated
    <3>1. CASE i = n /\ k = stack[n].next
      BY <1>1, <1>2, <2>1, <3>0, <3>1 DEF Inv, Calls, Asked, ImportsOf
    <3>2. CASE ~(i = n /\ k = stack[n].next)
      <4>1. k \in 1..Len(ImportsOf(stack[i])) /\ Len(ImportsOf(stack[i])) \in Nat
        <5>1. stack[i].record \in DOMAIN records
          BY <2>3, <3>0 DEF Inv, FrameStatus
        <5> QED BY <1>1, <3>0, <5>1, Typed DEF ImportsOf
      <4>2. k \in Behind(stack[i])
        <5>1. CASE stack[i].phase = "body"
          BY <3>0, <5>1 DEF Behind
        <5>2. CASE stack[i].phase # "body"
          <6>1. stack'[i].next = stack[i].next + (IF i = n THEN 1 ELSE 0) /\ stack[i].next \in Nat
            BY <2>3, <3>0
          <6>2. k \in 1..stack'[i].next - 1
            BY <2>3, <3>0, <5>2
          <6>3. k \in 1..stack[i].next - 1
            BY <3>2, <6>1, <6>2
          <6> QED BY <5>2, <6>3 DEF Behind
        <5> QED BY <5>1, <5>2
      <4> QED BY <2>3, <3>0, <4>2 DEF Inv, Answered
    <3> QED BY <3>1, <3>2
  <2> QED BY <1>3, <2>4, <2>5, <2>6, <2>7, <2>8 DEF Inv
<1> QED BY <1>4, <1>5

(* What changing the status of a record leaves alone. *)
LEMMA StatusChanged ==
  ASSUME TypeOK, NEW r \in DOMAIN records, NEW s \in ModuleStatus,
         records' = [records EXCEPT ![r].status = s], UNCHANGED <<registry, dynamic, panicked, bound>>,
         stack' \in Seq(Frame), reply' \in Replies, Len(started') = Len(started)
  PROVE  /\ TypeOK' /\ DOMAIN records' = DOMAIN records
         /\ \A d \in DOMAIN records : /\ records'[d].imports = records[d].imports
                                      /\ records'[d].status = IF d = r THEN s ELSE records[d].status
<1>1. \A d \in DOMAIN records : records[d] \in ModuleRecord
  BY Typed
<1>2. [records[r] EXCEPT !.status = s] \in ModuleRecord
  BY <1>1 DEF ModuleRecord
<1>3. records' \in Seq(ModuleRecord) /\ Len(records') = Len(records) /\ DOMAIN records' = DOMAIN records
  BY <1>1, <1>2, Typed
<1>4. \A d \in DOMAIN records :
        /\ records'[d].imports = records[d].imports /\ records'[d].specifier = records[d].specifier
        /\ records'[d].status = IF d = r THEN s ELSE records[d].status
  BY <1>1 DEF ModuleRecord
<1>5. \A m \in Specifier : registry[m] # 0 => registry[m] \in DOMAIN records
  BY Typed DEF TypeOK
<1>6. \A m \in Specifier : registry'[m] # 0 => records'[registry'[m]].specifier = m
  BY <1>4, <1>5 DEF TypeOK
<1> QED BY <1>3, <1>4, <1>6 DEF TypeOK

(* The body begins when no call of the same record is left below: a call   *)
(* below would wait for an import this one has behind it.                  *)
LEMMA BeginBodyInv == Inv /\ BeginBody => Inv'
<1> SUFFICES ASSUME Inv, BeginBody PROVE Inv'
  OBVIOUS
<1> DEFINE n == Len(stack)
           r == Top.record
<1>1. /\ stack # <<>> /\ Top.phase = "link" /\ reply = "none" /\ TypeOK /\ Top.next > Len(ImportsOf(Top))
      /\ UNCHANGED <<registry, reply, dynamic, panicked, bound>>
  BY DEF Inv, BeginBody, Running, AllImportsDone, Current, ImportsOf
<1>2. /\ n \in Nat \ {0} /\ DOMAIN stack = 1..n /\ stack[n] = Top /\ r \in DOMAIN records
      /\ records[r].status = "Linking" /\ \A i \in 1..n : stack[i] \in Frame
  BY <1>1, Typed DEF Inv, FrameStatus, Top
<1>3. \A i \in 1..n - 1 : stack[i].record # r
  <2> SUFFICES ASSUME NEW i \in 1..n - 1, stack[i].record = r PROVE FALSE
    OBVIOUS
  <2>1. Follows(i, n)
    BY <1>2 DEF Inv, NeverAhead
  <2>2. Waits(i)
    BY <1>2, <2>1 DEF Inv, Calls, Follows
  <2>3. stack[i].next \in 1..Len(ImportsOf(Top)) /\ Len(ImportsOf(Top)) \in Nat
    BY <1>1, <1>2, <2>2, Typed DEF Waits, ImportsOf
  <2>4. Top.next <= stack[i].next /\ Top.next \in Nat
    BY <1>1, <1>2, <2>1, Typed DEF Follows
  <2> QED BY <1>1, <2>3, <2>4
<1>4. /\ stack' \in Seq(Frame) /\ Len(stack') = n /\ DOMAIN stack' = 1..n
      /\ stack'[n].record = r /\ stack'[n].phase = "body" /\ \A i \in 1..n - 1 : stack'[i] = stack[i]
  <2>1. stack' = [stack EXCEPT ![n] = [Top EXCEPT !.phase = "body", !.next = 1]]
    BY <1>2 DEF BeginBody, Top
  <2>2. [Top EXCEPT !.phase = "body", !.next = 1] \in Frame
    <3>1. 1 \in 1..MaxImports + 1 /\ Top \in Frame
      BY <1>2, LoaderAssumption
    <3> QED BY <3>1 DEF Frame
  <2>3. stack' \in Seq(Frame) /\ Len(stack') = n /\ DOMAIN stack' = 1..n
    BY <1>1, <1>2, <2>1, <2>2 DEF TypeOK
  <2>4. stack'[n] = [Top EXCEPT !.phase = "body", !.next = 1] /\ \A i \in 1..n - 1 : stack'[i] = stack[i]
    BY <1>2, <2>1
  <2>5. Top \in Frame
    BY <1>2
  <2> QED BY <2>3, <2>4, <2>5 DEF Frame
<1>5. /\ started' \in Seq(Nat) /\ Len(started') = Len(started) /\ DOMAIN started = DOMAIN records
      /\ \A d \in DOMAIN records : started'[d] = IF d = r THEN 1 ELSE started[d]
  <2>1. started \in Seq(Nat) /\ DOMAIN started = DOMAIN records /\ started[r] = 0
    BY <1>1, <1>2, Typed DEF Inv, OnceAtMost, NotStarted, TypeOK
  <2> QED BY <1>2, <2>1 DEF BeginBody
<1>6. /\ TypeOK' /\ DOMAIN records' = DOMAIN records
      /\ \A d \in DOMAIN records : /\ records'[d].imports = records[d].imports
                                   /\ records'[d].status = IF d = r THEN "Evaluating" ELSE records[d].status
  <2>1. "Evaluating" \in ModuleStatus /\ records' = [records EXCEPT ![r].status = "Evaluating"] /\ reply' \in Replies
    BY <1>1 DEF BeginBody, ModuleStatus, TypeOK
  <2> QED BY <1>1, <1>2, <1>4, <1>5, <2>1, StatusChanged
<1>7. FrameStatus'
  BY <1>2, <1>3, <1>4, <1>6 DEF Inv, FrameStatus
<1>8. Calls'
  <2> SUFFICES ASSUME NEW i \in 1..n - 1, stack[i].phase = "link"
               PROVE  Waits(i)' /\ stack'[i + 1].record = Asked(stack[i])'
    BY <1>1, <1>2, <1>4 DEF Calls, Top
  <2>1. Waits(i) /\ stack[i + 1].record = Asked(stack[i]) /\ stack[i].record \in DOMAIN records
    BY <1>2 DEF Inv, Calls, FrameStatus
  <2>2. stack'[i + 1].record = stack[i + 1].record
    BY <1>2, <1>4
  <2> QED BY <1>1, <1>4, <1>6, <2>1, <2>2 DEF Waits, Asked, ImportsOf
<1>9. NeverAhead'
  BY <1>1, <1>2, <1>3, <1>4 DEF Inv, NeverAhead, Follows
<1>10. Answered'
  <2> SUFFICES ASSUME NEW i \in DOMAIN stack', NEW k \in DOMAIN records'[stack'[i].record].imports,
                      k \in IF stack'[i].phase = "body" THEN DOMAIN records'[stack'[i].record].imports
                                                         ELSE 1..stack'[i].next - 1
               PROVE  /\ registry'[records'[stack'[i].record].imports[k].from] \in DOMAIN records'
                      /\ records'[registry'[records'[stack'[i].record].imports[k].from]].status = "Evaluated"
    BY DEF Answered, ImportsOf, Behind, IsEvaluated
  <2>1. i \in 1..n /\ stack'[i].record = stack[i].record /\ stack[i].record \in DOMAIN records
    <3>1. i \in 1..n /\ stack'[i].record = stack[i].record
      <4>1. CASE i = n
        BY <1>2, <1>4, <4>1
      <4>2. CASE i # n
        BY <1>2, <1>4, <4>2
      <4> QED BY <4>1, <4>2
    <3> QED BY <1>2, <3>1 DEF Inv, FrameStatus
  <2>2. records'[stack'[i].record].imports = ImportsOf(stack[i]) /\ k \in DOMAIN ImportsOf(stack[i])
    BY <1>6, <2>1 DEF ImportsOf
  <2>3. k \in Behind(stack[i])
    <3>1. CASE i = n
      <4>1. k \in 1..Len(ImportsOf(Top)) /\ Len(ImportsOf(Top)) \in Nat /\ Top.next \in Nat
        BY <1>1, <1>2, <2>1, <2>2, <3>1, Typed DEF ImportsOf
      <4>2. k \in 1..Top.next - 1
        BY <1>1, <4>1
      <4> QED BY <1>1, <1>2, <3>1, <4>2 DEF Behind
    <3>2. CASE i # n
      <4>1. stack'[i] = stack[i]
        BY <1>2, <1>4, <2>1, <3>2
      <4> QED BY <2>2, <4>1 DEF Behind
    <3> QED BY <3>1, <3>2
  <2>4. IsEvaluated(registry[ImportsOf(stack[i])[k].from])
    BY <1>2, <2>1, <2>2, <2>3 DEF Inv, Answered
  <2> QED BY <1>1, <1>2, <1>6, <2>2, <2>4 DEF IsEvaluated
<1>11. NotStarted' /\ OnceAtMost'
  <2>1. \A d \in DOMAIN records : started'[d] <= 1
    BY <1>5 DEF Inv, OnceAtMost
  <2>2. \A d \in DOMAIN records : records'[d].status \in {"Unlinked", "Linking"} => started'[d] = 0
    BY <1>5, <1>6 DEF Inv, NotStarted
  <2> QED BY <1>5, <1>6, <2>1, <2>2 DEF NotStarted, OnceAtMost
<1>12. ImportsReady'
  BY <1>1, <1>2, <1>6 DEF Inv, ImportsReady, TypeOK
<1> QED BY <1>6, <1>7, <1>8, <1>9, <1>10, <1>11, <1>12 DEF Inv

-----------------------------------------------------------------------------
(* A body reads an import only from a module its call has waited for. *)
LEMMA BindImportInv == Inv /\ BindImport => Inv'
<1> SUFFICES ASSUME Inv, BindImport PROVE Inv'
  OBVIOUS
<1> DEFINE n == Len(stack)
           import == Current.imports[Top.next]
           from == registry[import.from]
<1>1. /\ stack # <<>> /\ Top.phase = "body" /\ reply = "none" /\ TypeOK
      /\ UNCHANGED <<records, registry, reply, dynamic, started>>
  BY DEF Inv, BindImport, InBody, Running
<1>2. n \in Nat \ {0} /\ DOMAIN stack = 1..n /\ stack[n] = Top /\ Top.record \in DOMAIN records
  BY <1>1, Typed DEF Inv, FrameStatus, Top
<1>3. Top.next \in DOMAIN ImportsOf(Top) /\ Top.next <= MaxImports
  <2>1. ~(Top.next > Len(ImportsOf(Top)))
    BY DEF BindImport, AllImportsDone, Current, ImportsOf
  <2>2. Top.next \in Nat \ {0} /\ Len(ImportsOf(Top)) \in 0..MaxImports /\ DOMAIN ImportsOf(Top) = 1..Len(ImportsOf(Top))
    BY <1>1, <1>2, Typed DEF ImportsOf
  <2> QED BY <2>1, <2>2, LoaderAssumption
<1>4. NotStarted' /\ OnceAtMost'
  BY <1>1 DEF Inv, NotStarted, OnceAtMost
<1>5. CASE import.star
  <2>1. UNCHANGED <<stack, bound>> /\ panicked' = TRUE
    BY <1>5 DEF BindImport
  <2>2. TypeOK' /\ FrameStatus' /\ Calls' /\ NeverAhead' /\ Answered' /\ ImportsReady'
    BY <1>1, <2>1 DEF Inv, TypeOK, FrameStatus, Calls, NeverAhead, Answered, ImportsReady,
                      Waits, Asked, Follows, Behind, ImportsOf, IsEvaluated, Top
  <2> QED BY <1>4, <2>2 DEF Inv
<1>6. CASE ~import.star
  <2>1. /\ stack' = Advanced /\ UNCHANGED panicked
        /\ bound' = IF from = 0 THEN bound ELSE bound \cup {<<Top.record, from>>}
    BY <1>6 DEF BindImport
  <2>2. /\ stack' \in Seq(Frame) /\ Len(stack') = n /\ DOMAIN stack' = 1..n
        /\ \A i \in 1..n : /\ stack'[i].record = stack[i].record /\ stack'[i].phase = stack[i].phase
                           /\ i # n => stack'[i].next = stack[i].next
    <3>1. /\ stack' \in Seq(Frame) /\ Len(stack') = n /\ DOMAIN stack' = 1..n
          /\ \A i \in 1..n : /\ stack'[i].record = stack[i].record /\ stack'[i].phase = stack[i].phase
                             /\ stack'[i].next = stack[i].next + (IF i = n THEN 1 ELSE 0)
      BY <1>1, <1>2, <1>3, <2>1, AdvancedCalls
    <3>2. \A i \in 1..n : stack[i].next \in Nat
      BY <1>1, <1>2, Typed
    <3>3. \A i \in 1..n : i # n => stack'[i].next = stack[i].next
      <4> SUFFICES ASSUME NEW i \in 1..n, i # n PROVE stack'[i].next = stack[i].next
        OBVIOUS
      <4>1. stack'[i].next = stack[i].next + 0
        BY <3>1
      <4> QED BY <3>2, <4>1
    <3> QED BY <3>1, <3>3
  <2>3. IsEvaluated(from)
    <3>1. Top.next \in Behind(stack[n])
      BY <1>1, <1>2, <1>3 DEF Behind
    <3>2. IsEvaluated(registry[ImportsOf(Top)[Top.next].from])
      BY <1>2, <1>3, <3>1 DEF Inv, Answered
    <3> QED BY <3>2 DEF ImportsOf, Current
  <2>4. \A rd \in bound' : rd \in (DOMAIN records) \X (DOMAIN records) /\ records[rd[2]].status = "Evaluated"
    <3>1. \A rd \in bound : rd \in (DOMAIN records) \X (DOMAIN records) /\ records[rd[2]].status = "Evaluated"
      BY DEF Inv, TypeOK, ImportsReady
    <3>2. <<Top.record, from>> \in (DOMAIN records) \X (DOMAIN records) /\ records[<<Top.record, from>>[2]].status = "Evaluated"
      BY <1>2, <2>3 DEF IsEvaluated
    <3> QED BY <2>1, <3>1, <3>2
  <2>5. TypeOK' /\ ImportsReady'
    BY <1>1, <2>1, <2>2, <2>4 DEF TypeOK, ImportsReady
  <2>6. FrameStatus'
    BY <1>1, <1>2, <2>2 DEF Inv, FrameStatus
  <2>7. Calls'
    <3> SUFFICES ASSUME NEW i \in 1..n, i < n, stack[i].phase = "link"
                 PROVE  Waits(i)' /\ stack'[i + 1].record = Asked(stack[i])'
      BY <1>1, <2>2 DEF Calls
    <3>1. Waits(i) /\ stack[i + 1].record = Asked(stack[i])
      BY <1>2 DEF Inv, Calls
    <3>2. /\ stack'[i].record = stack[i].record /\ stack'[i].next = stack[i].next
          /\ stack'[i + 1].record = stack[i + 1].record
      <4>1. i + 1 \in 1..n /\ i # n
        BY <1>2
      <4> QED BY <2>2, <4>1
    <3> QED BY <1>1, <3>1, <3>2 DEF Waits, Asked, ImportsOf
  <2>8. NeverAhead'
    <3> SUFFICES ASSUME NEW i \in 1..n, NEW j \in 1..n, i < j, stack[i].record = stack[j].record
                 PROVE  Follows(i, j)'
      BY <2>2 DEF NeverAhead
    <3>1. Follows(i, j)
      BY <1>2 DEF Inv, NeverAhead
    <3>2. i # n /\ j # n
      BY <1>1, <1>2, <3>1 DEF Follows
    <3> QED BY <1>1, <2>2, <3>1, <3>2 DEF Follows
  <2>9. Answered'
    <3> SUFFICES ASSUME NEW i \in DOMAIN stack', NEW k \in DOMAIN records'[stack'[i].record].imports,
                        k \in IF stack'[i].phase = "body" THEN DOMAIN records'[stack'[i].record].imports
                                                           ELSE 1..stack'[i].next - 1
                 PROVE  /\ registry'[records'[stack'[i].record].imports[k].from] \in DOMAIN records'
                        /\ records'[registry'[records'[stack'[i].record].imports[k].from]].status = "Evaluated"
      BY DEF Answered, ImportsOf, Behind, IsEvaluated
    <3>1. i \in 1..n /\ k \in DOMAIN ImportsOf(stack[i]) /\ records'[stack'[i].record].imports = ImportsOf(stack[i])
      BY <1>1, <2>2 DEF ImportsOf
    <3>2. k \in Behind(stack[i])
      BY <1>1, <1>2, <2>2, <3>1 DEF Behind
    <3>3. IsEvaluated(registry[ImportsOf(stack[i])[k].from])
      BY <1>2, <3>1, <3>2 DEF Inv, Answered
    <3> QED BY <1>1, <3>1, <3>3 DEF IsEvaluated
  <2> QED BY <1>4, <2>5, <2>6, <2>7, <2>8, <2>9 DEF Inv
<1> QED BY <1>5, <1>6

(* A reply that is taken changes nothing but the reply. *)
LEMMA SettledInv == Inv /\ (ImportSettled \/ Replied) => Inv'
<1> SUFFICES ASSUME Inv, ImportSettled \/ Replied PROVE Inv'
  OBVIOUS
<1>1. reply' = "none" /\ UNCHANGED <<records, registry, stack, dynamic, panicked, started, bound>>
  BY DEF ImportSettled, Replied
<1>2. TypeOK' /\ FrameStatus' /\ Answered' /\ NotStarted' /\ OnceAtMost' /\ ImportsReady'
  BY <1>1 DEF Inv, TypeOK, Replies, FrameStatus, Answered, NotStarted, OnceAtMost, ImportsReady,
              Behind, ImportsOf, IsEvaluated
<1>3. Calls' /\ NeverAhead'
  BY <1>1 DEF Inv, Calls, NeverAhead, Waits, Asked, Follows, ImportsOf, Top
<1> QED BY <1>2, <1>3 DEF Inv

(* A body that ends is the only call of its record; the call below it may  *)
(* be ahead of no other that waits for the same import.                    *)
LEMMA BodyReturnsInv ==
  ASSUME Inv, InBody, NEW s, NEW answer, <<s, answer>> \in {<<"Errored", "error">>, <<"Evaluated", "ok">>},
         BodyReturns(s, answer)
  PROVE  Inv'
<1> DEFINE n == Len(stack)
           r == Top.record
<1>1. /\ stack # <<>> /\ Top.phase = "body" /\ reply = "none" /\ TypeOK /\ stack' = Popped /\ reply' = answer
      /\ UNCHANGED <<registry, dynamic, panicked, started, bound>> /\ records' = [records EXCEPT ![r].status = s]
      /\ s \in {"Errored", "Evaluated"} /\ answer \in {"error", "ok"} /\ (answer = "ok" => s = "Evaluated")
  BY DEF Inv, BodyReturns, InBody, Running
<1>2. n \in Nat \ {0} /\ DOMAIN stack = 1..n /\ stack[n] = Top /\ r \in DOMAIN records /\ records[r].status = "Evaluating"
  BY <1>1, Typed DEF Inv, FrameStatus, Top
<1>3. \A i \in 1..n - 1 : stack[i].record # r
  BY <1>1, <1>2 DEF Inv, NeverAhead, Follows
<1>4. /\ stack' \in Seq(Frame) /\ Len(stack') = n - 1 /\ DOMAIN stack' = 1..n - 1
      /\ \A i \in 1..n - 1 : stack'[i] = stack[i] /\ i \in 1..n /\ i < n
  <2>1. \A i \in 1..n - 1 : i \in 1..n /\ i < n
    BY <1>2
  <2> QED BY <1>1, <1>2, <2>1, PoppedCalls
<1>5. /\ TypeOK' /\ DOMAIN records' = DOMAIN records
      /\ \A d \in DOMAIN records : /\ records'[d].imports = records[d].imports
                                   /\ records'[d].status = IF d = r THEN s ELSE records[d].status
  <2>1. s \in ModuleStatus /\ reply' \in Replies
    BY <1>1 DEF ModuleStatus, Replies
  <2> QED BY <1>1, <1>2, <1>4, <2>1, StatusChanged
<1>6. FrameStatus'
  BY <1>2, <1>3, <1>4, <1>5 DEF Inv, FrameStatus
<1>7. \A i \in 1..n - 1 : stack[i].record \in DOMAIN records /\ (stack[i].phase = "link" =>
        /\ stack[i].next \in DOMAIN ImportsOf(stack[i]) /\ Waits(i)'
        /\ stack[i + 1].record = Asked(stack[i])
        /\ registry'[records'[stack'[i].record].imports[stack'[i].next].from] = Asked(stack[i]))
  <2> SUFFICES ASSUME NEW i \in 1..n - 1
               PROVE  stack[i].record \in DOMAIN records /\ (stack[i].phase = "link" =>
                        /\ stack[i].next \in DOMAIN ImportsOf(stack[i]) /\ Waits(i)'
                        /\ stack[i + 1].record = Asked(stack[i])
                        /\ registry'[records'[stack'[i].record].imports[stack'[i].next].from] = Asked(stack[i]))
    OBVIOUS
  <2>1. stack[i].record \in DOMAIN records /\ stack'[i] = stack[i]
    BY <1>2, <1>4 DEF Inv, FrameStatus
  <2>2. stack[i].phase = "link" => Waits(i) /\ stack[i + 1].record = Asked(stack[i])
    BY <1>2, <1>4 DEF Inv, Calls
  <2> QED BY <1>1, <1>5, <2>1, <2>2 DEF Waits, Asked, ImportsOf
<1>8. Calls'
  <2>1. ASSUME NEW i \in DOMAIN stack', i < Len(stack'), stack'[i].phase = "link"
        PROVE  Waits(i)' /\ stack'[i + 1].record = Asked(stack[i])'
    <3>1. i \in 1..n - 1 /\ i + 1 \in 1..n - 1
      BY <1>2, <1>4, <2>1
    <3> QED BY <1>4, <1>7, <2>1, <3>1 DEF Asked, ImportsOf
  <2>2. ASSUME stack' # <<>>, Top'.phase = "link"
        PROVE  /\ Waits(Len(stack))' /\ (reply' = "ok" => s = "Evaluated")
               /\ registry'[records'[Top'.record].imports[Top'.next].from] = r
    <3>1. n - 1 \in 1..n - 1 /\ Len(stack') = n - 1
      <4>1. Len(stack') # 0
        BY <1>4, <2>2
      <4> QED BY <1>2, <1>4, <4>1
    <3>2. Top' = stack'[n - 1] /\ stack'[n - 1] = stack[n - 1] /\ n - 1 + 1 = n
      BY <1>2, <1>4, <3>1 DEF Top
    <3>3. Asked(stack[n - 1]) = r
      BY <1>2, <1>7, <2>2, <3>1, <3>2
    <3> QED BY <1>1, <1>7, <2>2, <3>1, <3>2, <3>3
  <2>3. ASSUME stack' # <<>>, Top'.phase = "link", reply' = "ok" PROVE IsEvaluated(Asked(Top))'
    BY <1>1, <1>2, <1>5, <2>2, <2>3 DEF IsEvaluated, Asked, ImportsOf
  <2>4. (\A i \in DOMAIN stack : i < Len(stack) /\ stack[i].phase = "link" =>
            Waits(i) /\ stack[i + 1].record = Asked(stack[i]))'
    BY <2>1
  <2>5. (stack # <<>> /\ Top.phase = "link" => Waits(Len(stack)))'
    BY <2>2
  <2>6. (stack # <<>> /\ Top.phase = "link" /\ reply = "ok" => IsEvaluated(Asked(Top)))'
    BY <2>3
  <2> QED BY <2>4, <2>5, <2>6 DEF Calls
<1>9. NeverAhead'
  <2> SUFFICES ASSUME NEW i \in 1..n - 1, NEW j \in 1..n - 1, i < j, stack[i].record = stack[j].record
               PROVE  Follows(i, j)'
    BY <1>4 DEF NeverAhead
  <2>1. Follows(i, j)
    BY <1>2, <1>4 DEF Inv, NeverAhead
  <2>2. ASSUME j = n - 1, stack[j].next = stack[i].next PROVE FALSE
    <3>1. Asked(stack[i]) = Asked(stack[j])
      BY <2>2 DEF Asked, ImportsOf
    <3>2. stack[j + 1].record = r /\ stack[i + 1].record = r
      <4>1. stack[i].phase = "link" /\ stack[j].phase = "link"
        BY <2>1 DEF Follows
      <4>2. stack[i + 1].record = Asked(stack[i]) /\ stack[j + 1].record = Asked(stack[j])
        BY <1>7, <4>1
      <4>3. stack[j + 1].record = r
        BY <1>2, <2>2
      <4> QED BY <3>1, <4>2, <4>3
    <3>3. i + 1 \in 1..n - 1
      BY <1>2, <2>2
    <3> QED BY <1>3, <3>2, <3>3
  <2> QED BY <1>4, <2>1, <2>2 DEF Follows
<1>10. Answered'
  <2> SUFFICES ASSUME NEW i \in DOMAIN stack', NEW k \in DOMAIN records'[stack'[i].record].imports,
                      k \in IF stack'[i].phase = "body" THEN DOMAIN records'[stack'[i].record].imports
                                                         ELSE 1..stack'[i].next - 1
               PROVE  /\ registry'[records'[stack'[i].record].imports[k].from] \in DOMAIN records'
                      /\ records'[registry'[records'[stack'[i].record].imports[k].from]].status = "Evaluated"
    BY DEF Answered, ImportsOf, Behind, IsEvaluated
  <2>1. i \in 1..n /\ stack'[i] = stack[i] /\ stack[i].record \in DOMAIN records
    BY <1>4, <1>7
  <2>2. k \in Behind(stack[i]) /\ k \in DOMAIN ImportsOf(stack[i]) /\ records'[stack'[i].record].imports = ImportsOf(stack[i])
    BY <1>5, <2>1 DEF Behind, ImportsOf
  <2>3. IsEvaluated(registry[ImportsOf(stack[i])[k].from])
    BY <1>2, <2>1, <2>2 DEF Inv, Answered
  <2> QED BY <1>1, <1>2, <1>5, <2>2, <2>3 DEF IsEvaluated
<1>11. NotStarted' /\ OnceAtMost' /\ ImportsReady'
  BY <1>1, <1>2, <1>5 DEF Inv, NotStarted, OnceAtMost, ImportsReady, TypeOK
<1> QED BY <1>5, <1>6, <1>8, <1>9, <1>10, <1>11 DEF Inv

(* A stack that overflows leaves all as it is, and so does no step. *)
LEMMA StutterInv == Inv /\ (Overflow \/ UNCHANGED vars) => Inv'
<1> SUFFICES ASSUME Inv, Overflow \/ UNCHANGED vars PROVE Inv'
  OBVIOUS
<1>1. UNCHANGED <<records, registry, stack, reply, dynamic, started, bound>> /\ panicked' \in BOOLEAN
  BY DEF vars, Overflow, Inv, TypeOK
<1>2. TypeOK' /\ FrameStatus' /\ Answered' /\ NotStarted' /\ OnceAtMost' /\ ImportsReady'
  BY <1>1 DEF Inv, TypeOK, FrameStatus, Answered, NotStarted, OnceAtMost, ImportsReady,
              Behind, ImportsOf, IsEvaluated
<1>3. Calls' /\ NeverAhead'
  BY <1>1 DEF Inv, Calls, NeverAhead, Waits, Asked, Follows, ImportsOf, IsEvaluated, Top
<1> QED BY <1>2, <1>3 DEF Inv

LEMMA StepInv == Inv /\ [Next]_vars => Inv'
<1> SUFFICES ASSUME Inv, [Next]_vars PROVE Inv'
  OBVIOUS
<1>1. CASE \E m \in Specifier : DynamicImport(m)
  BY <1>1, DynamicImportInv
<1>2. CASE \E m \in Specifier : \E imports \in Sources(m) : EvalModule(m, imports)
  BY <1>2, EvalModuleInv
<1>3. CASE LinkNext
  BY <1>3, LinkNextInv
<1>4. CASE LinkReply
  BY <1>4, LinkReplyInv
<1>5. CASE BeginBody
  BY <1>5, BeginBodyInv
<1>6. CASE BindImport
  BY <1>6, BindImportInv
<1>7. CASE ImportSettled \/ Replied
  BY <1>7, SettledInv
<1>8. CASE BodyThrows
  BY <1>8, BodyReturnsInv DEF BodyThrows, Failure
<1>9. CASE BodyDone
  BY <1>9, BodyReturnsInv DEF BodyDone
<1>10. CASE Overflow \/ UNCHANGED vars
  BY <1>10, StutterInv
<1> QED BY <1>1, <1>2, <1>3, <1>4, <1>5, <1>6, <1>7, <1>8, <1>9, <1>10 DEF Next, Loading

-----------------------------------------------------------------------------
(* The invariant above holds of every run of the loader. *)
THEOREM Invariance == Spec => []Inv
  BY InitInv, StepInv, PTL DEF Spec

(* Records, registry and calls stay well formed, and a specifier is given  *)
(* a record of its own (module.rs, register and link_and_evaluate_module). *)
THEOREM LoaderTypeCorrect == Spec => []TypeOK
<1>1. Inv => TypeOK
  BY DEF Inv
<1> QED BY <1>1, Invariance, PTL

(* However modules import one another dynamically and are registered       *)
(* again, link_and_evaluate_module runs the body of a record once at most. *)
THEOREM EvaluatedOnceCorrect == Spec => []EvaluatedOnce
<1>1. Inv => EvaluatedOnce
  <2> SUFFICES ASSUME Inv PROVE EvaluatedOnce
    OBVIOUS
  <2>1. DOMAIN started = DOMAIN records
    BY DEF Inv, OnceAtMost, TypeOK
  <2> QED BY <2>1 DEF Inv, OnceAtMost, EvaluatedOnce
<1> QED BY <1>1, Invariance, PTL

(* What a module body copies when it binds an import are the exports of a  *)
(* module whose evaluation has ended without an error.                     *)
THEOREM ImportsReadyCorrect == Spec => []ImportsReady
<1>1. Inv => ImportsReady
  BY DEF Inv
<1> QED BY <1>1, Invariance, PTL
=============================================================================
