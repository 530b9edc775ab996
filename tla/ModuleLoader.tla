---------------------------- MODULE ModuleLoader ----------------------------
(***************************************************************************)
(* ECMAScript modules (src/src/runtime/module.rs): the registry of module  *)
(* records, and link_and_evaluate_module, which links the imports of a     *)
(* module one after another on its own stack and then runs its statements. *)
(* A statement may import dynamically, which links on top of the body that *)
(* asks.                                                                   *)
(*                                                                         *)
(* Specifiers are numbers; records are numbered as they are registered.    *)
(***************************************************************************)
EXTENDS Naturals, Sequences, SequencesExt, FiniteSets

CONSTANTS Specifiers,   \* how many specifiers there are
          MaxImports,   \* bound: imports in one source
          MaxRecords,   \* bound: records registered
          MaxDynamic,   \* bound: dynamic imports
          MaxDepth,     \* calls of link_and_evaluate_module that the native stack holds
          Circular,     \* bound: the specifiers whose source may import what imports it
          StarImports   \* may a source have import * as ns?

ASSUME LoaderAssumption ==
  /\ Specifiers \in Nat /\ MaxImports \in Nat /\ MaxRecords \in Nat /\ MaxDynamic \in Nat
  /\ MaxDepth \in Nat \ {0} /\ Circular \in Nat /\ StarImports \in BOOLEAN

Specifier == 1..Specifiers
ModuleStatus == {"Unlinked", "Linking", "Evaluating", "Evaluated", "Errored"}
Replies == {"none", "ok", "error"}

(* The import_specifiers of a source, each with whether it is import *.    *)
Import == [from : Specifier, star : {FALSE, StarImports}]
ImportList == SeqOf(Import, MaxImports)
Sources(m) ==
  {imports \in ImportList :
     \A i \in DOMAIN imports : imports[i].from < m \/ (m <= Circular /\ ~imports[i].star)}

ModuleRecord == [specifier : Specifier, imports : ImportList, status : ModuleStatus]
Frame == [record : 1..MaxRecords, phase : {"link", "body"}, next : 1..MaxImports + 1]

VARIABLES
  records,   \* the module records
  registry,  \* specifier -> its record, 0 if it has none
  stack,     \* calls of link_and_evaluate_module, the innermost last
  reply,     \* what the call that just returned gives its caller
  dynamic,   \* dynamic imports made
  panicked,  \* a RefCell was borrowed twice, or the native stack overflowed
  started,   \* history: how often the body of each record was begun
  bound      \* history: <<r, d>>: an import of record r was read from d

vars == <<records, registry, stack, reply, dynamic, panicked, started, bound>>

Init ==
  /\ records = <<>> /\ registry = [m \in Specifier |-> 0]
  /\ stack = <<>> /\ reply = "none" /\ dynamic = 0 /\ panicked = FALSE
  /\ started = <<>> /\ bound = {}

Top == stack[Len(stack)]
Popped == SubSeq(stack, 1, Len(stack) - 1)
Current == records[Top.record]
Advanced == [stack EXCEPT ![Len(stack)].next = @ + 1]
AllImportsDone == Top.next > Len(Current.imports)
Idle == stack = <<>> /\ reply = "none" /\ ~panicked
Running(phase) == stack # <<>> /\ Top.phase = phase /\ ~panicked
InBody == Running("body") /\ reply = "none"
HasRoom == Len(stack) < MaxDepth

-----------------------------------------------------------------------------
(* The entry of link_and_evaluate_module. *)

(* Mutant: a module that is being evaluated is not noticed. *)
MutReplyAtOnce(r, status) ==
  CASE r = 0 -> "error" [] status = "Evaluated" -> "ok" [] status = "Errored" -> "error"
    [] OTHER -> "none"
ReplyAtOnce(r, status) ==
  CASE r = 0 -> "error"                  \* Module not found
    [] status = "Evaluated" -> "ok"      \* its namespace
    [] status = "Evaluating" -> "error"  \* Circular dependency detected
    [] status = "Errored" -> "error"     \* the error it failed with
    [] OTHER -> "none"

(* Link record r, called from the frames in calls. *)
Enter(recs, r, calls) ==
  LET answer == ReplyAtOnce(r, IF r = 0 THEN "Unlinked" ELSE recs[r].status)
  IN /\ reply' = answer
     /\ records' = IF answer # "none" THEN recs ELSE [recs EXCEPT ![r].status = "Linking"]
     /\ stack' = IF answer # "none" THEN calls
                 ELSE Append(calls, [record |-> r, phase |-> "link", next |-> 1])

(* Mutant: the registry is given the record registered before. *)
MutNewRecord == Len(records)
NewRecord == Len(records) + 1

(* Context::eval_module: register, replacing a record of the same          *)
(* specifier, then link and evaluate.                                      *)
EvalModule(m, imports) ==
  /\ Idle /\ Len(records) < MaxRecords
  /\ registry' = [registry EXCEPT ![m] = NewRecord]
  /\ started' = Append(started, 0)
  /\ Enter(Append(records, [specifier |-> m, imports |-> imports, status |-> "Unlinked"]),
           NewRecord, stack)
  /\ UNCHANGED <<dynamic, panicked, bound>>

(* import(specifier), from a script or a microtask, or from a module body. *)
DynamicImport(m) ==
  /\ Idle \/ InBody
  /\ HasRoom /\ dynamic < MaxDynamic /\ dynamic' = dynamic + 1
  /\ Enter(records, registry[m], stack)
  /\ UNCHANGED <<registry, panicked, started, bound>>

(* The loop over import_specifiers. *)
LinkNext ==
  /\ Running("link") /\ reply = "none" /\ ~AllImportsDone /\ HasRoom
  /\ Enter(records, registry[Current.imports[Top.next].from], stack)
  /\ UNCHANGED <<registry, dynamic, panicked, started, bound>>

(* A module that is Linking is linked again, so imports in a cycle call    *)
(* each other until the stack is full.                                     *)
Overflow ==
  /\ ~HasRoom
  /\ (Running("link") /\ reply = "none" /\ ~AllImportsDone) \/ (InBody /\ dynamic < MaxDynamic)
  /\ panicked' = TRUE
  /\ UNCHANGED <<records, registry, stack, reply, dynamic, started, bound>>

(* Mutant: the loop does not advance. *)
MutLinked == stack
Linked == Advanced
(* Mutant: the failure of an import is ignored. *)
MutLinkFailed == FALSE
LinkFailed == reply = "error"

(* An error of an import is returned with ?: the importer stays Linking. *)
LinkReply ==
  /\ Running("link") /\ reply # "none"
  /\ IF LinkFailed THEN stack' = Popped /\ UNCHANGED reply
                   ELSE stack' = Linked /\ reply' = "none"
  /\ UNCHANGED <<records, registry, dynamic, panicked, started, bound>>

BeginBody ==
  /\ Running("link") /\ reply = "none" /\ AllImportsDone
  /\ records' = [records EXCEPT ![Top.record].status = "Evaluating"]
  /\ stack' = [stack EXCEPT ![Len(stack)].phase = "body", ![Len(stack)].next = 1]
  /\ started' = [started EXCEPT ![Top.record] = @ + 1]
  /\ UNCHANGED <<registry, reply, dynamic, panicked, bound>>

-----------------------------------------------------------------------------
(* The statements of a module: its imports in order, and other code around *)
(* them that may import, or throw.                                         *)

(* The exports are copied; import * borrows the record while it is         *)
(* borrowed and panics.                                                    *)
BindImport ==
  /\ InBody /\ ~AllImportsDone
  /\ LET import == Current.imports[Top.next]
         from == registry[import.from]
     IN IF import.star THEN panicked' = TRUE /\ UNCHANGED <<stack, bound>>
        ELSE /\ bound' = IF from = 0 THEN bound ELSE bound \cup {<<Top.record, from>>}
             /\ stack' = Advanced /\ UNCHANGED panicked
  /\ UNCHANGED <<records, registry, reply, dynamic, started>>

(* dynamic_import settles its promise with the reply. *)
ImportSettled ==
  /\ Running("body") /\ reply # "none"
  /\ reply' = "none"
  /\ UNCHANGED <<records, registry, stack, dynamic, panicked, started, bound>>

BodyReturns(status, answer) ==
  /\ records' = [records EXCEPT ![Top.record].status = status]
  /\ stack' = Popped /\ reply' = answer
  /\ UNCHANGED <<registry, dynamic, panicked, started, bound>>

Failure == "Errored"

BodyThrows == InBody /\ BodyReturns(Failure, "error")
BodyDone == InBody /\ AllImportsDone /\ BodyReturns("Evaluated", "ok")

(* The host, or the promise of import() in a script, has the reply. *)
Replied ==
  /\ stack = <<>> /\ reply # "none"
  /\ reply' = "none"
  /\ UNCHANGED <<records, registry, stack, dynamic, panicked, started, bound>>

Loading ==
  LinkNext \/ Overflow \/ LinkReply \/ BeginBody \/ BindImport \/ ImportSettled \/ BodyThrows \/ BodyDone \/ Replied
Next ==
  \/ \E m \in Specifier : DynamicImport(m) \/ \E imports \in Sources(m) : EvalModule(m, imports)
  \/ Loading

(* One thread runs the loader to its end; statements return or throw. *)
Spec == Init /\ [][Next]_vars
FairSpec == Spec /\ WF_vars(Loading)

-----------------------------------------------------------------------------
(* Properties *)

(* Every record and frame is well formed, and the registry gives for a     *)
(* specifier a record of that specifier.                                   *)
TypeOK ==
  /\ records \in Seq(ModuleRecord) /\ Len(records) <= MaxRecords
  /\ registry \in [Specifier -> 0..Len(records)]
  /\ \A m \in Specifier : registry[m] # 0 => records[registry[m]].specifier = m
  /\ stack \in Seq(Frame) /\ reply \in Replies
  /\ dynamic \in 0..MaxDynamic /\ panicked \in BOOLEAN
  /\ Len(started) = Len(records) /\ bound \subseteq (DOMAIN records) \X (DOMAIN records)

(* A module body reads its imports only from modules whose evaluation has  *)
(* ended without an error, whatever was registered again in between and    *)
(* whatever imports dynamically.                                           *)
ImportsReady == \A rd \in bound : records[rd[2]].status = "Evaluated"

(* A module body runs at most once, also when one of the modules it        *)
(* imports imports it dynamically while it is being linked.                *)
EvaluatedOnce == \A r \in DOMAIN started : started[r] <= 1

(* Every import is answered, unless import * panics or the imports form a  *)
(* cycle: then, and only then, the stack overflows. A module whose import  *)
(* or body failed is never left Evaluating, so that it may be asked for    *)
(* again without being taken for one that imports itself.                  *)
ImportedBy(r) == {registry[records[r].imports[k].from] : k \in DOMAIN records[r].imports}
ImportCycle ==
  \E cycle \in (SUBSET DOMAIN records) \ {{}} : \A r \in cycle : ImportedBy(r) \cap cycle # {}
NoneEvaluating == Idle => \A r \in DOMAIN records : records[r].status # "Evaluating"
Answers == stack # <<>> ~> (stack = <<>> \/ (panicked /\ (HasRoom \/ ImportCycle)))
LoadEnds == []NoneEvaluating /\ Answers
=============================================================================
