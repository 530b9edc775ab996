------------------------------ MODULE Promises ------------------------------
(***************************************************************************)
(* Promises and the microtask queue (src/src/builtins/promise.rs,          *)
(* src/src/execution/microtask_queue.rs), with await as the interpreter    *)
(* runs it: there are no suspended functions, await runs the queue on top  *)
(* of the code that awaits, so scripts, handlers and checkpoints nest on   *)
(* one stack.                                                              *)
(*                                                                         *)
(* Promises are numbered in the order they are created.  Values are plain, *)
(* a promise, a thenable, or one of the two errors the code makes.         *)
(***************************************************************************)
EXTENDS Naturals, Sequences, FiniteSets

CONSTANTS ScriptKinds,  \* how scripts are evaluated: "eval", "module"
          MaxPromises,  \* bound: promises created
          MaxCalls,     \* bound: calls of the promise API
          MaxDepth,     \* bound: frames on the stack
          MaxScripts,   \* bound: scripts evaluated
          Plain, Thenable, CycleError, Thrown,  \* values
          None          \* no promise, no value

ASSUME PromiseAssumption ==
  /\ ScriptKinds \subseteq {"eval", "module"} /\ ScriptKinds # {}
  /\ MaxPromises \in Nat /\ MaxCalls \in Nat /\ MaxDepth \in Nat /\ MaxScripts \in Nat

Promise == 1..MaxPromises
Value == Promise \cup {Plain, Thenable, CycleError, Thrown}
ASSUME ValueAssumption ==
  /\ None \notin Value /\ {Plain, Thenable, CycleError, Thrown} \cap Promise = {}
  /\ Thenable \notin {Plain, CycleError, Thrown}

States == {"pending", "fulfilled", "rejected"}

(* What a reaction calls: a user function, the callback of finally, a      *)
(* closure that resolves or rejects a promise, or nothing.                 *)
HandlerKinds == {"none", "user", "finally", "resolve", "reject"}
Reaction == [handler : HandlerKinds, of : Promise \cup {None}, downstream : Promise \cup {None}]
PromiseRecord == [state : States, result : Value \cup {None},
                  fulfillReactions : Seq(Reaction), rejectReactions : Seq(Reaction)]
Job == [reaction : Reaction, argument : Value \cup {None}, rejection : BOOLEAN]
FrameKinds == {"script", "task", "handler", "finally", "thenable", "async", "drain", "await"}
Frame == [kind : FrameKinds, promise : Promise \cup {None}, argument : Value \cup {None},
          flag : BOOLEAN]

VARIABLES
  promises,  \* the promises created
  queue,     \* the microtask queue
  stack,     \* what runs, the innermost last
  hasQueue,  \* MicrotaskQueue::current() is set
  held,      \* <<p, kind>>: the resolving functions of p the client holds
  calls,     \* API calls made
  scripts    \* scripts evaluated

VARIABLES    \* history
  parent,    \* parent[c]: the promise whose then() created c, or None
  reacted,   \* the children whose reaction was taken from the queue
  adopted    \* <<p, q>>: p was resolved with the pending promise q

history == <<parent, reacted, adopted>>
vars == <<promises, queue, stack, hasQueue, held, calls, scripts, history>>

Init ==
  /\ promises = <<>> /\ queue = <<>> /\ stack = <<>>
  /\ hasQueue = FALSE /\ held = {} /\ calls = 0 /\ scripts = 0
  /\ parent = <<>> /\ reacted = {} /\ adopted = {}

-----------------------------------------------------------------------------
(* Settling.  A world is the part of the state these functions change. *)

World == [promises |-> promises, queue |-> queue, stack |-> stack, held |-> held,
          adopted |-> adopted]

NewPromise ==
  [state |-> "pending", result |-> None, fulfillReactions |-> <<>>, rejectReactions |-> <<>>]

NewFrame(kind, p, argument, flag) ==
  [kind |-> kind, promise |-> p, argument |-> argument, flag |-> flag]

NewReaction(handler, of, downstream) ==
  [handler |-> handler, of |-> of, downstream |-> downstream]

NewJob(reaction, argument, rejection) ==
  [reaction |-> reaction, argument |-> argument, rejection |-> rejection]

(* drain_reactions: enqueue one list, clear both. *)
Jobs(reactions, argument, rejection) ==
  [i \in DOMAIN reactions |-> NewJob(reactions[i], argument, rejection)]

(* Mutant: the state of the promise is not checked. *)
MutPending(w, p) == TRUE
Pending(w, p) == w.promises[p].state = "pending"

(* Mutant: the state is not stored. *)
MutSettledRecord(state, value) == [NewPromise EXCEPT !.result = value]
SettledRecord(state, value) == [NewPromise EXCEPT !.state = state, !.result = value]

(* Steps 4 and 5 of resolve_promise_internal, and reject_promise_internal. *)
Settle(w, p, state, value) ==
  IF ~Pending(w, p) THEN w
  ELSE LET reactions == IF state = "fulfilled" THEN w.promises[p].fulfillReactions
                                               ELSE w.promises[p].rejectReactions
       IN [w EXCEPT !.promises[p] = SettledRecord(state, value),
                    !.queue = @ \o Jobs(reactions, value, state = "rejected")]

(* add_reaction, to both lists. *)
AddReactions(w, p, onFulfilled, onRejected) ==
  [w EXCEPT !.promises[p].fulfillReactions = Append(@, onFulfilled),
            !.promises[p].rejectReactions = Append(@, onRejected)]

(* Mutant: a rejection of the adopted promise is not passed on. *)
MutAdopt(w, p, q) ==
  [w EXCEPT !.promises[q].fulfillReactions = Append(@, NewReaction("resolve", p, None)),
            !.adopted = @ \cup {<<p, q>>}]

Adopt(w, p, q) ==
  [AddReactions(w, q, NewReaction("resolve", p, None), NewReaction("reject", p, None))
     EXCEPT !.adopted = @ \cup {<<p, q>>}]

IsThenable(value) == value = Thenable

(* resolve_promise_internal.  The result of a fulfilled promise is neither *)
(* a promise nor a thenable, so its recursion on it settles at once.       *)
Resolve(w, p, value) ==
  IF value = p THEN Settle(w, p, "rejected", CycleError)
  ELSE IF value \in Promise
  THEN IF Pending(w, value) THEN Adopt(w, p, value)
       ELSE Settle(w, p, w.promises[value].state, w.promises[value].result)
  ELSE IF IsThenable(value)
  THEN [w EXCEPT !.stack = Append(@, NewFrame("thenable", p, None, FALSE)),
                 !.held = @ \cup {<<p, "thenable">>}]
  ELSE Settle(w, p, "fulfilled", value)

(* resolve and reject as new Promise and withResolvers hand them out:      *)
(* without a current queue they overwrite the promise.                     *)
ResolveFunction(w, p, value) ==
  IF hasQueue THEN Resolve(w, p, value)
  ELSE [w EXCEPT !.promises[p].state = "fulfilled", !.promises[p].result = value]

RejectFunction(w, p, value) ==
  IF hasQueue THEN Settle(w, p, "rejected", value)
  ELSE [w EXCEPT !.promises[p].state = "rejected", !.promises[p].result = value]

Becomes(w) ==
  /\ promises' = w.promises /\ queue' = w.queue /\ stack' = w.stack
  /\ held' = w.held /\ adopted' = w.adopted

-----------------------------------------------------------------------------
(* Calls made by running code. *)

Top == stack[Len(stack)]
Popped == SubSeq(stack, 1, Len(stack) - 1)
Room == Len(stack) < MaxDepth
CodeKinds == {"script", "task", "handler", "finally", "thenable", "async"}

Calling ==
  /\ stack # <<>> /\ Top.kind \in CodeKinds
  /\ calls < MaxCalls /\ calls' = calls + 1
  /\ UNCHANGED <<hasQueue, scripts>>

Created == DOMAIN promises
CanCreate == Len(promises) < MaxPromises

(* What code passes and returns.  Without a queue a promise or a thenable  *)
(* would only be stored as the result: left out.                           *)
Available == IF hasQueue THEN Created \cup {Plain, Thenable} ELSE {Plain}

(* new Promise(executor), whose executor is the calls that follow, and     *)
(* Promise.withResolvers().                                                *)
Create ==
  /\ Calling /\ CanCreate
  /\ promises' = Append(promises, NewPromise)
  /\ held' = held \cup {<<Len(promises'), "capability">>}
  /\ parent' = Append(parent, None)
  /\ UNCHANGED <<queue, stack, reacted, adopted>>

(* A call of a resolving function.  The ones a thenable was given captured *)
(* the queue.                                                              *)
CallResolve(h, value) ==
  /\ Calling /\ h \in held
  /\ value = Thenable => Room
  /\ Becomes(IF h[2] = "capability" THEN ResolveFunction(World, h[1], value)
                                   ELSE Resolve(World, h[1], value))
  /\ UNCHANGED <<parent, reacted>>

CallReject(h) ==
  /\ Calling /\ h \in held
  /\ Becomes(IF h[2] = "capability" THEN RejectFunction(World, h[1], Plain)
                                   ELSE Settle(World, h[1], "rejected", Plain))
  /\ UNCHANGED <<parent, reacted>>

(* Mutant: a reaction to a settled promise waits for it to settle. *)
MutReact(w, p, onFulfilled, onRejected) == AddReactions(w, p, onFulfilled, onRejected)

(* The body of then(): react to a pending promise, or enqueue at once. *)
React(w, p, onFulfilled, onRejected) ==
  LET it == w.promises[p]
  IN IF ~hasQueue \/ it.state = "pending" THEN AddReactions(w, p, onFulfilled, onRejected)
     ELSE [w EXCEPT !.queue = Append(@,
             IF it.state = "fulfilled" THEN NewJob(onFulfilled, it.result, FALSE)
                                       ELSE NewJob(onRejected, it.result, TRUE))]

(* then(onFulfilled, onRejected), catch(onRejected), finally(onFinally) *)
Then(p, onFulfilled, onRejected) ==
  /\ Calling /\ CanCreate
  /\ LET child == Len(promises) + 1
     IN Becomes(React([World EXCEPT !.promises = Append(@, NewPromise)], p,
                      NewReaction(onFulfilled, None, child), NewReaction(onRejected, None, child)))
  /\ parent' = Append(parent, p)
  /\ UNCHANGED reacted

(* queueMicrotask throws without a queue. *)
QueueMicrotask ==
  /\ Calling /\ hasQueue
  /\ queue' = Append(queue, NewJob(NewReaction("user", None, None), None, FALSE))
  /\ UNCHANGED <<promises, stack, held, history>>

(* A call of an async function runs its body on the caller's stack. *)
CallAsync ==
  /\ Calling /\ CanCreate /\ Room
  /\ promises' = Append(promises, NewPromise)
  /\ parent' = Append(parent, None)
  /\ stack' = Append(stack, NewFrame("async", Len(promises'), None, FALSE))
  /\ UNCHANGED <<queue, held, reacted, adopted>>

(* await of a promise loops on a frame of its own; of any other value, it  *)
(* runs the microtasks once.                                               *)
Await(value) ==
  /\ Calling /\ Room
  /\ stack' = Append(stack, IF value \in Promise THEN NewFrame("await", value, None, TRUE)
                                                 ELSE NewFrame("drain", None, None, FALSE))
  /\ UNCHANGED <<promises, queue, held, history>>

(* The running code returns a value, or throws. *)
Finish(threw, value) ==
  /\ stack # <<>> /\ Top.kind \in CodeKinds
  /\ LET w == [World EXCEPT !.stack = Popped]
         d == Top.promise
     IN CASE Top.kind = "script" ->
               Becomes([w EXCEPT !.stack = <<NewFrame("drain", None, None, FALSE)>>])
          [] Top.kind = "task" \/ (Top.kind \in {"handler", "finally"} /\ d = None) -> Becomes(w)
          [] Top.kind = "handler" /\ d # None ->
               Becomes(IF threw THEN Settle(w, d, "rejected", Thrown) ELSE Resolve(w, d, value))
          [] Top.kind = "finally" /\ d # None ->
               Becomes(IF Top.flag THEN Settle(w, d, "rejected", Thrown)
                                   ELSE Resolve(w, d, Top.argument))
          [] Top.kind = "thenable" ->
               Becomes(IF threw THEN Settle(w, d, "rejected", Thrown) ELSE w)
          [] Top.kind = "async" ->
               Becomes(IF threw THEN RejectFunction(w, d, Thrown) ELSE ResolveFunction(w, d, value))
  /\ hasQueue' = (hasQueue \/ Top.kind = "script")
  /\ UNCHANGED <<calls, scripts, parent, reacted>>

Return == \E value \in Available : Finish(FALSE, value)
Throw == Finish(TRUE, Thrown)

-----------------------------------------------------------------------------
(* run_microtasks: one task of the queue. *)

Draining == stack # <<>> /\ Top.kind = "drain"
Ran == [stack EXCEPT ![Len(stack)].flag = TRUE]

(* Mutant: the queue is a stack. *)
MutNextJob == Len(queue)
NextJob == 1

Settling(w, job) ==
  LET r == job.reaction
  IN CASE r.handler = "resolve" -> Resolve(w, r.of, job.argument)
       [] r.handler = "reject" -> Settle(w, r.of, "rejected", job.argument)
       [] r.handler = "none" /\ r.downstream = None -> w
       [] r.handler = "none" /\ r.downstream # None ->
            IF job.rejection THEN Settle(w, r.downstream, "rejected", job.argument)
                             ELSE Resolve(w, r.downstream, job.argument)
       [] r.handler \in {"user", "finally"} ->
            [w EXCEPT !.stack = Append(@, NewFrame(
               IF r.handler = "finally" THEN "finally"
               ELSE IF r.downstream = None THEN "task" ELSE "handler",
               r.downstream, job.argument, job.rejection))]

(* Mutant: the task stays in the queue. *)
MutRest == queue
Rest == SubSeq(queue, 1, NextJob - 1) \o SubSeq(queue, NextJob + 1, Len(queue))

RunTask ==
  /\ Draining /\ queue # <<>>
  /\ LET job == queue[NextJob]
     IN /\ job.reaction.handler \in {"user", "finally"} => Room
        /\ Becomes(Settling([World EXCEPT !.queue = Rest, !.stack = Ran], job))
        /\ reacted' = IF job.reaction.downstream = None THEN reacted
                      ELSE reacted \cup {job.reaction.downstream}
  /\ UNCHANGED <<hasQueue, calls, scripts, parent>>

(* Without a queue, or when it is empty, run_microtasks returns how many   *)
(* tasks it ran to the await below it, if any.                             *)
DrainDone ==
  /\ Draining /\ (queue = <<>> \/ ~hasQueue)
  /\ stack' = IF Popped # <<>> /\ Popped[Len(Popped)].kind = "await"
              THEN [Popped EXCEPT ![Len(Popped)].flag = Top.flag]
              ELSE Popped
  /\ UNCHANGED <<promises, queue, hasQueue, held, calls, scripts, history>>

(* await: run the queue again while the promise is pending and tasks ran;  *)
(* else go on, with the result, or with the pending promise itself.        *)
AwaitStep ==
  /\ stack # <<>> /\ Top.kind = "await"
  /\ stack' = IF Pending(World, Top.promise) /\ Top.flag
              THEN Append(stack, NewFrame("drain", None, None, FALSE))
              ELSE Popped
  /\ UNCHANGED <<promises, queue, hasQueue, held, calls, scripts, history>>

(* Context::eval, and Context::eval_module, which sets no current queue.   *)
(* Source that does not parse changes nothing more.                        *)
BeginScript(kind) ==
  /\ stack = <<>> /\ scripts < MaxScripts
  /\ scripts' = scripts + 1
  /\ stack' \in {stack, <<NewFrame("script", None, None, FALSE)>>}
  /\ hasQueue' = (hasQueue \/ kind = "eval")
  /\ UNCHANGED <<promises, queue, held, calls, history>>

Call ==
  \/ Create \/ QueueMicrotask \/ CallAsync
  \/ \E h \in held : CallReject(h) \/ \E value \in Available : CallResolve(h, value)
  \/ \E p \in Created : \/ Then(p, "user", "none") \/ Then(p, "none", "user")
                        \/ Then(p, "user", "user") \/ Then(p, "finally", "finally")
  \/ \E value \in Created \cup {Plain} : Await(value)

Run == Return \/ Throw \/ RunTask \/ DrainDone \/ AwaitStep

Next == (\E kind \in ScriptKinds : BeginScript(kind)) \/ Call \/ Run

(* The code that runs returns or throws, and the loops go on: nothing else *)
(* runs on the thread.                                                     *)
Spec == Init /\ [][Next]_vars
FairSpec == Spec /\ WF_vars(Run)

-----------------------------------------------------------------------------
(* Properties *)

(* Every promise, task and frame is well formed; a promise has a result    *)
(* exactly when it is settled.                                             *)
TypeOK ==
  /\ promises \in Seq(PromiseRecord) /\ Len(promises) <= MaxPromises
  /\ \A p \in Created : promises[p].state = "pending" <=> promises[p].result = None
  /\ queue \in Seq(Job) /\ stack \in Seq(Frame)
  /\ hasQueue \in BOOLEAN
  /\ held \subseteq Created \X {"capability", "thenable"}
  /\ calls \in 0..MaxCalls /\ scripts \in 0..MaxScripts
  /\ parent \in Seq(Promise \cup {None}) /\ Len(parent) = Len(promises)
  /\ reacted \subseteq Created /\ adopted \subseteq Created \X Created

Settled(p) == promises[p].state # "pending"

(* A settled promise never changes its state or its result again, however  *)
(* resolve, reject, adoption and thenables are combined.                   *)
SettledOnce ==
  [][\A p \in Created : Settled(p) => /\ promises'[p].state = promises[p].state
                                      /\ promises'[p].result = promises[p].result]_vars

Count(s, Test(_)) == Cardinality({i \in DOMAIN s : Test(s[i])})

(* Every promise then() returned is owed exactly one reaction: it is       *)
(* registered for both outcomes of its pending parent, or queued once, or  *)
(* was run.                                                                *)
ReactionOwed ==
  \A c \in Created : parent[c] # None =>
    LET p == parent[c]
        For(r) == r.downstream = c
        JobFor(job) == job.reaction.downstream = c
        jobs == Count(queue, JobFor) + (IF c \in reacted THEN 1 ELSE 0)
        fulfill == Count(promises[p].fulfillReactions, For)
        reject == Count(promises[p].rejectReactions, For)
    IN IF Settled(p) THEN jobs = 1 /\ fulfill = 0 /\ reject = 0
                     ELSE jobs = 0 /\ fulfill = 1 /\ reject = 1

(* The reactions to one promise run in the order then() was called on it,  *)
(* whether it was settled by then or not.                                  *)
ThenOrder ==
  [][\A c \in reacted' \ reacted, b \in Created :
       b < c /\ parent[b] = parent[c] => b \in reacted]_vars

(* When nothing runs and nothing is queued, a promise resolved with        *)
(* another one is settled if that one is.                                  *)
AdoptionFollows ==
  stack = <<>> /\ queue = <<>> => \A pq \in adopted : Settled(pq[2]) => Settled(pq[1])

(* Every script ends with all its microtasks, and those they queue: run.   *)
CheckpointEnds == stack # <<>> ~> (stack = <<>> /\ queue = <<>>)
=============================================================================
