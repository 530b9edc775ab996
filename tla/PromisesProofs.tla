--------------------------- MODULE PromisesProofs ---------------------------
(***************************************************************************)
(* However resolve, reject, adoption, thenables, await and async functions *)
(* are combined, a promise is settled once, every promise then() returned  *)
(* is owed one reaction, reactions run in the order they were asked for,   *)
(* and whoever adopted a settled promise is told; provided every script    *)
(* sets the current queue, as Context::eval does and Context::eval_module  *)
(* does not.                                                               *)
(***************************************************************************)
EXTENDS Promises, FiniteSetTheorems, TLAPS

(* What promises, reactions, tasks and frames may name when n promises     *)
(* have been created.                                                      *)
Known(n) == 1..n \cup {Plain, Thenable, CycleError, Thrown}
Maybe(S) == S \cup {None}

(* A reaction that resolves or rejects a promise names it. *)
ReactionsIn(n) ==
  {r \in [handler : HandlerKinds, of : Maybe(1..n), downstream : Maybe(1..n)] :
     r.handler \in {"resolve", "reject"} => r.of # None}
(* Only the tasks of queueMicrotask have no argument. *)
JobsIn(n) ==
  {j \in [reaction : ReactionsIn(n), argument : Maybe(Known(n)), rejection : BOOLEAN] :
     j.argument = None => j.reaction.handler = "user" /\ j.reaction.downstream = None}
FramesIn(n) ==
  {f \in [kind : FrameKinds, promise : Maybe(1..n), argument : Maybe(Known(n)), flag : BOOLEAN] :
     /\ f.kind \in {"thenable", "async"} => f.promise # None
     /\ f.kind = "finally" /\ f.promise # None => f.argument # None}
RecordsIn(n) ==
  {r \in [state : States, result : Maybe(Known(n)),
          fulfillReactions : Seq(ReactionsIn(n)), rejectReactions : Seq(ReactionsIn(n))] :
     r.state = "pending" <=> r.result = None}
Worlds(n) ==
  [promises : Seq(RecordsIn(n)), queue : Seq(JobsIn(n)), stack : Seq(FramesIn(n)),
   held : SUBSET ((1..n) \X {"capability", "thenable"}), adopted : SUBSET ((1..n) \X (1..n))]
IsWorld(w, n) == w \in Worlds(n) /\ Len(w.promises) = n

(* No settled promise of w has another state or result in v. *)
Keeps(w, v) ==
  \A p \in 1..Len(w.promises) : w.promises[p].state # "pending" =>
    v.promises[p].state = w.promises[p].state /\ v.promises[p].result = w.promises[p].result

Inv ==
  /\ IsWorld(World, Len(promises)) /\ Len(promises) <= MaxPromises
  /\ hasQueue \in BOOLEAN /\ calls \in 0..MaxCalls /\ scripts \in 0..MaxScripts
  /\ parent \in Seq(Maybe(Promise)) /\ Len(parent) = Len(promises) /\ reacted \subseteq Created

(* Code runs with a current queue. *)
Queued == stack # <<>> => hasQueue

-----------------------------------------------------------------------------
(* Sequences *)

LEMMA SeqExcept ==
  ASSUME NEW S, NEW s \in Seq(S), NEW i \in 1..Len(s), NEW e \in S
  PROVE  /\ [s EXCEPT ![i] = e] \in Seq(S) /\ Len([s EXCEPT ![i] = e]) = Len(s)
         /\ \A j \in 1..Len(s) : [s EXCEPT ![i] = e][j] = IF j = i THEN e ELSE s[j]
  OBVIOUS

LEMMA SeqSingle ==
  ASSUME NEW S, NEW e \in S
  PROVE  <<e>> \in Seq(S)
  OBVIOUS

LEMMA SeqMonotone ==
  ASSUME NEW S, NEW T, S \subseteq T, NEW s \in Seq(S)
  PROVE  s \in Seq(T)
  OBVIOUS

LEMMA SeqFront ==
  ASSUME NEW S, NEW s \in Seq(S), s # <<>>
  PROVE  /\ SubSeq(s, 1, Len(s) - 1) \in Seq(S) /\ Len(SubSeq(s, 1, Len(s) - 1)) = Len(s) - 1
         /\ s[Len(s)] \in S /\ Len(s) \in Nat \ {0}
<1>1. Len(s) \in Nat \ {0}
  OBVIOUS
<1>2. SubSeq(s, 1, Len(s) - 1) = [i \in 1..Len(s) - 1 |-> s[i]]
  BY <1>1
<1>3. \A i \in 1..Len(s) - 1 : s[i] \in S
  BY <1>1
<1>4. SubSeq(s, 1, Len(s) - 1) \in Seq(S) /\ Len(SubSeq(s, 1, Len(s) - 1)) = Len(s) - 1
  <2> DEFINE front == SubSeq(s, 1, Len(s) - 1)
  <2>1. front = [i \in 1..Len(s) - 1 |-> s[i]]
    BY <1>2
  <2> HIDE DEF front
  <2>2. front \in Seq(S) /\ Len(front) = Len(s) - 1
    BY <1>1, <1>3, <2>1
  <2> QED BY <2>2 DEF front
<1>5. s[Len(s)] \in S
  BY <1>1
<1> QED BY <1>1, <1>4, <1>5

-----------------------------------------------------------------------------
(* More promises, more worlds. *)
LEMMA Monotone ==
  ASSUME NEW n \in Nat
  PROVE  /\ Known(n) \subseteq Known(n + 1) /\ ReactionsIn(n) \subseteq ReactionsIn(n + 1)
         /\ JobsIn(n) \subseteq JobsIn(n + 1) /\ FramesIn(n) \subseteq FramesIn(n + 1)
         /\ RecordsIn(n) \subseteq RecordsIn(n + 1) /\ Worlds(n) \subseteq Worlds(n + 1)
<1>1. 1..n \subseteq 1..n + 1 /\ Known(n) \subseteq Known(n + 1)
  BY DEF Known
<1>2. ReactionsIn(n) \subseteq ReactionsIn(n + 1)
  BY <1>1 DEF ReactionsIn, Maybe
<1>3. JobsIn(n) \subseteq JobsIn(n + 1)
  BY <1>1, <1>2 DEF JobsIn, Maybe
<1>4. FramesIn(n) \subseteq FramesIn(n + 1)
  BY <1>1 DEF FramesIn, Maybe
<1>5. Seq(ReactionsIn(n)) \subseteq Seq(ReactionsIn(n + 1))
  BY <1>2, SeqMonotone
<1>6. RecordsIn(n) \subseteq RecordsIn(n + 1)
  BY <1>1, <1>5 DEF RecordsIn, Maybe
<1>7. /\ Seq(RecordsIn(n)) \subseteq Seq(RecordsIn(n + 1)) /\ Seq(JobsIn(n)) \subseteq Seq(JobsIn(n + 1))
      /\ Seq(FramesIn(n)) \subseteq Seq(FramesIn(n + 1))
  BY <1>3, <1>4, <1>6, SeqMonotone
<1>8. Worlds(n) \subseteq Worlds(n + 1)
  <2> SUFFICES ASSUME NEW w \in Worlds(n) PROVE w \in Worlds(n + 1)
    OBVIOUS
  <2>1. /\ (1..n) \X {"capability", "thenable"} \subseteq (1..n + 1) \X {"capability", "thenable"}
        /\ (1..n) \X (1..n) \subseteq (1..n + 1) \X (1..n + 1)
    BY <1>1
  <2> QED BY <1>7, <2>1 DEF Worlds
<1> QED BY <1>1, <1>2, <1>3, <1>4, <1>6, <1>8

(* A promise is created at the end of the list. *)
LEMMA WithPromise ==
  ASSUME NEW n \in Nat, NEW w, IsWorld(w, n)
  PROVE  LET v == [w EXCEPT !.promises = Append(@, NewPromise)]
         IN IsWorld(v, n + 1) /\ Keeps(w, v)
<1> DEFINE v == [w EXCEPT !.promises = Append(@, NewPromise)]
<1>1. w \in Worlds(n + 1) /\ Len(w.promises) = n
  BY Monotone DEF IsWorld
<1>2. NewPromise \in RecordsIn(n + 1)
  BY DEF NewPromise, RecordsIn, States, Maybe
<1>3. w.promises \in Seq(RecordsIn(n + 1)) /\ v.promises = Append(w.promises, NewPromise)
  BY <1>1 DEF Worlds
<1>4. v.promises \in Seq(RecordsIn(n + 1)) /\ Len(v.promises) = n + 1 /\ \A p \in 1..n : v.promises[p] = w.promises[p]
  BY <1>1, <1>2, <1>3
<1>5. v \in Worlds(n + 1)
  BY <1>1, <1>4 DEF Worlds
<1> QED BY <1>1, <1>4, <1>5 DEF IsWorld, Keeps

(* What may be done to the world of n promises. *)
LEMMA WithRecord ==
  ASSUME NEW n \in Nat, NEW w, IsWorld(w, n), NEW p \in 1..n, NEW record \in RecordsIn(n),
         NEW v, v = [w EXCEPT !.promises[p] = record]
  PROVE  /\ IsWorld(v, n) /\ v.promises[p] = record
         /\ (w.promises[p].state # "pending" =>
               record.state = w.promises[p].state /\ record.result = w.promises[p].result) => Keeps(w, v)
<1>1. w.promises \in Seq(RecordsIn(n)) /\ Len(w.promises) = n /\ v.promises = [w.promises EXCEPT ![p] = record]
  BY DEF IsWorld, Worlds
<1>2. /\ v.promises \in Seq(RecordsIn(n)) /\ Len(v.promises) = n
      /\ \A q \in 1..n : v.promises[q] = IF q = p THEN record ELSE w.promises[q]
  BY <1>1, SeqExcept
<1>3. v \in Worlds(n)
  BY <1>2 DEF IsWorld, Worlds
<1> QED BY <1>1, <1>2, <1>3 DEF IsWorld, Keeps

LEMMA WithQueue ==
  ASSUME NEW n \in Nat, NEW w, IsWorld(w, n), NEW jobs \in Seq(JobsIn(n))
  PROVE  LET v == [w EXCEPT !.queue = @ \o jobs] IN IsWorld(v, n) /\ Keeps(w, v)
<1> DEFINE v == [w EXCEPT !.queue = @ \o jobs]
<1>1. w.queue \in Seq(JobsIn(n)) /\ v.promises = w.promises /\ Len(w.promises) = n /\ v.queue = w.queue \o jobs
  BY DEF IsWorld, Worlds
<1>2. w.queue \o jobs \in Seq(JobsIn(n))
  BY <1>1
<1>3. v \in Worlds(n)
  BY <1>1, <1>2 DEF IsWorld, Worlds
<1> QED BY <1>1, <1>3 DEF IsWorld, Keeps

LEMMA RecordIn ==
  ASSUME NEW n, NEW w, IsWorld(w, n), NEW p \in 1..n
  PROVE  /\ w.promises[p] \in RecordsIn(n)
         /\ w.promises[p].fulfillReactions \in Seq(ReactionsIn(n)) /\ w.promises[p].rejectReactions \in Seq(ReactionsIn(n))
         /\ w.promises[p].state \in States /\ w.promises[p].result \in Maybe(Known(n))
         /\ w.promises[p].state = "pending" <=> w.promises[p].result = None
<1>1. w.promises \in Seq(RecordsIn(n)) /\ Len(w.promises) = n
  BY DEF IsWorld, Worlds
<1>2. w.promises[p] \in RecordsIn(n)
  BY <1>1
<1> QED BY <1>2 DEF RecordsIn

-----------------------------------------------------------------------------
(* Settling keeps what is settled. *)
LEMMA SettleKeeps ==
  ASSUME NEW n \in 0..MaxPromises, NEW w, IsWorld(w, n), NEW p \in 1..n,
         NEW state \in {"fulfilled", "rejected"}, NEW value \in Known(n)
  PROVE  IsWorld(Settle(w, p, state, value), n) /\ Keeps(w, Settle(w, p, state, value))
<1>0. n \in Nat /\ value # None
  BY PromiseAssumption, ValueAssumption DEF Known, Value, Promise
<1>1. CASE ~Pending(w, p)
  <2>1. Settle(w, p, state, value) = w
    BY <1>1 DEF Settle
  <2> QED BY <2>1 DEF Keeps
<1>2. CASE Pending(w, p)
  <2> DEFINE reactions == IF state = "fulfilled" THEN w.promises[p].fulfillReactions ELSE w.promises[p].rejectReactions
             jobs == Jobs(reactions, value, state = "rejected")
             record == SettledRecord(state, value)
             v == [w EXCEPT !.promises[p] = record]
             u == [v EXCEPT !.queue = @ \o jobs]
  <2>1. record \in RecordsIn(n) /\ record.state # "pending"
    <3>1. NewPromise \in RecordsIn(n)
      BY DEF NewPromise, RecordsIn, States, Maybe
    <3> QED BY <1>0, <3>1 DEF SettledRecord, RecordsIn, States, Maybe
  <2>2. reactions \in Seq(ReactionsIn(n))
    BY RecordIn
  <2>3. \A i \in DOMAIN reactions : NewJob(reactions[i], value, state = "rejected") \in JobsIn(n)
    <3>1. \A i \in DOMAIN reactions : reactions[i] \in ReactionsIn(n)
      BY <2>2
    <3> QED BY <1>0, <3>1 DEF NewJob, JobsIn, Maybe
  <2>4. jobs \in Seq(JobsIn(n))
    BY <2>2, <2>3 DEF Jobs
  <2>5. IsWorld(v, n) /\ Keeps(w, v)
    BY <1>0, <1>2, <2>1, WithRecord DEF Pending
  <2>6. IsWorld(u, n) /\ Keeps(v, u) /\ u.promises = v.promises
    BY <1>0, <2>4, <2>5, WithQueue DEF IsWorld, Worlds
  <2>7. Settle(w, p, state, value) = u
    BY <1>2 DEF Settle, IsWorld, Worlds
  <2> QED BY <2>5, <2>6, <2>7 DEF Keeps
<1> QED BY <1>1, <1>2

LEMMA ReactionLemma ==
  ASSUME NEW n, NEW handler \in HandlerKinds, NEW of \in Maybe(1..n), NEW downstream \in Maybe(1..n),
         handler \in {"resolve", "reject"} => of # None
  PROVE  NewReaction(handler, of, downstream) \in ReactionsIn(n)
  BY DEF NewReaction, ReactionsIn

LEMMA FrameLemma ==
  ASSUME NEW n, NEW kind \in FrameKinds, NEW p \in Maybe(1..n), NEW argument \in Maybe(Known(n)), NEW flag \in BOOLEAN,
         kind \in {"thenable", "async"} => p # None, kind = "finally" /\ p # None => argument # None
  PROVE  NewFrame(kind, p, argument, flag) \in FramesIn(n)
  BY DEF NewFrame, FramesIn

LEMMA AddKeeps ==
  ASSUME NEW n \in 0..MaxPromises, NEW w, IsWorld(w, n), NEW p \in 1..n,
         NEW a \in ReactionsIn(n), NEW b \in ReactionsIn(n)
  PROVE  IsWorld(AddReactions(w, p, a, b), n) /\ Keeps(w, AddReactions(w, p, a, b))
<1>0. n \in Nat
  BY PromiseAssumption
<1> DEFINE old == w.promises[p]
           record == [old EXCEPT !.fulfillReactions = Append(@, a), !.rejectReactions = Append(@, b)]
<1>1. /\ old \in RecordsIn(n) /\ old.fulfillReactions \in Seq(ReactionsIn(n)) /\ old.rejectReactions \in Seq(ReactionsIn(n))
      /\ w.promises \in Seq(RecordsIn(n))
  BY RecordIn DEF IsWorld, Worlds
<1>2. Append(old.fulfillReactions, a) \in Seq(ReactionsIn(n)) /\ Append(old.rejectReactions, b) \in Seq(ReactionsIn(n))
  BY <1>1
<1>3. record \in RecordsIn(n) /\ record.state = old.state /\ record.result = old.result
  BY <1>1, <1>2 DEF RecordsIn
<1>4. AddReactions(w, p, a, b) = [w EXCEPT !.promises[p] = record]
  BY <1>1 DEF AddReactions, IsWorld, Worlds, RecordsIn
<1>5. \E r \in RecordsIn(n) : /\ r.state = w.promises[p].state /\ r.result = w.promises[p].result
                             /\ AddReactions(w, p, a, b) = [w EXCEPT !.promises[p] = r]
  BY <1>3, <1>4
<1> QED BY <1>0, <1>5, WithRecord

LEMMA AdoptKeeps ==
  ASSUME NEW n \in 0..MaxPromises, NEW w, IsWorld(w, n), NEW p \in 1..n, NEW q \in 1..n
  PROVE  IsWorld(Adopt(w, p, q), n) /\ Keeps(w, Adopt(w, p, q))
<1> DEFINE a == NewReaction("resolve", p, None)
           b == NewReaction("reject", p, None)
           v == AddReactions(w, q, a, b)
<1>1. a \in ReactionsIn(n) /\ b \in ReactionsIn(n)
  <2>1. n \in Nat /\ p # None /\ p \in Maybe(1..n) /\ None \in Maybe(1..n)
    BY PromiseAssumption, ValueAssumption DEF Maybe, Value, Promise
  <2> QED BY <2>1, ReactionLemma DEF HandlerKinds
<1>2. IsWorld(v, n) /\ Keeps(w, v)
  BY <1>1, AddKeeps
<1>3. Adopt(w, p, q) = [v EXCEPT !.adopted = @ \cup {<<p, q>>}]
  BY DEF Adopt
<1> HIDE DEF v
<1>4. v.adopted \cup {<<p, q>>} \in SUBSET ((1..n) \X (1..n))
  BY <1>2 DEF IsWorld, Worlds
<1>5. IsWorld(Adopt(w, p, q), n) /\ Adopt(w, p, q).promises = v.promises
  BY <1>2, <1>3, <1>4 DEF IsWorld, Worlds
<1> QED BY <1>2, <1>5 DEF Keeps

LEMMA ResolveKeeps ==
  ASSUME NEW n \in 0..MaxPromises, NEW w, IsWorld(w, n), NEW p \in 1..n, NEW value \in Known(n)
  PROVE  IsWorld(Resolve(w, p, value), n) /\ Keeps(w, Resolve(w, p, value))
<1>0. n \in Nat /\ 1..n \subseteq Promise /\ CycleError \in Known(n) /\ (value \in Promise => value \in 1..n) /\ None \in Maybe(Known(n))
  BY PromiseAssumption, ValueAssumption DEF Known, Promise, Maybe
<1>1. CASE value = p
  BY <1>0, <1>1, SettleKeeps DEF Resolve
<1>2. CASE value # p /\ value \in Promise /\ Pending(w, value)
  BY <1>0, <1>2, AdoptKeeps DEF Resolve
<1>3. CASE value # p /\ value \in Promise /\ ~Pending(w, value)
  <2>1. w.promises[value].state \in {"fulfilled", "rejected"} /\ w.promises[value].result \in Known(n)
    BY <1>0, <1>3, RecordIn DEF Pending, States, Maybe
  <2> QED BY <1>0, <1>3, <2>1, SettleKeeps DEF Resolve
<1>4. CASE value # p /\ value \notin Promise /\ IsThenable(value)
  <2> DEFINE f == NewFrame("thenable", p, None, FALSE)
             v == [w EXCEPT !.stack = Append(@, f), !.held = @ \cup {<<p, "thenable">>}]
  <2>1. p \in Maybe(1..n) /\ p # None
    BY <1>0, ValueAssumption DEF Maybe, Value
  <2>2. f \in FramesIn(n)
    BY <1>0, <2>1, FrameLemma DEF FrameKinds
  <2>5. Resolve(w, p, value) = v
    BY <1>4 DEF Resolve
  <2> HIDE DEF f
  <2>3. w.stack \in Seq(FramesIn(n))
    BY DEF IsWorld, Worlds
  <2>6. Append(w.stack, f) \in Seq(FramesIn(n))
    BY <2>2, <2>3
  <2>7. w.held \cup {<<p, "thenable">>} \in SUBSET ((1..n) \X {"capability", "thenable"})
    BY DEF IsWorld, Worlds
  <2>4. v.promises = w.promises /\ v \in Worlds(n)
    BY <2>6, <2>7 DEF IsWorld, Worlds
  <2> QED BY <2>4, <2>5 DEF IsWorld, Keeps
<1>5. CASE value # p /\ value \notin Promise /\ ~IsThenable(value)
  BY <1>5, SettleKeeps DEF Resolve
<1> QED BY <1>1, <1>2, <1>3, <1>4, <1>5

(* Without a queue the capabilities of new Promise overwrite. *)
LEMMA OverwriteKeeps ==
  ASSUME NEW n \in 0..MaxPromises, NEW w, IsWorld(w, n), NEW p \in 1..n,
         NEW state \in {"fulfilled", "rejected"}, NEW value \in Known(n)
  PROVE  IsWorld([w EXCEPT !.promises[p].state = state, !.promises[p].result = value], n)
<1> DEFINE record == [w.promises[p] EXCEPT !.state = state, !.result = value]
<1>1. n \in Nat /\ value # None
  BY PromiseAssumption, ValueAssumption DEF Known, Value, Promise
<1>2. w.promises[p] \in RecordsIn(n) /\ w.promises \in Seq(RecordsIn(n))
  BY RecordIn DEF IsWorld, Worlds
<1>3. record \in RecordsIn(n)
  BY <1>1, <1>2 DEF RecordsIn, States, Maybe
<1>4. [w EXCEPT !.promises[p].state = state, !.promises[p].result = value] = [w EXCEPT !.promises[p] = record]
  BY <1>2 DEF IsWorld, Worlds, RecordsIn
<1> QED BY <1>1, <1>3, <1>4, WithRecord

LEMMA FunctionsKeep ==
  ASSUME NEW n \in 0..MaxPromises, NEW w, IsWorld(w, n), NEW p \in 1..n, NEW value \in Known(n)
  PROVE  /\ IsWorld(ResolveFunction(w, p, value), n) /\ (hasQueue => Keeps(w, ResolveFunction(w, p, value)))
         /\ IsWorld(RejectFunction(w, p, value), n) /\ (hasQueue => Keeps(w, RejectFunction(w, p, value)))
  BY ResolveKeeps, SettleKeeps, OverwriteKeeps DEF ResolveFunction, RejectFunction

-----------------------------------------------------------------------------
(* Steps *)

Kept == \A p \in Created : Settled(p) => /\ promises'[p].state = promises[p].state
                                        /\ promises'[p].result = promises[p].result

(* What the invariant says of each variable. *)
LEMMA Facts ==
  ASSUME Inv
  PROVE  /\ Len(promises) \in 0..MaxPromises /\ Len(promises) \in Nat /\ Created = 1..Len(promises)
         /\ IsWorld(World, Len(promises))
         /\ promises \in Seq(RecordsIn(Len(promises))) /\ queue \in Seq(JobsIn(Len(promises)))
         /\ stack \in Seq(FramesIn(Len(promises)))
         /\ held \subseteq (1..Len(promises)) \X {"capability", "thenable"}
         /\ adopted \subseteq (1..Len(promises)) \X (1..Len(promises))
<1> DEFINE n == Len(promises)
<1>1. /\ promises \in Seq(RecordsIn(n)) /\ queue \in Seq(JobsIn(n)) /\ stack \in Seq(FramesIn(n))
      /\ held \subseteq (1..n) \X {"capability", "thenable"} /\ adopted \subseteq (1..n) \X (1..n)
  BY DEF Inv, IsWorld, Worlds, World
<1>2. n \in Nat /\ Created = 1..n /\ n <= MaxPromises
  BY <1>1 DEF Inv, Created
<1> QED BY <1>1, <1>2, PromiseAssumption DEF Inv

(* A step to a world of m promises. *)
LEMMA StepTo ==
  ASSUME NEW m \in 0..MaxPromises, promises' \in Seq(RecordsIn(m)), Len(promises') = m,
         queue' \in Seq(JobsIn(m)), stack' \in Seq(FramesIn(m)),
         held' \in SUBSET ((1..m) \X {"capability", "thenable"}), adopted' \in SUBSET ((1..m) \X (1..m)),
         hasQueue' \in BOOLEAN, calls' \in 0..MaxCalls, scripts' \in 0..MaxScripts,
         parent' \in Seq(Maybe(Promise)), Len(parent') = m, reacted' \subseteq 1..m
  PROVE  Inv'
<1>1. m <= MaxPromises /\ DOMAIN promises' = 1..m
  BY PromiseAssumption
<1>2. IsWorld(World, Len(promises))'
  BY DEF IsWorld, Worlds, World
<1> QED BY <1>1, <1>2 DEF Inv, Created

LEMMA StepBecomes ==
  ASSUME Inv, NEW m \in 0..MaxPromises, NEW w, IsWorld(w, m), Becomes(w),
         hasQueue' \in BOOLEAN, calls' \in 0..MaxCalls, scripts' \in 0..MaxScripts,
         parent' \in Seq(Maybe(Promise)), Len(parent') = m, reacted' \subseteq 1..m
  PROVE  Inv' /\ (Keeps(World, w) => Kept)
<1>1. /\ promises' \in Seq(RecordsIn(m)) /\ Len(promises') = m /\ queue' \in Seq(JobsIn(m)) /\ stack' \in Seq(FramesIn(m))
      /\ held' \in SUBSET ((1..m) \X {"capability", "thenable"}) /\ adopted' \in SUBSET ((1..m) \X (1..m))
  BY DEF Becomes, IsWorld, Worlds
<1>2. Inv'
  BY <1>1, StepTo
<1>3. Keeps(World, w) => Kept
  BY Facts DEF Keeps, Kept, Settled, World, Becomes
<1> QED BY <1>2, <1>3

LEMMA ReactKeeps ==
  ASSUME NEW n \in 0..MaxPromises, NEW w, IsWorld(w, n), NEW p \in 1..n,
         NEW a \in ReactionsIn(n), NEW b \in ReactionsIn(n)
  PROVE  IsWorld(React(w, p, a, b), n) /\ Keeps(w, React(w, p, a, b))
<1> DEFINE it == w.promises[p]
           job == IF it.state = "fulfilled" THEN NewJob(a, it.result, FALSE) ELSE NewJob(b, it.result, TRUE)
<1>1. CASE ~hasQueue \/ it.state = "pending"
  BY <1>1, AddKeeps DEF React
<1>2. CASE hasQueue /\ it.state # "pending"
  <2>1. it.result \in Known(n) /\ it.result # None
    BY <1>2, RecordIn DEF Maybe
  <2>2. job \in JobsIn(n)
    BY <2>1 DEF NewJob, JobsIn, Maybe
  <2> HIDE DEF job
  <2>3. w.queue \in Seq(JobsIn(n))
    BY DEF IsWorld, Worlds
  <2>4. Append(w.queue, job) \in Seq(JobsIn(n))
    BY <2>2, <2>3
  <2>5. React(w, p, a, b) = [w EXCEPT !.queue = Append(@, job)]
    BY <1>2 DEF React, job
  <2>6. React(w, p, a, b).promises = w.promises /\ React(w, p, a, b) \in Worlds(n)
    BY <2>4, <2>5 DEF IsWorld, Worlds
  <2> QED BY <2>6 DEF IsWorld, Keeps
<1> QED BY <1>1, <1>2

(* Calls that create no promise. *)
LEMMA ValuesKnown == Inv => Available \subseteq Known(Len(promises)) /\ Thrown \in Known(Len(promises)) /\ Plain \in Known(Len(promises))
  BY Facts DEF Available, Known

LEMMA SettlingCalls ==
  ASSUME Inv, NEW h \in held, CallReject(h) \/ \E value \in Available : CallResolve(h, value)
  PROVE  Inv' /\ (hasQueue => Kept)
<1> DEFINE n == Len(promises)
<1>1. n \in 0..MaxPromises /\ IsWorld(World, n) /\ h[1] \in 1..n
  BY Facts
<1>2. /\ hasQueue' \in BOOLEAN /\ calls' \in 0..MaxCalls /\ scripts' \in 0..MaxScripts
      /\ parent' \in Seq(Maybe(Promise)) /\ Len(parent') = n /\ reacted' \subseteq 1..n
  BY Facts, PromiseAssumption DEF CallReject, CallResolve, Calling, Inv
<1>3. CASE CallReject(h)
  <2>1. PICK w : /\ Becomes(w)
                 /\ w = IF h[2] = "capability" THEN RejectFunction(World, h[1], Plain)
                                               ELSE Settle(World, h[1], "rejected", Plain)
    BY <1>3 DEF CallReject
  <2>2. IsWorld(w, n) /\ (hasQueue => Keeps(World, w))
    BY <1>1, <2>1, ValuesKnown, FunctionsKeep, SettleKeeps
  <2> QED BY <1>1, <1>2, <2>1, <2>2, StepBecomes
<1>4. CASE \E value \in Available : CallResolve(h, value)
  <2>1. PICK value \in Available : CallResolve(h, value)
    BY <1>4
  <2>2. PICK w : /\ Becomes(w)
                 /\ w = IF h[2] = "capability" THEN ResolveFunction(World, h[1], value)
                                               ELSE Resolve(World, h[1], value)
    BY <2>1 DEF CallResolve
  <2>3. IsWorld(w, n) /\ (hasQueue => Keeps(World, w))
    BY <1>1, <2>1, <2>2, ValuesKnown, FunctionsKeep, ResolveKeeps
  <2> QED BY <1>1, <1>2, <2>2, <2>3, StepBecomes
<1> QED BY <1>3, <1>4

LEMMA QueueMicrotaskInv ==
  ASSUME Inv, QueueMicrotask PROVE Inv' /\ Kept
<1> DEFINE n == Len(promises)
           job == NewJob(NewReaction("user", None, None), None, FALSE)
<1>1. job \in JobsIn(n)
  <2>1. NewReaction("user", None, None) \in ReactionsIn(n)
    BY ReactionLemma DEF HandlerKinds, Maybe
  <2> QED BY <2>1 DEF NewJob, NewReaction, JobsIn, Maybe
<1>2. /\ queue' = Append(queue, job) /\ UNCHANGED <<promises, stack, held, adopted, parent, reacted, hasQueue, scripts>>
      /\ calls' \in 0..MaxCalls
  BY PromiseAssumption DEF QueueMicrotask, Calling, Inv, history
<1> HIDE DEF job
<1>3. queue' \in Seq(JobsIn(n))
  BY <1>1, <1>2, Facts
<1>4. Inv'
  BY <1>2, <1>3, Facts, StepTo DEF Inv
<1> QED BY <1>2, <1>4 DEF Kept

LEMMA AwaitInv ==
  ASSUME Inv, NEW value \in Created \cup {Plain}, Await(value) PROVE Inv' /\ Kept
<1> DEFINE n == Len(promises)
           f == IF value \in Promise THEN NewFrame("await", value, None, TRUE) ELSE NewFrame("drain", None, None, FALSE)
<1>1. f \in FramesIn(n)
  <2>1. value \in Promise => value \in Maybe(1..n)
    BY Facts, ValueAssumption DEF Maybe
  <2> QED BY <2>1, FrameLemma DEF FrameKinds, Maybe
<1>2. /\ stack' = Append(stack, f) /\ UNCHANGED <<promises, queue, held, adopted, parent, reacted, hasQueue, scripts>>
      /\ calls' \in 0..MaxCalls
  BY PromiseAssumption DEF Await, Calling, Inv, history
<1> HIDE DEF f
<1>3. stack' \in Seq(FramesIn(n))
  BY <1>1, <1>2, Facts
<1>4. Inv'
  BY <1>2, <1>3, Facts, StepTo DEF Inv
<1> QED BY <1>2, <1>4 DEF Kept

(* Calls that create a promise. *)
LEMMA NewPromiseFacts ==
  ASSUME Inv, CanCreate, Calling, NEW p \in Maybe(Promise), parent' = Append(parent, p)
  PROVE  LET m == Len(promises) + 1
         IN /\ m \in 0..MaxPromises /\ m \in 1..m /\ m \in Maybe(1..m) /\ 1..Len(promises) \subseteq 1..m
            /\ Append(promises, NewPromise) \in Seq(RecordsIn(m)) /\ Len(Append(promises, NewPromise)) = m
            /\ queue \in Seq(JobsIn(m)) /\ stack \in Seq(FramesIn(m))
            /\ held \subseteq (1..m) \X {"capability", "thenable"} /\ adopted \subseteq (1..m) \X (1..m)
            /\ hasQueue' \in BOOLEAN /\ calls' \in 0..MaxCalls /\ scripts' \in 0..MaxScripts
            /\ parent' \in Seq(Maybe(Promise)) /\ Len(parent') = m /\ reacted \subseteq 1..m
            /\ IsWorld([World EXCEPT !.promises = Append(@, NewPromise)], m)
            /\ Keeps(World, [World EXCEPT !.promises = Append(@, NewPromise)])
<1> DEFINE n == Len(promises)
           m == n + 1
           v == [World EXCEPT !.promises = Append(@, NewPromise)]
<1>1. m \in 0..MaxPromises /\ m \in 1..m /\ m \in Maybe(1..m) /\ 1..n \subseteq 1..m
  BY Facts, PromiseAssumption DEF CanCreate, Maybe
<1>2. IsWorld(v, m) /\ Keeps(World, v)
  BY Facts, WithPromise
<1>3. /\ v.promises = Append(promises, NewPromise) /\ v.queue = queue /\ v.stack = stack
      /\ v.held = held /\ v.adopted = adopted
  BY DEF World
<1>4. /\ Append(promises, NewPromise) \in Seq(RecordsIn(m)) /\ Len(Append(promises, NewPromise)) = m
      /\ queue \in Seq(JobsIn(m)) /\ stack \in Seq(FramesIn(m))
      /\ held \subseteq (1..m) \X {"capability", "thenable"} /\ adopted \subseteq (1..m) \X (1..m)
  BY <1>2, <1>3 DEF IsWorld, Worlds
<1>5. /\ hasQueue' \in BOOLEAN /\ calls' \in 0..MaxCalls /\ scripts' \in 0..MaxScripts
      /\ parent' \in Seq(Maybe(Promise)) /\ Len(parent') = m /\ reacted \subseteq 1..m
  BY <1>1, Facts, PromiseAssumption DEF Calling, Inv
<1> QED BY <1>1, <1>2, <1>4, <1>5

LEMMA AppendKept == Inv /\ promises' = Append(promises, NewPromise) => Kept
  BY Facts DEF Kept

LEMMA CreateInv == Inv /\ Create => Inv' /\ Kept
<1> SUFFICES ASSUME Inv, Create PROVE Inv' /\ Kept
  OBVIOUS
<1> DEFINE m == Len(promises) + 1
<1>1. /\ CanCreate /\ Calling /\ promises' = Append(promises, NewPromise) /\ parent' = Append(parent, None)
      /\ held' = held \cup {<<Len(promises'), "capability">>} /\ UNCHANGED <<queue, stack, reacted, adopted>>
      /\ None \in Maybe(Promise)
  BY DEF Create, Maybe
<1>2. held' \in SUBSET ((1..m) \X {"capability", "thenable"})
  BY <1>1, NewPromiseFacts
<1>3. Inv'
  BY <1>1, <1>2, NewPromiseFacts, StepTo
<1> QED BY <1>1, <1>3, AppendKept

LEMMA CallAsyncInv == Inv /\ CallAsync => Inv' /\ Kept
<1> SUFFICES ASSUME Inv, CallAsync PROVE Inv' /\ Kept
  OBVIOUS
<1> DEFINE m == Len(promises) + 1
           f == NewFrame("async", m, None, FALSE)
<1>1. /\ CanCreate /\ Calling /\ promises' = Append(promises, NewPromise) /\ parent' = Append(parent, None)
      /\ UNCHANGED <<queue, held, reacted, adopted>> /\ None \in Maybe(Promise)
      /\ stack' = Append(stack, NewFrame("async", Len(promises'), None, FALSE))
  BY DEF CallAsync, Maybe
<1>2. stack' = Append(stack, f) /\ stack \in Seq(FramesIn(m))
  BY <1>1, NewPromiseFacts
<1>3. f \in FramesIn(m)
  <2>1. m \in Maybe(1..m) /\ m # None /\ None \in Maybe(Known(m))
    BY <1>1, NewPromiseFacts, ValueAssumption, PromiseAssumption DEF Maybe, Value, Promise
  <2> QED BY <2>1, FrameLemma DEF FrameKinds
<1> HIDE DEF f
<1>4. stack' \in Seq(FramesIn(m))
  BY <1>2, <1>3
<1>5. Inv'
  BY <1>1, <1>4, NewPromiseFacts, StepTo
<1> QED BY <1>1, <1>5, AppendKept

LEMMA ThenInv ==
  ASSUME Inv, NEW p \in Created, NEW a \in {"user", "none", "finally"}, NEW b \in {"user", "none", "finally"}, Then(p, a, b)
  PROVE  Inv' /\ Kept
<1> DEFINE m == Len(promises) + 1
           v == [World EXCEPT !.promises = Append(@, NewPromise)]
           x == NewReaction(a, None, m)
           y == NewReaction(b, None, m)
           w == React(v, p, x, y)
<1>1. CanCreate /\ Calling /\ parent' = Append(parent, p) /\ reacted' = reacted /\ p \in Maybe(Promise) /\ Becomes(w)
  <2>1. p \in Maybe(Promise)
    BY Facts, PromiseAssumption DEF Maybe, Promise
  <2> QED BY <2>1 DEF Then
<1>2. x \in ReactionsIn(m) /\ y \in ReactionsIn(m) /\ p \in 1..m
  <2>1. m \in Maybe(1..m) /\ None \in Maybe(1..m) /\ p \in 1..m
    BY <1>1, Facts, NewPromiseFacts DEF Maybe
  <2> QED BY <2>1, ReactionLemma DEF HandlerKinds
<1>3. m \in 0..MaxPromises /\ IsWorld(v, m) /\ Keeps(World, v)
  BY <1>1, NewPromiseFacts
<1> HIDE DEF x, y
<1>4. IsWorld(w, m) /\ Keeps(v, w)
  BY <1>2, <1>3, ReactKeeps
<1>5. Len(v.promises) = m /\ Len(World.promises) = Len(promises) /\ Len(promises) \in Nat
  BY <1>3, Facts DEF IsWorld, World
<1> HIDE DEF v
<1>6. Keeps(World, w)
  BY <1>3, <1>4, <1>5 DEF Keeps
<1> HIDE DEF w
<1>7. /\ hasQueue' \in BOOLEAN /\ calls' \in 0..MaxCalls /\ scripts' \in 0..MaxScripts
      /\ parent' \in Seq(Maybe(Promise)) /\ Len(parent') = m /\ reacted' \subseteq 1..m
  BY <1>1, NewPromiseFacts
<1> QED BY <1>1, <1>3, <1>4, <1>6, <1>7, StepBecomes

-----------------------------------------------------------------------------
(* What runs, ends. *)

LEMMA TopFacts ==
  ASSUME Inv, stack # <<>>
  PROVE  /\ Top \in FramesIn(Len(promises)) /\ Popped \in Seq(FramesIn(Len(promises)))
         /\ Len(Popped) = Len(stack) - 1 /\ Len(stack) \in Nat \ {0}
         /\ Top.promise \in Maybe(1..Len(promises)) /\ Top.argument \in Maybe(Known(Len(promises))) /\ Top.flag \in BOOLEAN
         /\ Top.kind \in {"thenable", "async"} => Top.promise # None
         /\ Top.kind = "finally" /\ Top.promise # None => Top.argument # None
<1> DEFINE n == Len(promises)
<1>1. Top \in FramesIn(n) /\ Popped \in Seq(FramesIn(n)) /\ Len(Popped) = Len(stack) - 1 /\ Len(stack) \in Nat \ {0}
  BY Facts, SeqFront DEF Top, Popped
<1> QED BY <1>1 DEF FramesIn

LEMMA WithStack ==
  ASSUME NEW n, NEW w, IsWorld(w, n), NEW frames \in Seq(FramesIn(n))
  PROVE  IsWorld([w EXCEPT !.stack = frames], n) /\ Keeps(w, [w EXCEPT !.stack = frames])
  BY DEF IsWorld, Worlds, Keeps

LEMMA FinishInv ==
  ASSUME Inv, NEW threw \in BOOLEAN, NEW value \in Known(Len(promises)), Finish(threw, value)
  PROVE  Inv' /\ (hasQueue => Kept)
<1> DEFINE n == Len(promises)
           w == [World EXCEPT !.stack = Popped]
           d == Top.promise
<1>1. stack # <<>> /\ n \in 0..MaxPromises /\ Top.kind \in CodeKinds /\ Len(World.promises) = n
  BY Facts DEF Finish, World
<1>2. /\ hasQueue' \in BOOLEAN /\ calls' \in 0..MaxCalls /\ scripts' \in 0..MaxScripts
      /\ parent' \in Seq(Maybe(Promise)) /\ Len(parent') = n /\ reacted' \subseteq 1..n
  BY Facts DEF Finish, Inv
<1>3. IsWorld(w, n) /\ Keeps(World, w) /\ Thrown \in Known(n)
  BY <1>1, Facts, TopFacts, WithStack, ValuesKnown
<1>4. ASSUME NEW v, IsWorld(v, n), hasQueue => Keeps(w, v), Becomes(v)
      PROVE  Inv' /\ (hasQueue => Kept)
  <2>1. Len(w.promises) = n
    BY <1>3 DEF IsWorld
  <2> HIDE DEF w
  <2>2. hasQueue => Keeps(World, v)
    BY <1>1, <1>3, <1>4, <2>1 DEF Keeps
  <2> QED BY <1>1, <1>2, <1>4, <2>2, StepBecomes
<1>5. CASE Top.kind = "script"
  <2>1. Becomes([w EXCEPT !.stack = <<NewFrame("drain", None, None, FALSE)>>])
    BY <1>5 DEF Finish
  <2>2. NewFrame("drain", None, None, FALSE) \in FramesIn(n)
    BY FrameLemma DEF FrameKinds, Maybe
  <2>3. <<NewFrame("drain", None, None, FALSE)>> \in Seq(FramesIn(n))
    BY <2>2, SeqSingle
  <2> HIDE DEF w
  <2> QED BY <1>3, <1>4, <2>1, <2>3, WithStack
<1>6. CASE Top.kind = "task" \/ (Top.kind \in {"handler", "finally"} /\ d = None)
  <2>1. Becomes(w)
    BY <1>6 DEF Finish
  <2>2. Keeps(w, w)
    BY DEF Keeps
  <2> QED BY <1>3, <1>4, <2>1, <2>2
<1>7. CASE Top.kind = "handler" /\ d # None
  <2>1. d \in 1..n
    BY <1>1, <1>7, TopFacts DEF Maybe
  <2>2. Becomes(IF threw THEN Settle(w, d, "rejected", Thrown) ELSE Resolve(w, d, value))
    BY <1>7 DEF Finish
  <2> HIDE DEF w, d
  <2> QED BY <1>1, <1>3, <1>4, <2>1, <2>2, SettleKeeps, ResolveKeeps
<1>8. CASE Top.kind = "finally" /\ d # None
  <2>1. d \in 1..n /\ Top.argument \in Known(n)
    BY <1>1, <1>8, TopFacts DEF Maybe
  <2>2. Becomes(IF Top.flag THEN Settle(w, d, "rejected", Thrown) ELSE Resolve(w, d, Top.argument))
    BY <1>8 DEF Finish
  <2> HIDE DEF w, d
  <2> QED BY <1>1, <1>3, <1>4, <2>1, <2>2, SettleKeeps, ResolveKeeps
<1>9. CASE Top.kind = "thenable"
  <2>1. d \in 1..n
    BY <1>1, <1>9, TopFacts DEF Maybe
  <2>2. Becomes(IF threw THEN Settle(w, d, "rejected", Thrown) ELSE w)
    BY <1>9 DEF Finish
  <2>3. Keeps(w, w)
    BY DEF Keeps
  <2> HIDE DEF w, d
  <2> QED BY <1>1, <1>3, <1>4, <2>1, <2>2, <2>3, SettleKeeps
<1>10. CASE Top.kind = "async"
  <2>1. d \in 1..n
    BY <1>1, <1>10, TopFacts DEF Maybe
  <2>2. Becomes(IF threw THEN RejectFunction(w, d, Thrown) ELSE ResolveFunction(w, d, value))
    BY <1>10 DEF Finish
  <2> HIDE DEF w, d
  <2> QED BY <1>1, <1>3, <1>4, <2>1, <2>2, FunctionsKeep
<1> QED BY <1>1, <1>5, <1>6, <1>7, <1>8, <1>9, <1>10 DEF CodeKinds

-----------------------------------------------------------------------------
(* The microtasks. *)

LEMMA RestFacts ==
  ASSUME NEW S, queue \in Seq(S), queue # <<>>
  PROVE  queue[NextJob] \in S /\ Rest \in Seq(S)
<1>1. Len(queue) \in Nat \ {0} /\ NextJob = 1
  BY DEF NextJob
<1>2. queue[1] \in S /\ \A i \in 1..Len(queue) : queue[i] \in S
  BY <1>1
<1>3. SubSeq(queue, 1, 0) = <<>> /\ SubSeq(queue, 1, 0) \in Seq(S)
  BY <1>1
<1>4. SubSeq(queue, 2, Len(queue)) \in Seq(S)
  <2> DEFINE rest == SubSeq(queue, 2, Len(queue))
  <2>1. rest = [i \in 1..Len(queue) - 1 |-> queue[i + 1]]
    BY <1>1
  <2>2. \A i \in 1..Len(queue) - 1 : queue[i + 1] \in S
    BY <1>1, <1>2
  <2> HIDE DEF rest
  <2>3. rest \in Seq(S)
    BY <1>1, <2>1, <2>2
  <2> QED BY <2>3 DEF rest
<1>5. Rest = SubSeq(queue, 1, 0) \o SubSeq(queue, 2, Len(queue))
  BY <1>1 DEF Rest
<1> QED BY <1>1, <1>2, <1>3, <1>4, <1>5

LEMMA SettlingKeeps ==
  ASSUME NEW n \in 0..MaxPromises, NEW w, IsWorld(w, n), NEW job \in JobsIn(n)
  PROVE  IsWorld(Settling(w, job), n) /\ Keeps(w, Settling(w, job))
<1> DEFINE r == job.reaction
<1>1. /\ r.handler \in HandlerKinds /\ r.of \in Maybe(1..n) /\ r.downstream \in Maybe(1..n)
      /\ r.handler \in {"resolve", "reject"} => r.of # None
      /\ job.argument \in Maybe(Known(n)) /\ job.rejection \in BOOLEAN
      /\ job.argument = None => r.handler = "user" /\ r.downstream = None
  BY DEF JobsIn, ReactionsIn
<1>2. CASE r.handler = "resolve"
  BY <1>1, <1>2, ResolveKeeps DEF Settling, Maybe
<1>3. CASE r.handler = "reject"
  BY <1>1, <1>3, SettleKeeps DEF Settling, Maybe
<1>4. CASE r.handler = "none" /\ r.downstream = None
  BY <1>1, <1>4 DEF Settling, Keeps
<1>5. CASE r.handler = "none" /\ r.downstream # None
  <2>1. Settling(w, job) = IF job.rejection THEN Settle(w, r.downstream, "rejected", job.argument)
                                            ELSE Resolve(w, r.downstream, job.argument)
    BY <1>5 DEF Settling
  <2> QED BY <1>1, <1>5, <2>1, SettleKeeps, ResolveKeeps DEF Maybe
<1>6. CASE r.handler \in {"user", "finally"}
  <2> DEFINE kind == IF r.handler = "finally" THEN "finally" ELSE IF r.downstream = None THEN "task" ELSE "handler"
             f == NewFrame(kind, r.downstream, job.argument, job.rejection)
  <2>1. Settling(w, job) = [w EXCEPT !.stack = Append(@, f)]
    BY <1>6 DEF Settling
  <2>2. kind \in FrameKinds \ {"thenable", "async"} /\ (kind = "finally" => job.argument # None)
    BY <1>1, <1>6 DEF FrameKinds
  <2> HIDE DEF kind
  <2>3. f \in FramesIn(n)
    BY <1>1, <2>2, FrameLemma
  <2> HIDE DEF f
  <2>4. w.stack \in Seq(FramesIn(n))
    BY DEF IsWorld, Worlds
  <2>5. Append(w.stack, f) \in Seq(FramesIn(n))
    BY <2>3, <2>4
  <2>6. PICK frames \in Seq(FramesIn(n)) : Settling(w, job) = [w EXCEPT !.stack = frames]
    BY <2>1, <2>5
  <2> QED BY <2>6, WithStack
<1> QED BY <1>1, <1>2, <1>3, <1>4, <1>5, <1>6 DEF HandlerKinds

LEMMA FlagSet ==
  ASSUME NEW n, NEW frames \in Seq(FramesIn(n)), frames # <<>>, NEW flag \in BOOLEAN
  PROVE  [frames EXCEPT ![Len(frames)].flag = flag] \in Seq(FramesIn(n))
<1> DEFINE f == [frames[Len(frames)] EXCEPT !.flag = flag]
<1>1. frames[Len(frames)] \in FramesIn(n) /\ Len(frames) \in Nat \ {0}
  BY SeqFront
<1>2. f \in FramesIn(n)
  BY <1>1 DEF FramesIn
<1>3. [frames EXCEPT ![Len(frames)].flag = flag] = [frames EXCEPT ![Len(frames)] = f]
  OBVIOUS
<1> HIDE DEF f
<1> QED BY <1>1, <1>2, <1>3, SeqExcept

LEMMA RunTaskInv == Inv /\ RunTask => Inv' /\ Kept
<1> SUFFICES ASSUME Inv, RunTask PROVE Inv' /\ Kept
  OBVIOUS
<1> DEFINE n == Len(promises)
           job == queue[NextJob]
           w == [World EXCEPT !.queue = Rest, !.stack = Ran]
           v == Settling(w, job)
<1>1. n \in 0..MaxPromises /\ IsWorld(World, n) /\ stack # <<>> /\ queue # <<>>
  BY Facts DEF RunTask, Draining
<1>2. job \in JobsIn(n) /\ Rest \in Seq(JobsIn(n))
  BY <1>1, Facts, RestFacts
<1>3. Ran \in Seq(FramesIn(n))
  BY <1>1, Facts, FlagSet DEF Ran
<1>4. IsWorld(w, n) /\ Keeps(World, w) /\ w.promises = promises
  BY <1>1, <1>2, <1>3 DEF IsWorld, Worlds, Keeps, World
<1>5. Becomes(v) /\ reacted' = (IF job.reaction.downstream = None THEN reacted ELSE reacted \cup {job.reaction.downstream})
  BY DEF RunTask
<1>6. /\ hasQueue' \in BOOLEAN /\ calls' \in 0..MaxCalls /\ scripts' \in 0..MaxScripts
      /\ parent' \in Seq(Maybe(Promise)) /\ Len(parent') = n /\ reacted' \subseteq 1..n
  <2>1. job.reaction.downstream \in Maybe(1..n)
    BY <1>2 DEF JobsIn, ReactionsIn
  <2> QED BY <1>5, <2>1, Facts DEF RunTask, Inv, Maybe
<1> HIDE DEF job, w
<1>7. IsWorld(v, n) /\ Keeps(w, v)
  BY <1>1, <1>2, <1>4, SettlingKeeps
<1>8. Keeps(World, v)
  BY <1>4, <1>7 DEF Keeps, World
<1> HIDE DEF v
<1> QED BY <1>1, <1>5, <1>6, <1>7, <1>8, StepBecomes

(* Steps that only change what runs. *)
LEMMA StackStep ==
  ASSUME Inv, stack' \in Seq(FramesIn(Len(promises))), hasQueue' \in BOOLEAN, calls' = calls,
         scripts' \in 0..MaxScripts, UNCHANGED <<promises, queue, held, history>>
  PROVE  Inv' /\ Kept
<1>1. Inv'
  BY Facts, StepTo DEF Inv, history
<1> QED BY <1>1 DEF Kept

LEMMA DrainDoneInv == Inv /\ DrainDone => Inv' /\ Kept
<1> SUFFICES ASSUME Inv, DrainDone PROVE Inv' /\ Kept
  OBVIOUS
<1> DEFINE n == Len(promises)
<1>1. Popped \in Seq(FramesIn(n)) /\ Top.flag \in BOOLEAN
  BY TopFacts DEF DrainDone, Draining
<1>2. stack' \in Seq(FramesIn(n))
  BY <1>1, FlagSet DEF DrainDone
<1> QED BY <1>2, StackStep DEF DrainDone, Inv

LEMMA AwaitStepInv == Inv /\ AwaitStep => Inv' /\ Kept
<1> SUFFICES ASSUME Inv, AwaitStep PROVE Inv' /\ Kept
  OBVIOUS
<1> DEFINE n == Len(promises)
           f == NewFrame("drain", None, None, FALSE)
<1>1. Popped \in Seq(FramesIn(n)) /\ stack \in Seq(FramesIn(n))
  BY TopFacts, Facts DEF AwaitStep
<1>2. f \in FramesIn(n)
  BY FrameLemma DEF FrameKinds, Maybe
<1>3. stack' = Popped \/ stack' = Append(stack, f)
  BY DEF AwaitStep
<1> HIDE DEF f
<1>4. stack' \in Seq(FramesIn(n))
  BY <1>1, <1>2, <1>3
<1> QED BY <1>4, StackStep DEF AwaitStep, Inv

LEMMA BeginScriptInv == ASSUME Inv, NEW kind, BeginScript(kind) PROVE Inv' /\ Kept
<1> DEFINE n == Len(promises)
           f == NewFrame("script", None, None, FALSE)
<1>1. f \in FramesIn(n) /\ stack \in Seq(FramesIn(n))
  BY Facts, FrameLemma DEF FrameKinds, Maybe
<1>2. stack' = stack \/ stack' = <<f>>
  BY DEF BeginScript
<1> HIDE DEF f
<1>3. stack' \in Seq(FramesIn(n))
  BY <1>1, <1>2, SeqSingle
<1>4. hasQueue' \in BOOLEAN /\ scripts' \in 0..MaxScripts /\ calls' = calls
  BY PromiseAssumption DEF BeginScript, Inv
<1> QED BY <1>3, <1>4, StackStep DEF BeginScript

LEMMA StutterInv == Inv /\ UNCHANGED vars => Inv' /\ Kept
  BY DEF vars, history, Inv, IsWorld, World, Created, Kept

-----------------------------------------------------------------------------
(* Every step *)

LEMMA StepInv == Inv /\ [Next]_vars => Inv' /\ (hasQueue => Kept)
<1> SUFFICES ASSUME Inv, [Next]_vars PROVE Inv' /\ (hasQueue => Kept)
  OBVIOUS
<1>1. CASE \E kind \in ScriptKinds : BeginScript(kind)
  BY <1>1, BeginScriptInv
<1>2. CASE Create \/ QueueMicrotask \/ CallAsync
  BY <1>2, CreateInv, QueueMicrotaskInv, CallAsyncInv
<1>3. CASE \E h \in held : CallReject(h) \/ \E value \in Available : CallResolve(h, value)
  BY <1>3, SettlingCalls
<1>4. CASE \E p \in Created : \/ Then(p, "user", "none") \/ Then(p, "none", "user")
                              \/ Then(p, "user", "user") \/ Then(p, "finally", "finally")
  BY <1>4, ThenInv
<1>5. CASE \E value \in Created \cup {Plain} : Await(value)
  BY <1>5, AwaitInv
<1>6. CASE Return
  <2>1. PICK value \in Available : Finish(FALSE, value)
    BY <1>6 DEF Return
  <2> QED BY <2>1, ValuesKnown, FinishInv
<1>7. CASE Throw
  BY <1>7, ValuesKnown, FinishInv DEF Throw
<1>8. CASE RunTask \/ DrainDone \/ AwaitStep
  BY <1>8, RunTaskInv, DrainDoneInv, AwaitStepInv
<1>9. CASE UNCHANGED vars
  BY <1>9, StutterInv
<1> QED BY <1>1, <1>2, <1>3, <1>4, <1>5, <1>6, <1>7, <1>8, <1>9 DEF Next, Call, Run

LEMMA InitInv == Init => Inv /\ Queued
<1> SUFFICES ASSUME Init PROVE Inv /\ Queued
  OBVIOUS
<1>1. World \in Worlds(0) /\ Len(promises) = 0
  BY DEF Init, World, Worlds
<1>2. 0 <= MaxPromises /\ 0 \in 0..MaxCalls /\ 0 \in 0..MaxScripts
  BY PromiseAssumption
<1>3. parent \in Seq(Maybe(Promise)) /\ Len(parent) = 0 /\ reacted \subseteq Created
  BY DEF Init
<1> QED BY <1>1, <1>2, <1>3 DEF Init, Inv, IsWorld, World, Queued

(* Nothing but a script starts on an empty stack. *)
LEMMA QueuedStep == ScriptKinds = {"eval"} /\ Inv /\ Queued /\ [Next]_vars => Queued'
<1> SUFFICES ASSUME ScriptKinds = {"eval"}, Inv, Queued, [Next]_vars PROVE Queued'
  OBVIOUS
<1>1. CASE \E kind \in ScriptKinds : BeginScript(kind)
  BY <1>1 DEF BeginScript, Queued
<1>2. CASE Call
  <2>1. stack # <<>> /\ hasQueue' = hasQueue
    BY <1>2 DEF Call, Create, QueueMicrotask, CallAsync, CallReject, CallResolve, Then, Await, Calling
  <2> QED BY <2>1 DEF Queued
<1>3. CASE Run
  <2>1. stack # <<>>
    BY <1>3 DEF Run, Return, Throw, Finish, RunTask, Draining, DrainDone, AwaitStep
  <2>2. CASE Return \/ Throw
    <3>1. hasQueue' = (hasQueue \/ Top.kind = "script")
      BY <2>2 DEF Return, Throw, Finish
    <3> QED BY <2>1, <3>1 DEF Queued
  <2>3. CASE RunTask \/ DrainDone \/ AwaitStep
    <3>1. hasQueue' = hasQueue
      BY <2>3 DEF RunTask, DrainDone, AwaitStep
    <3> QED BY <2>1, <3>1 DEF Queued
  <2> QED BY <1>3, <2>2, <2>3 DEF Run
<1>4. CASE UNCHANGED vars
  BY <1>4 DEF vars, Queued
<1> QED BY <1>1, <1>2, <1>3, <1>4 DEF Next

(* A step on an empty stack is the begin of a script, which settles        *)
(* nothing.                                                                *)
LEMMA SettledStep == Inv /\ Queued /\ [Next]_vars => Kept
<1> SUFFICES ASSUME Inv, Queued, [Next]_vars PROVE Kept
  OBVIOUS
<1>1. CASE stack # <<>>
  BY <1>1, StepInv DEF Queued
<1>2. CASE stack = <<>>
  <2>1. ~Call /\ ~Run
    BY <1>2 DEF Call, Create, QueueMicrotask, CallAsync, CallReject, CallResolve, Then, Await, Calling,
                Run, Return, Throw, Finish, RunTask, Draining, DrainDone, AwaitStep
  <2> QED BY <2>1, BeginScriptInv, StutterInv DEF Next
<1> QED BY <1>1, <1>2

LEMMA InvTypes == Inv => TypeOK
<1> SUFFICES ASSUME Inv PROVE TypeOK
  OBVIOUS
<1> DEFINE n == Len(promises)
<1>1. n \in Nat /\ 1..n \subseteq Promise /\ Known(n) \subseteq Value
  BY Facts, PromiseAssumption DEF Promise, Known, Value
<1>2. ReactionsIn(n) \subseteq Reaction
  BY <1>1 DEF ReactionsIn, Reaction, Maybe
<1>3. JobsIn(n) \subseteq Job
  BY <1>1, <1>2 DEF JobsIn, Job, Maybe
<1>4. FramesIn(n) \subseteq Frame
  BY <1>1 DEF FramesIn, Frame, Maybe
<1>5. Seq(ReactionsIn(n)) \subseteq Seq(Reaction)
  BY <1>2, SeqMonotone
<1>6. RecordsIn(n) \subseteq PromiseRecord
  BY <1>1, <1>5 DEF RecordsIn, PromiseRecord, Maybe
<1>7. promises \in Seq(PromiseRecord) /\ queue \in Seq(Job) /\ stack \in Seq(Frame)
  BY <1>3, <1>4, <1>6, Facts, SeqMonotone
<1>8. \A p \in Created : promises[p].state = "pending" <=> promises[p].result = None
  BY Facts, RecordIn DEF World
<1> QED BY <1>1, <1>7, <1>8, Facts DEF Inv, TypeOK, Maybe

THEOREM Invariance == Spec => []Inv
<1>1. Init => Inv
  BY InitInv
<1>2. Inv /\ [Next]_vars => Inv'
  BY StepInv
<1> QED BY <1>1, <1>2, PTL DEF Spec

(* Promises, microtasks and what runs are well formed at every step, also  *)
(* in modules, whose resolving functions overwrite (promise.rs).           *)
THEOREM PromisesTypeCorrect == Spec => []TypeOK
  BY InvTypes, Invariance, PTL

(* A promise that is fulfilled or rejected keeps its state and its result, *)
(* when every script is run by Context::eval, which sets the queue that    *)
(* resolve and reject ask for.                                             *)
THEOREM SettledOnceCorrect ==
  ASSUME ScriptKinds = {"eval"}
  PROVE  Spec => SettledOnce
<1>1. Init => Queued
  BY InitInv
<1>2. Inv /\ Queued /\ [Next]_vars => Queued'
  BY QueuedStep
<1>3. Inv /\ Queued /\ [Next]_vars =>
        [\A p \in Created : Settled(p) => /\ promises'[p].state = promises[p].state
                                          /\ promises'[p].result = promises[p].result]_vars
  BY SettledStep DEF Kept
<1> QED BY <1>1, <1>2, <1>3, Invariance, PTL DEF Spec, SettledOnce

-----------------------------------------------------------------------------
(* What is owed to the promises that then() returned and to adopters *)

(* What a promise settles with: resolving looks behind promises and calls  *)
(* thenables first.                                                        *)
Final == {Plain, CycleError, Thrown}

(* The reactions of s for children of q, of which each has one, in order.  *)
Child(s, i) == s[i].downstream
Registered(s, q, par) ==
  /\ \A i \in DOMAIN s : Child(s, i) # None => par[Child(s, i)] = q
  /\ \A i, j \in DOMAIN s : i < j /\ Child(s, i) # None /\ Child(s, j) # None => Child(s, i) < Child(s, j)
  /\ \A c \in DOMAIN par : par[c] = q => \E i \in DOMAIN s : Child(s, i) = c
RecordRight(record, q, par) ==
  IF record.state = "pending"
  THEN Registered(record.fulfillReactions, q, par) /\ Registered(record.rejectReactions, q, par)
  ELSE record.fulfillReactions = <<>> /\ record.rejectReactions = <<>> /\ record.result \in Final

(* The children of settled promises are queued once or have reacted, those *)
(* of one promise in the order of their creation.                          *)
For(w, i) == w.queue[i].reaction.downstream
Owing(w, par, c) == par[c] # None /\ ~Pending(w, par[c])
QueueRight(w, par, rea) ==
  /\ \A i \in DOMAIN w.queue : /\ w.queue[i].argument \in Final \cup {None}
                               /\ For(w, i) # None => Owing(w, par, For(w, i)) /\ For(w, i) \notin rea
  /\ \A i, j \in DOMAIN w.queue :
       i < j /\ For(w, i) # None /\ For(w, j) # None /\ par[For(w, i)] = par[For(w, j)] => For(w, i) < For(w, j)
  /\ \A c \in DOMAIN par : Owing(w, par, c) => c \in rea \/ \E i \in DOMAIN w.queue : For(w, i) = c
ReactedRight(w, par, rea) ==
  \A c \in rea : Owing(w, par, c) /\ \A b \in DOMAIN par : b < c /\ par[b] = par[c] => b \in rea
Owes(w, par, rea) ==
  /\ \A c \in DOMAIN par : par[c] # None => par[c] \in DOMAIN w.promises
  /\ \A q \in DOMAIN w.promises : RecordRight(w.promises[q], q, par)
  /\ QueueRight(w, par, rea) /\ ReactedRight(w, par, rea)

(* Whoever was resolved with q learns how q is settled, those in late still later. *)
Tells(r, kinds, p) == r.handler \in kinds /\ r.of = p
Passes(w, late) ==
  \A pq \in w.adopted : LET p == pq[1] q == pq[2] IN
    IF Pending(w, q)
    THEN /\ \E i \in DOMAIN w.promises[q].fulfillReactions :
              Tells(w.promises[q].fulfillReactions[i], {"resolve"}, p)
         /\ \E i \in DOMAIN w.promises[q].rejectReactions :
              Tells(w.promises[q].rejectReactions[i], {"reject"}, p)
    ELSE p \in late \/ ~Pending(w, p)
         \/ \E i \in DOMAIN w.queue : Tells(w.queue[i].reaction, {"resolve", "reject"}, p)

LEMMA AppendLast ==
  ASSUME NEW S, NEW s \in Seq(S), NEW a \in S, NEW b \in S
  PROVE  Append(s, a) = [Append(s, b) EXCEPT ![Len(s) + 1] = a]
<1> DEFINE t == Append(s, b)
           u == Append(s, a)
           L == Len(s)
<1>1. /\ L \in Nat /\ t \in Seq(S) /\ Len(t) = L + 1 /\ u \in Seq(S) /\ Len(u) = L + 1
      /\ \A i \in 1..L : t[i] = s[i] /\ u[i] = s[i]
      /\ u[L + 1] = a
  OBVIOUS
<1> HIDE DEF t, u, L
<1>2. u = [i \in 1..L + 1 |-> u[i]] /\ t = [i \in 1..L + 1 |-> t[i]]
  BY <1>1
<1>3. \A i \in 1..L + 1 : u[i] = IF i = L + 1 THEN a ELSE t[i]
  BY <1>1
<1>4. [t EXCEPT ![L + 1] = a] = [i \in 1..L + 1 |-> IF i = L + 1 THEN a ELSE t[i]]
  <2>1. DOMAIN t = 1..L + 1
    BY <1>1
  <2> QED BY <2>1
<1>5. u = [t EXCEPT ![L + 1] = a]
  BY <1>2, <1>3, <1>4
<1> QED BY <1>5 DEF t, u, L

-----------------------------------------------------------------------------
(* What is owed, through the changes of a world *)

Parents(n) == {par \in Seq(Maybe(Promise)) : Len(par) = n}

LEMMA Typed ==
  ASSUME NEW n \in Nat, NEW w, IsWorld(w, n)
  PROVE  /\ DOMAIN w.promises = 1..n /\ w.queue \in Seq(JobsIn(n)) /\ w.adopted \subseteq (1..n) \X (1..n)
         /\ DOMAIN w.queue = 1..Len(w.queue) /\ Len(w.queue) \in Nat
         /\ \A i \in DOMAIN w.queue : For(w, i) \in Maybe(1..n)
         /\ \A q \in 1..n : /\ w.promises[q].fulfillReactions \in Seq(ReactionsIn(n))
                            /\ w.promises[q].rejectReactions \in Seq(ReactionsIn(n))
<1>1. /\ w.promises \in Seq(RecordsIn(n)) /\ Len(w.promises) = n /\ w.queue \in Seq(JobsIn(n))
      /\ w.adopted \subseteq (1..n) \X (1..n)
  BY DEF IsWorld, Worlds
<1>2. \A i \in DOMAIN w.queue : w.queue[i] \in JobsIn(n)
  BY <1>1
<1>3. \A i \in DOMAIN w.queue : For(w, i) \in Maybe(1..n)
  BY <1>2 DEF For, JobsIn, ReactionsIn
<1> QED BY <1>1, <1>3, RecordIn

LEMMA ChildTyped ==
  ASSUME NEW n \in Nat, NEW s \in Seq(ReactionsIn(n))
  PROVE  DOMAIN s = 1..Len(s) /\ Len(s) \in Nat /\ \A i \in DOMAIN s : Child(s, i) \in Maybe(1..n)
<1>1. \A i \in DOMAIN s : s[i] \in ReactionsIn(n)
  OBVIOUS
<1> QED BY <1>1 DEF Child, ReactionsIn

(* Only promises, queue and adoptions matter. *)
LEMMA SameOwes ==
  ASSUME NEW w, NEW v, v.promises = w.promises, v.queue = w.queue, NEW par, NEW rea, Owes(w, par, rea)
  PROVE  Owes(v, par, rea)
  BY DEF Owes, QueueRight, ReactedRight, Owing, For, Pending

LEMMA SamePasses ==
  ASSUME NEW w, NEW v, v.promises = w.promises, v.queue = w.queue, v.adopted = w.adopted,
         NEW late, Passes(w, late)
  PROVE  Passes(v, late)
  BY DEF Passes, Pending

(* What settling p does: its reactions join the queue. *)
Joined(w, v, p, reactions) ==
  /\ \A q \in DOMAIN w.promises : q # p => v.promises[q] = w.promises[q]
  /\ DOMAIN v.promises = DOMAIN w.promises
  /\ ~Pending(v, p) /\ v.promises[p].fulfillReactions = <<>> /\ v.promises[p].rejectReactions = <<>>
  /\ v.promises[p].result \in Final
  /\ Len(v.queue) = Len(w.queue) + Len(reactions) /\ DOMAIN v.queue = 1..Len(v.queue)
  /\ \A i \in 1..Len(w.queue) : v.queue[i] = w.queue[i]
  /\ \A i \in 1..Len(reactions) : /\ v.queue[Len(w.queue) + i].reaction = reactions[i]
                                  /\ v.queue[Len(w.queue) + i].argument \in Final
  /\ v.adopted = w.adopted

LEMMA SettleJoins ==
  ASSUME NEW n \in 0..MaxPromises, NEW w, IsWorld(w, n), NEW p \in 1..n, Pending(w, p),
         NEW state \in {"fulfilled", "rejected"}, NEW value \in Final
  PROVE  Joined(w, Settle(w, p, state, value), p,
                IF state = "fulfilled" THEN w.promises[p].fulfillReactions ELSE w.promises[p].rejectReactions)
<1> DEFINE reactions == IF state = "fulfilled" THEN w.promises[p].fulfillReactions ELSE w.promises[p].rejectReactions
           jobs == Jobs(reactions, value, state = "rejected")
           record == SettledRecord(state, value)
           v == Settle(w, p, state, value)
<1>1. n \in Nat /\ w.promises \in Seq(RecordsIn(n)) /\ Len(w.promises) = n /\ w.queue \in Seq(JobsIn(n)) /\ w \in Worlds(n)
  BY PromiseAssumption DEF IsWorld, Worlds
<1>2. v = [w EXCEPT !.promises[p] = record, !.queue = @ \o jobs]
  BY DEF Settle
<1>3. v.promises = [w.promises EXCEPT ![p] = record] /\ v.queue = w.queue \o jobs /\ v.adopted = w.adopted
  BY <1>1, <1>2 DEF Worlds
<1>4. /\ record.state # "pending" /\ record.fulfillReactions = <<>> /\ record.rejectReactions = <<>>
      /\ record.result = value
  BY DEF SettledRecord, NewPromise
<1>5. reactions \in Seq(ReactionsIn(n))
  BY <1>1, Typed
<1>6. jobs = [i \in 1..Len(reactions) |-> NewJob(reactions[i], value, state = "rejected")]
  BY <1>5 DEF Jobs
<1> HIDE DEF jobs, record
<1>7. /\ Len(jobs) = Len(reactions) /\ jobs \in Seq({jobs[i] : i \in 1..Len(reactions)})
      /\ \A i \in 1..Len(reactions) : jobs[i].reaction = reactions[i] /\ jobs[i].argument = value
  <2>1. Len(reactions) \in Nat
    BY <1>5
  <2> HIDE DEF reactions
  <2> QED BY <1>6, <2>1 DEF NewJob
<1> HIDE DEF reactions
<1>8. /\ Len(v.queue) = Len(w.queue) + Len(reactions) /\ DOMAIN v.queue = 1..Len(v.queue)
      /\ \A i \in 1..Len(w.queue) : v.queue[i] = w.queue[i]
      /\ \A i \in 1..Len(reactions) : v.queue[Len(w.queue) + i] = jobs[i]
  <2> DEFINE T == JobsIn(n) \cup {jobs[i] : i \in 1..Len(reactions)}
  <2>1. w.queue \in Seq(T) /\ jobs \in Seq(T)
    BY <1>1, <1>7, SeqMonotone
  <2> HIDE DEF T
  <2>2. /\ Len(w.queue \o jobs) = Len(w.queue) + Len(jobs) /\ w.queue \o jobs \in Seq(T)
        /\ \A i \in 1..Len(w.queue) : (w.queue \o jobs)[i] = w.queue[i]
        /\ \A i \in 1..Len(jobs) : (w.queue \o jobs)[Len(w.queue) + i] = jobs[i]
    BY <2>1
  <2>3. DOMAIN (w.queue \o jobs) = 1..Len(w.queue \o jobs)
    BY <2>2
  <2> QED BY <1>3, <1>7, <2>2, <2>3
<1>9. /\ \A q \in DOMAIN w.promises : v.promises[q] = IF q = p THEN record ELSE w.promises[q]
      /\ DOMAIN v.promises = DOMAIN w.promises /\ p \in DOMAIN w.promises
  BY <1>1, <1>3
<1> HIDE DEF v
<1>10. Joined(w, v, p, reactions)
  BY <1>3, <1>4, <1>7, <1>8, <1>9 DEF Joined, Pending
<1> QED BY <1>10 DEF v, reactions

LEMMA JoinedOwes ==
  ASSUME NEW n \in Nat, NEW w, IsWorld(w, n), NEW p \in 1..n, NEW reactions \in Seq(ReactionsIn(n)),
         NEW v, Joined(w, v, p, reactions), Pending(w, p), p # None,
         NEW par \in Parents(n), NEW rea \in SUBSET (1..n), Owes(w, par, rea), Registered(reactions, p, par)
  PROVE  Owes(v, par, rea)
<1> DEFINE L == Len(w.queue)
           R == Len(reactions)
<1>1. DOMAIN par = 1..n /\ DOMAIN w.promises = 1..n /\ DOMAIN v.promises = 1..n /\ L \in Nat /\ R \in Nat
      /\ DOMAIN w.queue = 1..L /\ DOMAIN v.queue = 1..L + R /\ DOMAIN reactions = 1..R
  BY Typed, ChildTyped DEF Parents, Joined
<1>2. \A c \in 1..n : par[c] # None => par[c] \in 1..n
  BY <1>1 DEF Owes
<1>3. \A c \in 1..n : Owing(v, par, c) <=> Owing(w, par, c) \/ par[c] = p
  BY <1>1, <1>2 DEF Owing, Joined, Pending
<1>4. \A i \in 1..L : v.queue[i] = w.queue[i] /\ For(v, i) = For(w, i)
  BY DEF Joined, For
<1>5. \A i \in 1..R : /\ For(v, L + i) = Child(reactions, i) /\ v.queue[L + i].argument \in Final
                      /\ L + i \in 1..L + R
  BY <1>1 DEF Joined, For, Child
<1>6. \A i \in 1..L + R : i \notin 1..L => i - L \in 1..R /\ i = L + (i - L)
  BY <1>1
<1>7. /\ \A i \in 1..L : For(w, i) \in Maybe(1..n)
      /\ \A i \in 1..R : Child(reactions, i) \in Maybe(1..n)
  BY <1>1, Typed, ChildTyped
<1>8. /\ \A i \in 1..L : /\ w.queue[i].argument \in Final \cup {None}
                         /\ For(w, i) # None => Owing(w, par, For(w, i)) /\ For(w, i) \notin rea
      /\ \A i, j \in 1..L : i < j /\ For(w, i) # None /\ For(w, j) # None /\ par[For(w, i)] = par[For(w, j)]
           => For(w, i) < For(w, j)
      /\ \A c \in 1..n : Owing(w, par, c) => c \in rea \/ \E i \in 1..L : For(w, i) = c
  BY <1>1 DEF Owes, QueueRight
<1>9. /\ \A i \in 1..R : Child(reactions, i) # None => par[Child(reactions, i)] = p
      /\ \A i, j \in 1..R : i < j /\ Child(reactions, i) # None /\ Child(reactions, j) # None
           => Child(reactions, i) < Child(reactions, j)
      /\ \A c \in 1..n : par[c] = p => \E i \in 1..R : Child(reactions, i) = c
  BY <1>1 DEF Registered
<1>10. \A c \in 1..n : par[c] = p => ~Owing(w, par, c) /\ c \notin rea
  <2>1. \A c \in 1..n : par[c] = p => ~Owing(w, par, c)
    BY DEF Owing
  <2> QED BY <2>1 DEF Owes, ReactedRight
<1> HIDE DEF L, R
<1>11. ASSUME NEW i \in 1..L + R
       PROVE  /\ v.queue[i].argument \in Final \cup {None}
              /\ For(v, i) # None => Owing(v, par, For(v, i)) /\ For(v, i) \notin rea
  <2>1. CASE i \in 1..L
    BY <1>3, <1>4, <1>7, <1>8, <2>1 DEF Maybe
  <2>2. CASE i \notin 1..L
    <3>1. PICK k \in 1..R : i = L + k
      BY <1>6, <2>2
    <3>2. Child(reactions, k) # None => Child(reactions, k) \in 1..n /\ par[Child(reactions, k)] = p
      BY <1>7, <1>9 DEF Maybe
    <3> QED BY <1>3, <1>5, <1>10, <3>1, <3>2
  <2> QED BY <2>1, <2>2
<1>12. ASSUME NEW i \in 1..L + R, NEW j \in 1..L + R, i < j, For(v, i) # None, For(v, j) # None,
              par[For(v, i)] = par[For(v, j)]
       PROVE  For(v, i) < For(v, j)
  <2>1. CASE i \in 1..L /\ j \in 1..L
    BY <1>4, <1>8, <1>12, <2>1
  <2>2. CASE i \in 1..L /\ j \notin 1..L
    <3>1. PICK k \in 1..R : j = L + k
      BY <1>6, <2>2
    <3>2. par[For(v, j)] = p
      BY <1>5, <1>9, <1>12, <3>1
    <3>3. For(w, i) \in 1..n /\ Owing(w, par, For(w, i)) /\ par[For(w, i)] = p
      BY <1>4, <1>7, <1>8, <1>12, <2>2, <3>2 DEF Maybe
    <3> QED BY <1>10, <3>3
  <2>3. CASE i \notin 1..L
    <3>1. j \notin 1..L
      BY <1>1, <1>12, <2>3
    <3>2. PICK k \in 1..R : i = L + k
      BY <1>6, <2>3
    <3>3. PICK l \in 1..R : j = L + l
      BY <1>6, <3>1
    <3>4. k < l
      BY <1>1, <1>12, <3>2, <3>3
    <3> QED BY <1>5, <1>9, <1>12, <3>2, <3>3, <3>4
  <2> QED BY <2>1, <2>2, <2>3
<1>13. ASSUME NEW c \in 1..n, Owing(v, par, c)
       PROVE  c \in rea \/ \E i \in 1..L + R : For(v, i) = c
  <2>1. CASE Owing(w, par, c)
    <3>1. \A i \in 1..L : i \in 1..L + R
      BY <1>1
    <3> QED BY <1>4, <1>8, <2>1, <3>1
  <2>2. CASE par[c] = p
    BY <1>5, <1>9, <2>2
  <2> QED BY <1>3, <1>13, <2>1, <2>2
<1>14. QueueRight(v, par, rea)
  BY <1>1, <1>11, <1>12, <1>13 DEF QueueRight
<1>15. ReactedRight(v, par, rea)
  BY <1>3 DEF Owes, ReactedRight
<1>16. \A q \in 1..n : RecordRight(v.promises[q], q, par)
  <2>1. RecordRight(v.promises[p], p, par)
    BY DEF Joined, RecordRight, Pending
  <2>2. \A q \in 1..n : q # p => v.promises[q] = w.promises[q] /\ RecordRight(w.promises[q], q, par)
    BY <1>1 DEF Owes, Joined
  <2> QED BY <2>1, <2>2
<1> QED BY <1>1, <1>2, <1>14, <1>15, <1>16 DEF Owes

LEMMA JoinedPasses ==
  ASSUME NEW n \in Nat, NEW w, IsWorld(w, n), NEW p \in 1..n, NEW v, Pending(w, p),
         NEW reactions \in {w.promises[p].fulfillReactions, w.promises[p].rejectReactions},
         Joined(w, v, p, reactions), NEW late, Passes(w, late)
  PROVE  Passes(v, late \ {p})
<1> DEFINE L == Len(w.queue)
<1>1. /\ DOMAIN w.promises = 1..n /\ DOMAIN reactions = 1..Len(reactions) /\ Len(reactions) \in Nat
      /\ L \in Nat /\ DOMAIN w.queue = 1..L /\ DOMAIN v.queue = 1..L + Len(reactions)
      /\ w.adopted \subseteq (1..n) \X (1..n) /\ v.adopted = w.adopted
  BY Typed, ChildTyped DEF Joined
<1>2. SUFFICES ASSUME NEW pq \in w.adopted
               PROVE  IF Pending(v, pq[2])
                      THEN /\ \E i \in DOMAIN v.promises[pq[2]].fulfillReactions :
                                Tells(v.promises[pq[2]].fulfillReactions[i], {"resolve"}, pq[1])
                           /\ \E i \in DOMAIN v.promises[pq[2]].rejectReactions :
                                Tells(v.promises[pq[2]].rejectReactions[i], {"reject"}, pq[1])
                      ELSE pq[1] \in late \ {p} \/ ~Pending(v, pq[1])
                           \/ \E i \in DOMAIN v.queue : Tells(v.queue[i].reaction, {"resolve", "reject"}, pq[1])
  BY <1>1 DEF Passes
<1> DEFINE x == pq[1]
           q == pq[2]
<1>3. x \in 1..n /\ q \in 1..n
  BY <1>1
<1>4. CASE q = p
  <2>1. ~Pending(v, q)
    BY <1>4 DEF Joined
  <2>2. PICK i \in DOMAIN reactions : Tells(reactions[i], {"resolve", "reject"}, x)
    BY <1>4 DEF Passes, Tells
  <2>3. i \in 1..Len(reactions)
    BY <1>1
  <2>4. L + i \in 1..L + Len(reactions)
    BY <1>1, <2>3
  <2>5. v.queue[L + i].reaction = reactions[i]
    BY <2>3 DEF Joined
  <2> QED BY <1>1, <2>1, <2>2, <2>4, <2>5
<1>5. CASE q # p
  <2>1. v.promises[q] = w.promises[q] /\ (Pending(v, q) <=> Pending(w, q))
    BY <1>1, <1>3, <1>5 DEF Joined, Pending
  <2>2. CASE Pending(w, q)
    BY <2>1, <2>2 DEF Passes
  <2>3. CASE ~Pending(w, q)
    <3>1. x \in late \/ ~Pending(w, x) \/ \E i \in DOMAIN w.queue : Tells(w.queue[i].reaction, {"resolve", "reject"}, x)
      BY <2>3 DEF Passes
    <3>2. x = p \/ ~Pending(w, x) => ~Pending(v, x)
      BY <1>1, <1>3 DEF Joined, Pending
    <3>3. \A i \in DOMAIN w.queue : i \in DOMAIN v.queue /\ v.queue[i] = w.queue[i]
      BY <1>1 DEF Joined
    <3> QED BY <2>1, <2>3, <3>1, <3>2, <3>3
  <2> QED BY <2>2, <2>3
<1> QED BY <1>4, <1>5

LEMMA SettleOwes ==
  ASSUME NEW n \in 0..MaxPromises, NEW w, IsWorld(w, n), NEW p \in 1..n,
         NEW state \in {"fulfilled", "rejected"}, NEW value \in Final,
         NEW par \in Parents(n), NEW rea \in SUBSET (1..n), Owes(w, par, rea), NEW late, Passes(w, late)
  PROVE  Owes(Settle(w, p, state, value), par, rea) /\ Passes(Settle(w, p, state, value), late \ {p})
<1>0. n \in Nat /\ p # None
  BY PromiseAssumption, ValueAssumption DEF Value, Promise
<1>1. CASE ~Pending(w, p)
  <2>1. Settle(w, p, state, value) = w
    BY <1>1 DEF Settle
  <2> QED BY <1>1, <2>1 DEF Passes
<1>2. CASE Pending(w, p)
  <2> DEFINE reactions == IF state = "fulfilled" THEN w.promises[p].fulfillReactions ELSE w.promises[p].rejectReactions
             v == Settle(w, p, state, value)
  <2>1. Joined(w, v, p, reactions)
    BY <1>2, SettleJoins
  <2>2. reactions \in Seq(ReactionsIn(n)) /\ reactions \in {w.promises[p].fulfillReactions, w.promises[p].rejectReactions}
    BY <1>0, Typed
  <2>3. Registered(reactions, p, par)
    <3>1. p \in DOMAIN w.promises
      BY <1>0, Typed
    <3> QED BY <1>2, <3>1 DEF Owes, RecordRight, Pending
  <2> HIDE DEF v, reactions
  <2>4. Owes(v, par, rea)
    BY <1>0, <1>2, <2>1, <2>2, <2>3, JoinedOwes
  <2>5. Passes(v, late \ {p})
    BY <1>0, <1>2, <2>1, <2>2, JoinedPasses
  <2> QED BY <2>4, <2>5 DEF v
<1> QED BY <1>1, <1>2

(* A reaction that nobody is owed changes nothing of what is. *)
LEMMA AppendedFacts ==
  ASSUME NEW n \in Nat, NEW s \in Seq(ReactionsIn(n)), NEW r \in ReactionsIn(n)
  PROVE  /\ DOMAIN s = 1..Len(s) /\ Len(s) \in Nat /\ DOMAIN Append(s, r) = 1..Len(s) + 1
         /\ \A i \in 1..Len(s) : i \in 1..Len(s) + 1 /\ Append(s, r)[i] = s[i] /\ Child(Append(s, r), i) = Child(s, i)
         /\ Append(s, r)[Len(s) + 1] = r /\ Len(s) + 1 \in 1..Len(s) + 1
         /\ Child(Append(s, r), Len(s) + 1) = r.downstream
         /\ \A i \in 1..Len(s) + 1 : i \in 1..Len(s) \/ i = Len(s) + 1
         /\ \A i \in 1..Len(s) : i < Len(s) + 1 /\ ~(Len(s) + 1 < i)
<1>1. DOMAIN s = 1..Len(s) /\ Len(s) \in Nat
  OBVIOUS
<1>2. /\ DOMAIN Append(s, r) = 1..Len(s) + 1 /\ Append(s, r)[Len(s) + 1] = r
      /\ \A i \in 1..Len(s) : Append(s, r)[i] = s[i]
  OBVIOUS
<1> QED BY <1>1, <1>2 DEF Child

LEMMA RegisteredAdd ==
  ASSUME NEW n \in Nat, NEW s \in Seq(ReactionsIn(n)), NEW r \in ReactionsIn(n), r.downstream = None,
         NEW q, NEW par, Registered(s, q, par)
  PROVE  Registered(Append(s, r), q, par)
<1> DEFINE t == Append(s, r)
<1>1. /\ DOMAIN s = 1..Len(s) /\ DOMAIN t = 1..Len(s) + 1
      /\ \A i \in DOMAIN s : i \in DOMAIN t /\ Child(t, i) = Child(s, i)
      /\ \A i \in DOMAIN t : i \in DOMAIN s \/ Child(t, i) = None
  BY AppendedFacts
<1> HIDE DEF t
<1>2. Registered(t, q, par)
  BY <1>1 DEF Registered
<1> QED BY <1>2 DEF t

(* The world with the record of q replaced. *)
Replaced(w, v, q, record) ==
  /\ DOMAIN v.promises = DOMAIN w.promises /\ v.promises[q] = record
  /\ \A p \in DOMAIN w.promises : p # q => v.promises[p] = w.promises[p]
  /\ v.queue = w.queue

Extended(record, a, b) ==
  [record EXCEPT !.fulfillReactions = Append(@, a), !.rejectReactions = Append(@, b)]

LEMMA AddReplaces ==
  ASSUME NEW n \in Nat, NEW w, IsWorld(w, n), NEW q \in 1..n, NEW a, NEW b
  PROVE  /\ Replaced(w, AddReactions(w, q, a, b), q, Extended(w.promises[q], a, b))
         /\ AddReactions(w, q, a, b).adopted = w.adopted
<1> DEFINE v == AddReactions(w, q, a, b)
<1>1. w.promises \in Seq(RecordsIn(n)) /\ Len(w.promises) = n /\ w \in Worlds(n)
  BY DEF IsWorld, Worlds
<1>2. w.promises[q] \in RecordsIn(n)
  BY <1>1
<1>3. v = [w EXCEPT !.promises[q] = Extended(w.promises[q], a, b)]
  BY <1>1, <1>2 DEF AddReactions, Extended, RecordsIn, Worlds
<1>4. v.promises = [w.promises EXCEPT ![q] = Extended(w.promises[q], a, b)] /\ v.queue = w.queue /\ v.adopted = w.adopted
  BY <1>1, <1>3 DEF Worlds
<1> HIDE DEF v
<1>5. Replaced(w, v, q, Extended(w.promises[q], a, b)) /\ v.adopted = w.adopted
  BY <1>1, <1>4 DEF Replaced
<1> QED BY <1>5 DEF v

LEMMA ExtendedFacts ==
  ASSUME NEW n, NEW record \in RecordsIn(n), NEW a, NEW b
  PROVE  /\ Extended(record, a, b).state = record.state /\ Extended(record, a, b).result = record.result
         /\ Extended(record, a, b).fulfillReactions = Append(record.fulfillReactions, a)
         /\ Extended(record, a, b).rejectReactions = Append(record.rejectReactions, b)
  BY DEF Extended, RecordsIn

(* What is said of the queue depends on who is pending only. *)
LEMMA ReplacedOwes ==
  ASSUME NEW n \in Nat, NEW w, IsWorld(w, n), NEW q \in 1..n, Pending(w, q), NEW v, NEW record,
         Replaced(w, v, q, record), record.state = "pending",
         NEW par \in Parents(n), NEW rea \in SUBSET (1..n), Owes(w, par, rea), RecordRight(record, q, par)
  PROVE  Owes(v, par, rea)
<1>1. DOMAIN w.promises = 1..n /\ DOMAIN v.promises = 1..n /\ v.queue = w.queue
  BY Typed DEF Replaced
<1>2. \A p \in 1..n : Pending(v, p) <=> Pending(w, p)
  BY <1>1 DEF Pending, Replaced
<1>3. \A c \in DOMAIN par : Owing(v, par, c) <=> Owing(w, par, c)
  BY <1>1, <1>2 DEF Owing, Owes
<1>4. \A p \in 1..n : RecordRight(v.promises[p], p, par)
  BY <1>1 DEF Replaced, Owes
<1>5. DOMAIN par = 1..n /\ \A i \in DOMAIN w.queue : For(v, i) = For(w, i) /\ For(w, i) \in Maybe(1..n)
  BY <1>1, Typed DEF Parents, For
<1>6. \A i \in DOMAIN w.queue : For(w, i) # None => For(w, i) \in DOMAIN par
  BY <1>5 DEF Maybe
<1>7. QueueRight(v, par, rea)
  BY <1>1, <1>3, <1>5, <1>6 DEF Owes, QueueRight
<1>8. ReactedRight(v, par, rea)
  BY <1>3, <1>5 DEF Owes, ReactedRight
<1> QED BY <1>1, <1>4, <1>7, <1>8 DEF Owes

(* Being resolved with q, p has two reactions of q's that tell it. *)
LEMMA AdoptOwes ==
  ASSUME NEW n \in 0..MaxPromises, NEW w, IsWorld(w, n), NEW p \in 1..n, NEW q \in 1..n, Pending(w, q),
         NEW par \in Parents(n), NEW rea \in SUBSET (1..n), Owes(w, par, rea), NEW late, Passes(w, late)
  PROVE  Owes(Adopt(w, p, q), par, rea) /\ Passes(Adopt(w, p, q), late)
<1> DEFINE a == NewReaction("resolve", p, None)
           b == NewReaction("reject", p, None)
           record == Extended(w.promises[q], a, b)
           u == AddReactions(w, q, a, b)
           v == Adopt(w, p, q)
           F == w.promises[q].fulfillReactions
           R == w.promises[q].rejectReactions
<1>1. n \in Nat /\ p # None
  BY PromiseAssumption, ValueAssumption DEF Value, Promise
<1>2. /\ a \in ReactionsIn(n) /\ a.downstream = None /\ Tells(a, {"resolve"}, p)
      /\ b \in ReactionsIn(n) /\ b.downstream = None /\ Tells(b, {"reject"}, p)
  <2>1. p \in Maybe(1..n) /\ None \in Maybe(1..n)
    BY DEF Maybe
  <2>2. a \in ReactionsIn(n) /\ b \in ReactionsIn(n)
    BY <1>1, <2>1, ReactionLemma DEF HandlerKinds
  <2> QED BY <2>2 DEF NewReaction, Tells
<1>3. /\ u.promises = v.promises /\ u.queue = v.queue /\ v.adopted = w.adopted \cup {<<p, q>>}
      /\ Replaced(w, u, q, record)
  BY <1>1, AddReplaces DEF Adopt
<1>4. F \in Seq(ReactionsIn(n)) /\ R \in Seq(ReactionsIn(n)) /\ DOMAIN w.promises = 1..n
      /\ w.promises[q] \in RecordsIn(n)
  BY <1>1, Typed, RecordIn
<1> HIDE DEF a, b, v, u
<1>5. record.state = "pending" /\ record.fulfillReactions = Append(F, a) /\ record.rejectReactions = Append(R, b)
  BY <1>4, ExtendedFacts DEF Pending
<1> HIDE DEF record
<1>6. Registered(F, q, par) /\ Registered(R, q, par)
  BY <1>4 DEF Owes, RecordRight, Pending
<1>7. RecordRight(record, q, par)
  <2>1. Registered(Append(F, a), q, par)
    BY <1>1, <1>2, <1>4, <1>6, RegisteredAdd
  <2>2. Registered(Append(R, b), q, par)
    BY <1>1, <1>2, <1>4, <1>6, RegisteredAdd
  <2> QED BY <1>5, <2>1, <2>2 DEF RecordRight
<1>8. Owes(u, par, rea)
  BY <1>1, <1>3, <1>5, <1>7, ReplacedOwes
<1>9. Owes(v, par, rea)
  BY <1>3, <1>8, SameOwes
<1>10. Passes(v, late)
  <2>1. /\ v.promises[q] = record /\ v.queue = w.queue
        /\ \A x \in 1..n : x # q => v.promises[x] = w.promises[x]
        /\ \A x \in 1..n : Pending(v, x) <=> Pending(w, x)
    BY <1>3, <1>4, <1>5 DEF Replaced, Pending
  <2>2. /\ DOMAIN Append(F, a) = 1..Len(F) + 1 /\ DOMAIN F \subseteq 1..Len(F) + 1
        /\ \A i \in DOMAIN F : Append(F, a)[i] = F[i]
        /\ Len(F) + 1 \in 1..Len(F) + 1 /\ Append(F, a)[Len(F) + 1] = a
    BY <1>1, <1>2, <1>4, AppendedFacts
  <2>3. /\ DOMAIN Append(R, b) = 1..Len(R) + 1 /\ DOMAIN R \subseteq 1..Len(R) + 1
        /\ \A i \in DOMAIN R : Append(R, b)[i] = R[i]
        /\ Len(R) + 1 \in 1..Len(R) + 1 /\ Append(R, b)[Len(R) + 1] = b
    BY <1>1, <1>2, <1>4, AppendedFacts
  <2>4. ASSUME NEW x \in 1..n, \/ x = p
                               \/ /\ \E i \in DOMAIN F : Tells(F[i], {"resolve"}, x)
                                  /\ \E i \in DOMAIN R : Tells(R[i], {"reject"}, x)
        PROVE  /\ \E i \in DOMAIN record.fulfillReactions : Tells(record.fulfillReactions[i], {"resolve"}, x)
               /\ \E i \in DOMAIN record.rejectReactions : Tells(record.rejectReactions[i], {"reject"}, x)
    <3> HIDE DEF F, R
    <3> QED BY <1>2, <1>5, <2>2, <2>3, <2>4
  <2>5. \A pq \in w.adopted : pq[1] \in 1..n /\ pq[2] \in 1..n
    BY <1>1, Typed
  <2>6. ASSUME NEW pq \in v.adopted, Pending(v, pq[2])
        PROVE  /\ \E i \in DOMAIN v.promises[pq[2]].fulfillReactions :
                    Tells(v.promises[pq[2]].fulfillReactions[i], {"resolve"}, pq[1])
               /\ \E i \in DOMAIN v.promises[pq[2]].rejectReactions :
                    Tells(v.promises[pq[2]].rejectReactions[i], {"reject"}, pq[1])
    <3>1. CASE pq = <<p, q>>
      <4>1. pq[1] = p /\ pq[2] = q
        BY <3>1
      <4> QED BY <2>1, <2>4, <4>1
    <3>2. CASE pq \in w.adopted /\ pq[2] = q
      <4>1. pq[1] \in 1..n /\ pq[2] = q
        BY <2>5, <3>2
      <4>2. /\ \E i \in DOMAIN F : Tells(F[i], {"resolve"}, pq[1])
            /\ \E i \in DOMAIN R : Tells(R[i], {"reject"}, pq[1])
        BY <3>2 DEF Passes
      <4> QED BY <2>1, <2>4, <4>1, <4>2
    <3>3. CASE pq \in w.adopted /\ pq[2] # q
      <4>1. v.promises[pq[2]] = w.promises[pq[2]] /\ Pending(w, pq[2])
        BY <2>1, <2>5, <2>6, <3>3
      <4> QED BY <3>3, <4>1 DEF Passes
    <3> QED BY <1>3, <2>6, <3>1, <3>2, <3>3
  <2>7. ASSUME NEW pq \in v.adopted, ~Pending(v, pq[2])
        PROVE  pq[1] \in late \/ ~Pending(v, pq[1])
               \/ \E i \in DOMAIN v.queue : Tells(v.queue[i].reaction, {"resolve", "reject"}, pq[1])
    <3>1. pq # <<p, q>>
      BY <2>1, <2>7
    <3>2. pq \in w.adopted /\ ~Pending(w, pq[2]) /\ (Pending(v, pq[1]) <=> Pending(w, pq[1]))
      BY <1>3, <2>1, <2>5, <2>7, <3>1
    <3> QED BY <2>1, <3>2 DEF Passes
  <2> QED BY <2>6, <2>7 DEF Passes
<1> QED BY <1>9, <1>10 DEF v

LEMMA ResolveOwes ==
  ASSUME NEW n \in 0..MaxPromises, NEW w, IsWorld(w, n), NEW p \in 1..n, NEW value \in Known(n),
         NEW par \in Parents(n), NEW rea \in SUBSET (1..n), Owes(w, par, rea), NEW late, Passes(w, late)
  PROVE  /\ Owes(Resolve(w, p, value), par, rea) /\ Passes(Resolve(w, p, value), late)
         /\ value \in Final => Passes(Resolve(w, p, value), late \ {p})
<1>0. /\ n \in Nat /\ 1..n \subseteq Promise /\ (value \in Promise => value \in 1..n)
      /\ Final \cap Promise = {} /\ Thenable \notin Final /\ CycleError \in Final
  BY PromiseAssumption, ValueAssumption DEF Known, Promise, Final
<1>1. ASSUME NEW v, Passes(v, late \ {p}) PROVE Passes(v, late)
  BY <1>1 DEF Passes
<1>2. CASE value = p
  BY <1>0, <1>1, <1>2, SettleOwes DEF Resolve
<1>3. CASE value # p /\ value \in Promise /\ Pending(w, value)
  BY <1>0, <1>3, AdoptOwes DEF Resolve
<1>4. CASE value # p /\ value \in Promise /\ ~Pending(w, value)
  <2>1. w.promises[value].state \in {"fulfilled", "rejected"}
    BY <1>0, <1>4, RecordIn DEF Pending, States
  <2>2. w.promises[value].result \in Final
    <3>1. value \in DOMAIN w.promises
      BY <1>0, <1>4, Typed
    <3> QED BY <1>4, <3>1 DEF Owes, RecordRight, Pending
  <2> QED BY <1>0, <1>1, <1>4, <2>1, <2>2, SettleOwes DEF Resolve
<1>5. CASE value # p /\ value \notin Promise /\ IsThenable(value)
  <2> DEFINE v == Resolve(w, p, value)
  <2>1. v.promises = w.promises /\ v.queue = w.queue /\ v.adopted = w.adopted
    BY <1>5 DEF Resolve
  <2> HIDE DEF v
  <2>2. Owes(v, par, rea) /\ Passes(v, late) /\ value \notin Final
    BY <1>0, <1>5, <2>1, SameOwes, SamePasses DEF IsThenable
  <2> QED BY <2>2 DEF v
<1>6. CASE value # p /\ value \notin Promise /\ ~IsThenable(value)
  <2>1. value \in Final
    BY <1>0, <1>6 DEF Known, IsThenable, Final
  <2> QED BY <1>1, <1>6, <2>1, SettleOwes DEF Resolve
<1> QED BY <1>2, <1>3, <1>4, <1>5, <1>6

(* A new promise is nobody's child, until then() says whose. *)
LEMMA CreatedOwes ==
  ASSUME NEW n \in Nat, None \notin 1..n + 1, NEW w, IsWorld(w, n), NEW par \in Parents(n), NEW rea \in SUBSET (1..n),
         Owes(w, par, rea), Passes(w, {}), NEW v,
         v.promises = Append(w.promises, NewPromise), v.queue = w.queue, v.adopted = w.adopted
  PROVE  /\ Owes(v, Append(par, None), rea) /\ Passes(v, {})
         /\ Append(par, None) \in Parents(n + 1) /\ Append(par, None)[n + 1] = None
<1> DEFINE par2 == Append(par, None)
<1>1. /\ v.promises = Append(w.promises, NewPromise) /\ v.queue = w.queue /\ v.adopted = w.adopted
      /\ w.promises \in Seq(RecordsIn(n)) /\ Len(w.promises) = n /\ w.adopted \subseteq (1..n) \X (1..n)
  BY DEF IsWorld, Worlds
<1>2. NewPromise \in RecordsIn(n)
  BY DEF NewPromise, RecordsIn, States, Maybe
<1>3. /\ DOMAIN w.promises = 1..n /\ DOMAIN v.promises = 1..n + 1 /\ v.promises[n + 1] = NewPromise
      /\ \A p \in 1..n : v.promises[p] = w.promises[p] /\ p \in 1..n + 1
      /\ \A p \in 1..n + 1 : p \in 1..n \/ p = n + 1
      /\ n + 1 \notin 1..n
  BY <1>1, <1>2
<1>4. par \in Seq(Maybe(Promise)) /\ Len(par) = n /\ None \in Maybe(Promise)
  BY DEF Parents, Maybe
<1>5. /\ par2 \in Parents(n + 1) /\ DOMAIN par = 1..n /\ DOMAIN par2 = 1..n + 1 /\ par2[n + 1] = None
      /\ \A c \in 1..n : par2[c] = par[c]
  BY <1>4 DEF Parents
<1> HIDE DEF par2
<1>6. \A c \in 1..n : par[c] # None => par[c] \in 1..n
  BY <1>3, <1>5 DEF Owes
<1>7. \A p \in 1..n : Pending(v, p) <=> Pending(w, p)
  BY <1>3 DEF Pending
<1>8. /\ \A c \in 1..n : Owing(v, par2, c) <=> Owing(w, par, c)
      /\ ~Owing(v, par2, n + 1)
  BY <1>5, <1>6, <1>7 DEF Owing
<1>9. ASSUME NEW s \in Seq(ReactionsIn(n)), NEW q \in 1..n, Registered(s, q, par) PROVE Registered(s, q, par2)
  <2>1. \A i \in DOMAIN s : Child(s, i) # None => Child(s, i) \in 1..n
    BY ChildTyped DEF Maybe
  <2>2. q # None
    BY <1>3
  <2> QED BY <1>3, <1>5, <1>9, <2>1, <2>2 DEF Registered
<1>10. \A p \in 1..n : RecordRight(v.promises[p], p, par2)
  <2> SUFFICES ASSUME NEW p \in 1..n PROVE RecordRight(w.promises[p], p, par2)
    BY <1>3
  <2>1. RecordRight(w.promises[p], p, par)
    BY <1>3 DEF Owes
  <2>2. w.promises[p].fulfillReactions \in Seq(ReactionsIn(n)) /\ w.promises[p].rejectReactions \in Seq(ReactionsIn(n))
    BY RecordIn
  <2> QED BY <1>9, <2>1, <2>2 DEF RecordRight
<1>11. RecordRight(v.promises[n + 1], n + 1, par2)
  <2>1. \A c \in 1..n + 1 : par2[c] # n + 1
    BY <1>3, <1>5, <1>6
  <2> QED BY <1>3, <1>5, <2>1 DEF RecordRight, NewPromise, Registered
<1>12. QueueRight(v, par2, rea)
  <2>1. /\ DOMAIN v.queue = DOMAIN w.queue
        /\ \A i \in DOMAIN w.queue : v.queue[i] = w.queue[i] /\ For(v, i) = For(w, i)
                                    /\ (For(w, i) # None => For(w, i) \in 1..n)
    BY <1>1, Typed DEF For, Maybe
  <2>2. QueueRight(w, par, rea)
    BY DEF Owes
  <2>3. ASSUME NEW i \in DOMAIN w.queue
        PROVE  /\ v.queue[i].argument \in Final \cup {None}
               /\ For(v, i) # None => Owing(v, par2, For(v, i)) /\ For(v, i) \notin rea
    BY <1>8, <2>1, <2>2 DEF QueueRight
  <2>4. ASSUME NEW i \in DOMAIN w.queue, NEW j \in DOMAIN w.queue, i < j, For(v, i) # None, For(v, j) # None,
               par2[For(v, i)] = par2[For(v, j)]
        PROVE  For(v, i) < For(v, j)
    <3>1. par[For(w, i)] = par[For(w, j)] /\ For(w, i) # None /\ For(w, j) # None
      BY <1>5, <2>1, <2>4
    <3> QED BY <2>1, <2>2, <2>4, <3>1 DEF QueueRight
  <2>5. ASSUME NEW c \in 1..n + 1, Owing(v, par2, c)
        PROVE  c \in rea \/ \E i \in DOMAIN w.queue : For(v, i) = c
    <3>1. c \in 1..n /\ Owing(w, par, c)
      BY <1>3, <1>8, <2>5
    <3> QED BY <1>5, <2>1, <2>2, <3>1 DEF QueueRight
  <2> QED BY <1>5, <2>1, <2>3, <2>4, <2>5 DEF QueueRight
<1>13. ReactedRight(v, par2, rea)
  <2> SUFFICES ASSUME NEW c \in rea
               PROVE  Owing(v, par2, c) /\ \A b \in DOMAIN par2 : b < c /\ par2[b] = par2[c] => b \in rea
    BY DEF ReactedRight
  <2>1. c \in 1..n /\ ~(n + 1 < c) /\ Owing(w, par, c) /\ \A b \in 1..n : b < c /\ par[b] = par[c] => b \in rea
    BY <1>5 DEF Owes, ReactedRight
  <2> QED BY <1>3, <1>5, <1>8, <2>1
<1>14. Owes(v, par2, rea)
  BY <1>3, <1>5, <1>6, <1>10, <1>11, <1>12, <1>13 DEF Owes
<1>15. Passes(v, {})
  <2>1. \A pq \in w.adopted : pq[1] \in 1..n /\ pq[2] \in 1..n
    BY <1>1
  <2>2. \A q \in 1..n : v.promises[q] = w.promises[q]
    BY <1>3
  <2> QED BY <1>1, <1>7, <2>1, <2>2 DEF Passes
<1> QED BY <1>5, <1>14, <1>15 DEF par2

(* then() owes its child, the last promise, one reaction. *)
LEMMA RegisteredChild ==
  ASSUME NEW n \in Nat, NEW s \in Seq(ReactionsIn(n)), NEW r \in ReactionsIn(n), r.downstream = n,
         NEW p \in 1..n, NEW par, DOMAIN par = 1..n, NEW par2, DOMAIN par2 = 1..n, par2[n] = p,
         \A c \in 1..n : c # n => par2[c] = par[c], n # None, par[n] = None, p # None, Registered(s, p, par)
  PROVE  Registered(Append(s, r), p, par2)
<1> DEFINE t == Append(s, r)
           m == Len(s) + 1
<1>1. /\ DOMAIN s = 1..Len(s) /\ DOMAIN t = 1..m /\ m \in 1..m /\ Child(t, m) = n
      /\ \A i \in 1..Len(s) : i \in 1..m /\ Child(t, i) = Child(s, i) /\ ~(m < i)
      /\ \A i \in 1..m : i \in 1..Len(s) \/ i = m
      /\ m \in Nat
  BY AppendedFacts
<1>2. \A i \in 1..Len(s) : Child(s, i) # None => Child(s, i) \in 1..n /\ Child(s, i) # n /\ par[Child(s, i)] = p
  <2>1. \A i \in 1..Len(s) : Child(s, i) # None => par[Child(s, i)] = p
    BY <1>1 DEF Registered
  <2>2. \A i \in 1..Len(s) : Child(s, i) \in Maybe(1..n)
    BY ChildTyped
  <2> QED BY <2>1, <2>2 DEF Maybe
<1>3. \A i \in 1..Len(s) : Child(s, i) # None => Child(s, i) < n
  <2>1. \A c \in 1..n : c # n => c < n
    OBVIOUS
  <2> QED BY <1>2, <2>1
<1> HIDE DEF t, m
<1>4. \A i \in DOMAIN t : Child(t, i) # None => par2[Child(t, i)] = p
  BY <1>1, <1>2
<1>5. ~(m < m)
  BY <1>1
<1>6. \A i, j \in DOMAIN t : i < j /\ Child(t, i) # None /\ Child(t, j) # None => Child(t, i) < Child(t, j)
  BY <1>1, <1>3, <1>5 DEF Registered
<1>7. \A c \in DOMAIN par2 : par2[c] = p => \E i \in DOMAIN t : Child(t, i) = c
  <2> SUFFICES ASSUME NEW c \in 1..n, par2[c] = p PROVE \E i \in DOMAIN t : Child(t, i) = c
    OBVIOUS
  <2>1. CASE c = n
    BY <1>1, <2>1
  <2>2. CASE c # n
    BY <1>1, <2>2 DEF Registered
  <2> QED BY <2>1, <2>2
<1>8. Registered(t, p, par2)
  BY <1>4, <1>6, <1>7 DEF Registered
<1> QED BY <1>8 DEF t

LEMMA ReactOwes ==
  ASSUME NEW n \in 1..MaxPromises, hasQueue, NEW w, IsWorld(w, n), NEW p \in 1..n, p # n,
         NEW x \in ReactionsIn(n), NEW y \in ReactionsIn(n), x.downstream = n, y.downstream = n,
         x.handler \notin {"resolve", "reject"}, y.handler \notin {"resolve", "reject"},
         NEW par \in Parents(n), par[n] = None, NEW rea \in SUBSET (1..n), Owes(w, par, rea), Passes(w, {}),
         NEW par2, par2 = [par EXCEPT ![n] = p]
  PROVE  Owes(React(w, p, x, y), par2, rea) /\ Passes(React(w, p, x, y), {})
<1> DEFINE v == React(w, p, x, y)
           L == Len(w.queue)
<1>1. /\ n \in Nat /\ n \in 1..n /\ \A c \in 1..n : c # None
  BY PromiseAssumption, ValueAssumption DEF Value, Promise
<1>2. /\ DOMAIN par = 1..n /\ DOMAIN par2 = 1..n /\ par2[n] = p /\ \A c \in 1..n : c # n => par2[c] = par[c]
  BY <1>1 DEF Parents
<1>3. /\ DOMAIN w.promises = 1..n /\ w.queue \in Seq(JobsIn(n)) /\ DOMAIN w.queue = 1..L /\ L \in Nat
      /\ w.adopted \subseteq (1..n) \X (1..n)
      /\ \A i \in 1..L : For(w, i) # None => For(w, i) \in 1..n
      /\ w.promises[p] \in RecordsIn(n)
      /\ \A q \in 1..n : /\ w.promises[q].fulfillReactions \in Seq(ReactionsIn(n))
                         /\ w.promises[q].rejectReactions \in Seq(ReactionsIn(n))
  BY <1>1, Typed, RecordIn DEF Maybe
<1>4. /\ \A c \in 1..n : par[c] # None => par[c] \in 1..n
      /\ \A c \in 1..n : par2[c] # None => par2[c] \in 1..n
  BY <1>1, <1>2, <1>3 DEF Owes
<1>5. ~Owing(w, par, n) /\ n \notin rea
  <2>1. ~Owing(w, par, n)
    BY DEF Owing
  <2> QED BY <2>1 DEF Owes, ReactedRight
<1>6. \A i \in 1..L : For(w, i) # None => /\ For(w, i) # n /\ For(w, i) < n /\ Owing(w, par, For(w, i)) /\ For(w, i) \notin rea
  <2>1. \A i \in 1..L : For(w, i) # None => Owing(w, par, For(w, i)) /\ For(w, i) \notin rea
    BY <1>3 DEF Owes, QueueRight
  <2>2. \A i \in 1..L : For(w, i) # None => For(w, i) \in 1..n /\ For(w, i) # n
    BY <1>3, <1>5, <2>1
  <2>3. \A c \in 1..n : c # n => c < n
    BY <1>1
  <2> QED BY <2>1, <2>2, <2>3
<1>7. \A c \in rea : c \in 1..n /\ c # n
  BY <1>5
<1>8. ASSUME NEW s \in Seq(ReactionsIn(n)), NEW q \in 1..n, q # p, Registered(s, q, par) PROVE Registered(s, q, par2)
  <2>1. \A i \in DOMAIN s : Child(s, i) # None => Child(s, i) \in 1..n /\ par[Child(s, i)] = q
    BY <1>1, <1>8, ChildTyped DEF Maybe, Registered
  <2>2. q # None
    BY <1>1
  <2>3. \A i \in DOMAIN s : Child(s, i) # None => par2[Child(s, i)] = q
    BY <1>2, <2>1, <2>2
  <2>4. \A c \in 1..n : par2[c] = q => par[c] = q
    BY <1>2, <1>8
  <2> QED BY <1>2, <1>8, <2>3, <2>4 DEF Registered
<1>9. ASSUME NEW q \in 1..n, q # p PROVE RecordRight(w.promises[q], q, par2)
  <2>1. RecordRight(w.promises[q], q, par)
    BY <1>3 DEF Owes
  <2> QED BY <1>3, <1>8, <1>9, <2>1 DEF RecordRight
<1>10. \A c \in 1..n : Owing(w, par2, c) <=> Owing(w, par, c) \/ (c = n /\ ~Pending(w, p))
  BY <1>1, <1>2, <1>5 DEF Owing
<1>11. CASE Pending(w, p)
  <2> DEFINE record == Extended(w.promises[p], x, y)
  <2>1. v = AddReactions(w, p, x, y)
    BY <1>11 DEF React, Pending
  <2>2. Replaced(w, v, p, record) /\ v.adopted = w.adopted
    BY <1>1, <2>1, AddReplaces
  <2>3. /\ record.state = "pending" /\ record.fulfillReactions = Append(w.promises[p].fulfillReactions, x)
        /\ record.rejectReactions = Append(w.promises[p].rejectReactions, y)
    BY <1>3, <1>11, ExtendedFacts DEF Pending
  <2> HIDE DEF record, v
  <2>4. RecordRight(record, p, par2)
    <3>1. Registered(w.promises[p].fulfillReactions, p, par) /\ Registered(w.promises[p].rejectReactions, p, par)
      BY <1>3, <1>11 DEF Owes, RecordRight, Pending
    <3>2. Registered(Append(w.promises[p].fulfillReactions, x), p, par2)
      BY <1>1, <1>2, <1>3, <3>1, RegisteredChild
    <3>3. Registered(Append(w.promises[p].rejectReactions, y), p, par2)
      BY <1>1, <1>2, <1>3, <3>1, RegisteredChild
    <3> QED BY <2>3, <3>2, <3>3 DEF RecordRight
  <2>5. DOMAIN v.promises = 1..n /\ v.queue = w.queue /\ \A q \in 1..n : q # p => v.promises[q] = w.promises[q]
    BY <1>3, <2>2 DEF Replaced
  <2>6. \A q \in 1..n : Pending(v, q) <=> Pending(w, q)
    BY <1>11, <2>2, <2>3, <2>5 DEF Replaced, Pending
  <2>7. \A c \in 1..n : Owing(v, par2, c) <=> Owing(w, par, c)
    BY <1>4, <1>10, <1>11, <2>6 DEF Owing
  <2>8. \A q \in 1..n : RecordRight(v.promises[q], q, par2)
    BY <1>9, <2>2, <2>4, <2>5 DEF Replaced
  <2>9. QueueRight(v, par2, rea)
    <3>1. \A i \in 1..L : For(v, i) = For(w, i)
      BY <2>5 DEF For
    <3>2. \A i \in 1..L : For(w, i) # None => par2[For(w, i)] = par[For(w, i)]
      BY <1>2, <1>3, <1>6
    <3>3. \A i \in 1..L : /\ w.queue[i].argument \in Final \cup {None}
                          /\ For(w, i) # None => Owing(v, par2, For(w, i)) /\ For(w, i) \notin rea
      BY <1>3, <1>6, <2>7 DEF Owes, QueueRight
    <3>4. \A i, j \in 1..L :
            i < j /\ For(w, i) # None /\ For(w, j) # None /\ par2[For(w, i)] = par2[For(w, j)] => For(w, i) < For(w, j)
      BY <1>3, <3>2 DEF Owes, QueueRight
    <3>5. \A c \in 1..n : Owing(v, par2, c) => c \in rea \/ \E i \in 1..L : For(w, i) = c
      BY <1>2, <1>3, <2>7 DEF Owes, QueueRight
    <3> QED BY <1>2, <1>3, <2>5, <3>1, <3>3, <3>4, <3>5 DEF QueueRight
  <2>10. ReactedRight(v, par2, rea)
    <3> SUFFICES ASSUME NEW c \in rea, NEW b \in 1..n, b < c, par2[b] = par2[c] PROVE b \in rea
      BY <1>2, <1>7, <2>7 DEF Owes, ReactedRight
    <3>1. b # n
      BY <1>1, <1>7
    <3> QED BY <1>2, <1>7, <3>1 DEF Owes, ReactedRight
  <2>11. Owes(v, par2, rea)
    BY <1>2, <1>4, <2>5, <2>8, <2>9, <2>10 DEF Owes
  <2>12. Passes(v, {})
    <3>1. \A pq \in w.adopted : pq[1] \in 1..n /\ pq[2] \in 1..n
      BY <1>3
    <3> SUFFICES ASSUME NEW pq \in w.adopted
                 PROVE  IF Pending(v, pq[2])
                        THEN /\ \E i \in DOMAIN v.promises[pq[2]].fulfillReactions :
                                  Tells(v.promises[pq[2]].fulfillReactions[i], {"resolve"}, pq[1])
                             /\ \E i \in DOMAIN v.promises[pq[2]].rejectReactions :
                                  Tells(v.promises[pq[2]].rejectReactions[i], {"reject"}, pq[1])
                        ELSE ~Pending(v, pq[1])
                             \/ \E i \in DOMAIN v.queue : Tells(v.queue[i].reaction, {"resolve", "reject"}, pq[1])
      BY <2>2 DEF Passes
    <3>2. CASE ~Pending(w, pq[2])
      BY <2>5, <2>6, <3>1, <3>2 DEF Passes
    <3>3. CASE Pending(w, pq[2]) /\ pq[2] # p
      BY <2>5, <2>6, <3>1, <3>3 DEF Passes
    <3>4. CASE Pending(w, pq[2]) /\ pq[2] = p
      <4> DEFINE F == w.promises[p].fulfillReactions
                 R == w.promises[p].rejectReactions
      <4>1. /\ \E i \in DOMAIN F : Tells(F[i], {"resolve"}, pq[1])
            /\ \E i \in DOMAIN R : Tells(R[i], {"reject"}, pq[1])
        BY <3>4 DEF Passes
      <4>2. F \in Seq(ReactionsIn(n)) /\ R \in Seq(ReactionsIn(n))
        BY <1>3
      <4> HIDE DEF F, R
      <4>3. /\ \A i \in DOMAIN F : i \in DOMAIN Append(F, x) /\ Append(F, x)[i] = F[i]
            /\ \A i \in DOMAIN R : i \in DOMAIN Append(R, y) /\ Append(R, y)[i] = R[i]
        BY <1>1, <4>2, AppendedFacts
      <4>4. /\ v.promises[pq[2]].fulfillReactions = Append(F, x) /\ v.promises[pq[2]].rejectReactions = Append(R, y)
        BY <2>2, <2>3, <3>4 DEF Replaced, F, R
      <4>5. Pending(v, pq[2])
        BY <2>6, <3>1, <3>4
      <4> QED BY <4>1, <4>3, <4>4, <4>5
    <3> QED BY <3>2, <3>3, <3>4
  <2> QED BY <2>11, <2>12 DEF v
<1>12. CASE ~Pending(w, p)
  <2> DEFINE it == w.promises[p]
             job == IF it.state = "fulfilled" THEN NewJob(x, it.result, FALSE) ELSE NewJob(y, it.result, TRUE)
  <2>1. v = [w EXCEPT !.queue = Append(@, job)]
    BY <1>12 DEF React, Pending
  <2>2. v.promises = w.promises /\ v.adopted = w.adopted /\ v.queue = Append(w.queue, job)
    BY <2>1 DEF IsWorld, Worlds
  <2>3. it.result \in Final
    BY <1>3, <1>12 DEF Owes, RecordRight, Pending
  <2>4. job.reaction.downstream = n /\ job.argument \in Final
    BY <2>3 DEF NewJob
  <2> HIDE DEF job, it, v
  <2>5. /\ DOMAIN v.queue = 1..L + 1 /\ v.queue[L + 1] = job /\ L + 1 \in 1..L + 1
        /\ \A i \in 1..L : i \in 1..L + 1 /\ v.queue[i] = w.queue[i] /\ ~(L + 1 < i)
        /\ \A i \in 1..L + 1 : i \in 1..L \/ i = L + 1
        /\ ~(L + 1 < L + 1)
    BY <1>3, <2>2
  <2>6. /\ \A i \in 1..L : For(v, i) = For(w, i)
        /\ For(v, L + 1) = n
    BY <2>4, <2>5 DEF For
  <2>7. \A c \in 1..n : Owing(v, par2, c) <=> Owing(w, par, c) \/ c = n
    BY <1>10, <1>12, <2>2 DEF Owing, Pending
  <2>8. \A i \in 1..L : For(w, i) # None => par2[For(w, i)] = par[For(w, i)]
    BY <1>2, <1>3, <1>6
  <2>9. \A i \in 1..L + 1 : /\ v.queue[i].argument \in Final \cup {None}
                            /\ For(v, i) # None => Owing(v, par2, For(v, i)) /\ For(v, i) \notin rea
    <3>1. \A i \in 1..L : w.queue[i].argument \in Final \cup {None}
      BY <1>3 DEF Owes, QueueRight
    <3> QED BY <1>1, <1>3, <1>5, <1>6, <2>4, <2>5, <2>6, <2>7, <3>1
  <2>10. \A i, j \in 1..L + 1 :
           i < j /\ For(v, i) # None /\ For(v, j) # None /\ par2[For(v, i)] = par2[For(v, j)] => For(v, i) < For(v, j)
    <3>1. \A i, j \in 1..L : i < j /\ For(w, i) # None /\ For(w, j) # None /\ par[For(w, i)] = par[For(w, j)]
            => For(w, i) < For(w, j)
      BY <1>3 DEF Owes, QueueRight
    <3> QED BY <1>6, <2>5, <2>6, <2>8, <3>1
  <2>11. \A c \in 1..n : Owing(v, par2, c) => c \in rea \/ \E i \in 1..L + 1 : For(v, i) = c
    <3>1. \A c \in 1..n : Owing(w, par, c) => c \in rea \/ \E i \in 1..L : For(w, i) = c
      BY <1>2, <1>3 DEF Owes, QueueRight
    <3> QED BY <2>5, <2>6, <2>7, <3>1
  <2>12. QueueRight(v, par2, rea)
    BY <1>2, <2>5, <2>9, <2>10, <2>11 DEF QueueRight
  <2>13. ReactedRight(v, par2, rea)
    <3> SUFFICES ASSUME NEW c \in rea, NEW b \in 1..n, b < c, par2[b] = par2[c] PROVE b \in rea
      BY <1>2, <1>7, <2>7 DEF Owes, ReactedRight
    <3>1. b # n
      BY <1>1, <1>7
    <3> QED BY <1>2, <1>7, <3>1 DEF Owes, ReactedRight
  <2>14. RecordRight(w.promises[p], p, par2)
    BY <1>3, <1>12 DEF Owes, RecordRight, Pending
  <2>15. \A q \in 1..n : RecordRight(v.promises[q], q, par2)
    BY <1>9, <2>2, <2>14
  <2>16. Owes(v, par2, rea)
    BY <1>2, <1>3, <1>4, <2>2, <2>12, <2>13, <2>15 DEF Owes
  <2>17. Passes(v, {})
    BY <1>3, <2>2, <2>5 DEF Passes, Pending
  <2> QED BY <2>16, <2>17 DEF v
<1> QED BY <1>11, <1>12

(* The children that have reacted once a task for c was taken, and whom it *)
(* is to tell.                                                             *)
Reacting(rea, c) == IF c = None THEN rea ELSE rea \cup {c}
Late(r) == IF r.handler \in {"resolve", "reject"} THEN {r.of} ELSE {}

(* Taken from the queue, a task makes its promise one that has reacted,    *)
(* and whoever it is to tell is told late.                                 *)
LEMMA TakenOwes ==
  ASSUME NEW n \in Nat, None \notin 1..n, NEW w, IsWorld(w, n), w.queue # <<>>, NEW v,
         v.promises = w.promises, v.adopted = w.adopted, DOMAIN v.queue = 1..Len(w.queue) - 1,
         \A i \in 1..Len(w.queue) - 1 : v.queue[i] = w.queue[i + 1],
         NEW par \in Parents(n), NEW rea \in SUBSET (1..n), Owes(w, par, rea), Passes(w, {}),
         NEW job, job = w.queue[1]
  PROVE  /\ Owes(v, par, Reacting(rea, job.reaction.downstream))
         /\ Reacting(rea, job.reaction.downstream) \in SUBSET (1..n)
         /\ Passes(v, Late(job.reaction)) /\ job.argument \in Final \cup {None}
<1> DEFINE L == Len(w.queue)
           c == job.reaction.downstream
           rea2 == Reacting(rea, c)
<1>1. /\ DOMAIN w.promises = 1..n /\ DOMAIN w.queue = 1..L /\ L \in Nat /\ L # 0 /\ 1 \in 1..L
      /\ DOMAIN par = 1..n
      /\ \A i \in 1..L : For(w, i) # None => For(w, i) \in 1..n
      /\ w.adopted \subseteq (1..n) \X (1..n)
  <2>1. w.queue \in Seq(JobsIn(n)) /\ DOMAIN par = 1..n
    BY Typed DEF Parents
  <2> QED BY <2>1, Typed DEF Maybe
<1>2. /\ \A i \in 1..L - 1 : i + 1 \in 1..L /\ 1 < i + 1 /\ For(v, i) = For(w, i + 1) /\ v.queue[i] = w.queue[i + 1]
      /\ \A i \in 1..L : i # 1 => i - 1 \in 1..L - 1 /\ v.queue[i - 1] = w.queue[i] /\ For(v, i - 1) = For(w, i)
      /\ \A i, j \in 1..L - 1 : i < j => i + 1 < j + 1
  <2>1. /\ \A i \in 1..L - 1 : i + 1 \in 1..L /\ 1 < i + 1
        /\ \A i \in 1..L : i # 1 => i - 1 \in 1..L - 1 /\ (i - 1) + 1 = i
        /\ \A i, j \in 1..L - 1 : i < j => i + 1 < j + 1
    BY <1>1
  <2>2. \A i \in 1..L - 1 : v.queue[i] = w.queue[i + 1] /\ For(v, i) = For(w, i + 1)
    BY DEF For
  <2>3. \A i \in 1..L : i # 1 => v.queue[i - 1] = w.queue[i] /\ For(v, i - 1) = For(w, i)
    BY <2>1, <2>2
  <2> QED BY <2>1, <2>2, <2>3
<1>3. c = For(w, 1)
  BY DEF For
<1>4. /\ \A i \in 1..L : /\ w.queue[i].argument \in Final \cup {None}
                         /\ For(w, i) # None => Owing(w, par, For(w, i)) /\ For(w, i) \notin rea
      /\ \A i, j \in 1..L : i < j /\ For(w, i) # None /\ For(w, j) # None /\ par[For(w, i)] = par[For(w, j)]
           => For(w, i) < For(w, j)
      /\ \A b \in 1..n : Owing(w, par, b) => b \in rea \/ \E i \in 1..L : For(w, i) = b
  BY <1>1 DEF Owes, QueueRight
<1>5. \A i \in 1..L : i # 1 /\ For(w, i) # None => For(w, i) # c
  <2> SUFFICES ASSUME NEW i \in 1..L, i # 1, For(w, i) # None, For(w, i) = c PROVE FALSE
    OBVIOUS
  <2>1. 1 < i /\ c \in 1..n
    BY <1>1
  <2>2. c < c
    BY <1>1, <1>3, <1>4, <2>1
  <2> QED BY <2>1, <2>2
<1>6. \A b : Owing(v, par, b) <=> Owing(w, par, b)
  BY DEF Owing, Pending
<1>7. rea2 \in SUBSET (1..n) /\ rea \subseteq rea2 /\ (c # None => c \in rea2) /\ \A b \in rea2 : b \in rea \/ (b = c /\ c # None)
  BY <1>1, <1>3 DEF Reacting
<1> HIDE DEF L, c, rea2
<1>8. ASSUME NEW i \in 1..L - 1
      PROVE  /\ v.queue[i].argument \in Final \cup {None}
             /\ For(v, i) # None => Owing(v, par, For(v, i)) /\ For(v, i) \notin rea2
  <2>1. i + 1 \in 1..L /\ i + 1 # 1 /\ For(v, i) = For(w, i + 1) /\ v.queue[i] = w.queue[i + 1]
    BY <1>2
  <2> QED BY <1>4, <1>5, <1>6, <1>7, <2>1
<1>9. ASSUME NEW i \in 1..L - 1, NEW j \in 1..L - 1, i < j, For(v, i) # None, For(v, j) # None,
             par[For(v, i)] = par[For(v, j)]
      PROVE  For(v, i) < For(v, j)
  <2>1. i + 1 \in 1..L /\ j + 1 \in 1..L /\ i + 1 < j + 1 /\ For(v, i) = For(w, i + 1) /\ For(v, j) = For(w, j + 1)
    BY <1>2, <1>9
  <2> QED BY <1>4, <1>9, <2>1
<1>10. ASSUME NEW b \in 1..n, Owing(v, par, b)
       PROVE  b \in rea2 \/ \E i \in 1..L - 1 : For(v, i) = b
  <2>1. CASE b \in rea
    BY <1>7, <2>1
  <2>2. CASE b \notin rea
    <3>1. PICK i \in 1..L : For(w, i) = b
      BY <1>4, <1>6, <1>10, <2>2
    <3>2. CASE i = 1
      BY <1>3, <1>7, <3>1, <3>2
    <3>3. CASE i # 1
      BY <1>2, <3>1, <3>3
    <3> QED BY <3>2, <3>3
  <2> QED BY <2>1, <2>2
<1>11. QueueRight(v, par, rea2)
  <2>1. DOMAIN v.queue = 1..L - 1
    BY DEF L
  <2> QED BY <1>1, <1>8, <1>9, <1>10, <2>1 DEF QueueRight
<1>12. ReactedRight(v, par, rea2)
  <2> SUFFICES ASSUME NEW b \in rea2
               PROVE  Owing(v, par, b) /\ \A d \in 1..n : d < b /\ par[d] = par[b] => d \in rea2
    BY <1>1 DEF ReactedRight
  <2>1. CASE b \in rea
    BY <1>1, <1>6, <1>7, <2>1 DEF Owes, ReactedRight
  <2>2. CASE b = c /\ c # None
    <3>1. Owing(w, par, c) /\ c \in 1..n
      BY <1>1, <1>3, <1>4, <2>2
    <3>2. ASSUME NEW d \in 1..n, d < c, par[d] = par[c] PROVE d \in rea
      <4>1. Owing(w, par, d)
        BY <3>1, <3>2 DEF Owing
      <4> SUFFICES ASSUME NEW i \in 1..L, For(w, i) = d PROVE FALSE
        BY <1>4, <4>1
      <4>2. d # None /\ i # 1
        BY <1>3, <3>1, <3>2
      <4>3. 1 < i
        BY <1>1, <4>2
      <4>4. c < d
        BY <1>1, <1>3, <1>4, <2>2, <3>2, <4>2, <4>3
      <4> QED BY <3>1, <3>2, <4>4
    <3> QED BY <1>6, <1>7, <2>2, <3>1, <3>2
  <2> QED BY <1>7, <2>1, <2>2
<1>13. Owes(v, par, rea2)
  BY <1>11, <1>12 DEF Owes
<1>14. Passes(v, Late(job.reaction))
  <2>1. DOMAIN v.queue = 1..L - 1
    BY DEF L
  <2>2. ASSUME NEW x, NEW i \in 1..L, Tells(w.queue[i].reaction, {"resolve", "reject"}, x)
        PROVE  \/ x \in Late(job.reaction)
               \/ \E k \in DOMAIN v.queue : Tells(v.queue[k].reaction, {"resolve", "reject"}, x)
    <3>1. CASE i = 1
      BY <2>2, <3>1 DEF Tells, Late
    <3>2. CASE i # 1
      BY <1>2, <2>1, <2>2, <3>2
    <3> QED BY <3>1, <3>2
  <2>3. \A p : Pending(v, p) <=> Pending(w, p)
    BY DEF Pending
  <2> QED BY <1>1, <2>2, <2>3 DEF Passes
<1> QED BY <1>1, <1>4, <1>7, <1>13, <1>14 DEF rea2, c

LEMMA SettlingOwes ==
  ASSUME NEW n \in 0..MaxPromises, NEW w, IsWorld(w, n), NEW job \in JobsIn(n), job.argument \in Final \cup {None},
         NEW par \in Parents(n), NEW rea \in SUBSET (1..n), Owes(w, par, rea),
         Passes(w, Late(job.reaction))
  PROVE  Owes(Settling(w, job), par, rea) /\ Passes(Settling(w, job), {})
<1> DEFINE r == job.reaction
           v == Settling(w, job)
<1>1. /\ r.handler \in HandlerKinds /\ r.of \in Maybe(1..n) /\ r.downstream \in Maybe(1..n)
      /\ r.handler \in {"resolve", "reject"} => r.of # None
      /\ job.argument \in Maybe(Known(n)) /\ job.rejection \in BOOLEAN
      /\ job.argument = None => r.handler = "user" /\ r.downstream = None
  BY DEF JobsIn, ReactionsIn
<1>2. {r.of} \ {r.of} = {}
  OBVIOUS
<1>3. CASE r.handler = "resolve"
  <2>1. r.of \in 1..n /\ job.argument \in Known(n) /\ job.argument \in Final /\ v = Resolve(w, r.of, job.argument)
    BY <1>1, <1>3 DEF Settling, Maybe
  <2>2. Passes(w, {r.of})
    BY <1>3 DEF Late
  <2> HIDE DEF r, v
  <2>3. Owes(v, par, rea) /\ Passes(v, {r.of} \ {r.of})
    BY <2>1, <2>2, ResolveOwes
  <2> QED BY <1>2, <2>3 DEF v, r
<1>4. CASE r.handler = "reject"
  <2>1. r.of \in 1..n /\ job.argument \in Final /\ v = Settle(w, r.of, "rejected", job.argument)
    BY <1>1, <1>4 DEF Settling, Maybe
  <2>2. Passes(w, {r.of})
    BY <1>4 DEF Late
  <2> HIDE DEF r, v
  <2>3. Owes(v, par, rea) /\ Passes(v, {r.of} \ {r.of})
    BY <2>1, <2>2, SettleOwes
  <2> QED BY <1>2, <2>3 DEF v, r
<1>5. CASE r.handler \notin {"resolve", "reject"}
  <2>1. Passes(w, {})
    BY <1>5 DEF Late
  <2>2. CASE r.handler = "none" /\ r.downstream = None
    BY <2>1, <2>2 DEF Settling
  <2>3. CASE r.handler = "none" /\ r.downstream # None
    <3>1. v = IF job.rejection THEN Settle(w, r.downstream, "rejected", job.argument)
                               ELSE Resolve(w, r.downstream, job.argument)
      BY <2>3 DEF Settling
    <3>2. r.downstream \in 1..n /\ job.argument \in Known(n) /\ job.argument \in Final
      BY <1>1, <2>3 DEF Maybe
    <3>3. {} \ {r.downstream} = {}
      OBVIOUS
    <3> HIDE DEF r, v
    <3>4. CASE job.rejection
      <4>1. Owes(v, par, rea) /\ Passes(v, {} \ {r.downstream})
        BY <2>1, <3>1, <3>2, <3>4, SettleOwes
      <4> QED BY <3>3, <4>1 DEF v
    <3>5. CASE ~job.rejection
      <4>1. Owes(v, par, rea) /\ Passes(v, {})
        BY <2>1, <3>1, <3>2, <3>5, ResolveOwes
      <4> QED BY <4>1 DEF v
    <3> QED BY <3>4, <3>5
  <2>4. CASE r.handler \in {"user", "finally"}
    <3>1. v.promises = w.promises /\ v.queue = w.queue /\ v.adopted = w.adopted
      BY <2>4 DEF Settling
    <3> HIDE DEF v
    <3>2. Owes(v, par, rea) /\ Passes(v, {})
      BY <2>1, <3>1, SameOwes, SamePasses
    <3> QED BY <3>2 DEF v
  <2> QED BY <1>1, <1>5, <2>2, <2>3, <2>4 DEF HandlerKinds
<1> QED BY <1>3, <1>4, <1>5

-----------------------------------------------------------------------------
(* What is owed, at every step *)

Right == Owes(World, parent, reacted) /\ Passes(World, {})

LEMMA OwedFacts ==
  ASSUME Inv, Right
  PROVE  /\ parent \in Parents(Len(promises)) /\ reacted \in SUBSET (1..Len(promises))
         /\ Owes(World, parent, reacted) /\ Passes(World, {})
         /\ None \notin 1..Len(promises) /\ None \notin Promise
         /\ {Plain, CycleError, Thrown} = Final
  BY Facts, ValueAssumption, PromiseAssumption DEF Inv, Right, Parents, Final, Value, Promise

LEMMA RightBecomes ==
  ASSUME NEW w, Becomes(w), Owes(w, parent', reacted'), Passes(w, {})
  PROVE  Right'
<1>1. World' = [promises |-> w.promises, queue |-> w.queue, stack |-> w.stack, held |-> w.held, adopted |-> w.adopted]
  BY DEF World, Becomes
<1>2. (World').promises = w.promises /\ (World').queue = w.queue /\ (World').adopted = w.adopted
  BY <1>1
<1>3. Owes(World', parent', reacted') /\ Passes(World', {})
  BY <1>2, SameOwes, SamePasses
<1> QED BY <1>3 DEF Right

(* Steps that only change what runs. *)
LEMMA RightStack ==
  ASSUME Right, UNCHANGED <<promises, queue, adopted, parent, reacted>>
  PROVE  Right'
<1>1. (World').promises = World.promises /\ (World').queue = World.queue /\ (World').adopted = World.adopted
  BY DEF World
<1>2. Owes(World', parent, reacted) /\ Passes(World', {})
  BY <1>1, SameOwes, SamePasses DEF Right
<1> QED BY <1>2 DEF Right

LEMMA RightCalls ==
  ASSUME Inv, Right, hasQueue, NEW h \in held, CallReject(h) \/ \E value \in Available : CallResolve(h, value)
  PROVE  Right'
<1> DEFINE n == Len(promises)
<1>1. n \in 0..MaxPromises /\ IsWorld(World, n) /\ h[1] \in 1..n
  BY Facts
<1>2. parent' = parent /\ reacted' = reacted /\ Plain \in Final
  BY DEF CallReject, CallResolve, Final
<1>3. CASE CallReject(h)
  <2>1. Becomes(Settle(World, h[1], "rejected", Plain))
    BY <1>3 DEF CallReject, RejectFunction
  <2>2. Owes(Settle(World, h[1], "rejected", Plain), parent, reacted)
        /\ Passes(Settle(World, h[1], "rejected", Plain), {} \ {h[1]})
    BY <1>1, <1>2, OwedFacts, SettleOwes
  <2>3. {} \ {h[1]} = {}
    OBVIOUS
  <2> QED BY <1>2, <2>1, <2>2, <2>3, RightBecomes
<1>4. CASE \E value \in Available : CallResolve(h, value)
  <2>1. PICK value \in Available : CallResolve(h, value)
    BY <1>4
  <2>2. Becomes(Resolve(World, h[1], value)) /\ value \in Known(n)
    BY <2>1, ValuesKnown DEF CallResolve, ResolveFunction
  <2>3. Owes(Resolve(World, h[1], value), parent, reacted) /\ Passes(Resolve(World, h[1], value), {})
    BY <1>1, <2>2, OwedFacts, ResolveOwes
  <2> QED BY <1>2, <2>2, <2>3, RightBecomes
<1> QED BY <1>3, <1>4

LEMMA RightCreate ==
  ASSUME Inv, Right, Create \/ CallAsync
  PROVE  Right'
<1> DEFINE n == Len(promises)
           v == [World EXCEPT !.promises = Append(@, NewPromise)]
<1>1. n \in Nat /\ IsWorld(World, n) /\ n < MaxPromises
  <2>1. n < MaxPromises
    BY DEF Create, CallAsync, CanCreate
  <2> QED BY <2>1, Facts
<1>2. None \notin 1..n + 1
  <2>1. 1..n + 1 \subseteq Promise
    BY <1>1, PromiseAssumption DEF Promise
  <2> QED BY <2>1, OwedFacts
<1>4. v.promises = Append(promises, NewPromise) /\ v.queue = queue /\ v.adopted = adopted
      /\ World.promises = promises /\ World.queue = queue /\ World.adopted = adopted
  BY DEF World
<1>3. Owes(v, Append(parent, None), reacted) /\ Passes(v, {})
  <2> HIDE DEF v
  <2> QED BY <1>1, <1>2, <1>4, OwedFacts, CreatedOwes
<1>5. (World').promises = v.promises /\ (World').queue = v.queue /\ (World').adopted = v.adopted
      /\ parent' = Append(parent, None) /\ reacted' = reacted
  BY <1>4 DEF World, Create, CallAsync
<1> HIDE DEF v
<1>6. Owes(World', parent', reacted') /\ Passes(World', {})
  BY <1>3, <1>5, SameOwes, SamePasses
<1> QED BY <1>6 DEF Right

LEMMA RightThen ==
  ASSUME Inv, Right, hasQueue, NEW p \in Created, NEW a \in {"user", "none", "finally"},
         NEW b \in {"user", "none", "finally"}, Then(p, a, b)
  PROVE  Right'
<1> DEFINE n == Len(promises)
           m == n + 1
           v == [World EXCEPT !.promises = Append(@, NewPromise)]
           x == NewReaction(a, None, m)
           y == NewReaction(b, None, m)
           w == React(v, p, x, y)
           par == Append(parent, None)
<1>1. /\ n \in Nat /\ IsWorld(World, n) /\ m \in 1..MaxPromises /\ m \in 0..MaxPromises /\ p \in 1..m /\ p # m
      /\ m \in 1..m
  BY Facts, PromiseAssumption DEF Then, CanCreate
<1>2. None \notin 1..m
  <2>1. 1..m \subseteq Promise
    BY <1>1, PromiseAssumption DEF Promise
  <2> QED BY <2>1, OwedFacts
<1>3. Owes(v, par, reacted) /\ Passes(v, {}) /\ par \in Parents(m) /\ par[m] = None
  <2>1. v.promises = Append(World.promises, NewPromise) /\ v.queue = World.queue /\ v.adopted = World.adopted
    BY DEF World
  <2> HIDE DEF v
  <2> QED BY <1>1, <1>2, <2>1, OwedFacts, CreatedOwes
<1>4. IsWorld(v, m)
  BY <1>1, WithPromise
<1>5. /\ x \in ReactionsIn(m) /\ y \in ReactionsIn(m) /\ x.downstream = m /\ y.downstream = m
      /\ x.handler \notin {"resolve", "reject"} /\ y.handler \notin {"resolve", "reject"}
  <2>1. m \in Maybe(1..m) /\ None \in Maybe(1..m)
    BY <1>1 DEF Maybe
  <2>2. x \in ReactionsIn(m) /\ y \in ReactionsIn(m)
    BY <2>1, ReactionLemma DEF HandlerKinds
  <2> QED BY <2>2 DEF NewReaction
<1>6. Becomes(w) /\ parent' = Append(parent, p) /\ reacted' = reacted
  BY DEF Then
<1>7. Append(parent, p) = [par EXCEPT ![m] = p]
  <2>1. parent \in Seq(Maybe(Promise)) /\ Len(parent) = n /\ p \in Maybe(Promise) /\ None \in Maybe(Promise)
    BY <1>1, Facts, PromiseAssumption DEF Inv, Maybe, Promise
  <2> QED BY <1>1, <2>1, AppendLast
<1>8. reacted \in SUBSET (1..m)
  BY <1>1, OwedFacts
<1> HIDE DEF v, x, y, par
<1>9. Owes(w, [par EXCEPT ![m] = p], reacted) /\ Passes(w, {})
  BY <1>1, <1>3, <1>4, <1>5, <1>8, ReactOwes
<1> HIDE DEF w
<1> QED BY <1>6, <1>7, <1>9, RightBecomes

LEMMA RightMicrotask ==
  ASSUME Inv, Right, QueueMicrotask
  PROVE  Right'
<1> DEFINE n == Len(promises)
           job == NewJob(NewReaction("user", None, None), None, FALSE)
           L == Len(queue)
           v == World'
<1>1. /\ job.argument = None /\ job.reaction.downstream = None /\ ~Tells(job.reaction, {"resolve", "reject"}, 1)
      /\ queue \in Seq(JobsIn(n))
  BY Facts DEF NewJob, NewReaction, Tells
<1>2. /\ queue' = Append(queue, job) /\ UNCHANGED <<promises, adopted, parent, reacted>>
  BY DEF QueueMicrotask, history
<1> HIDE DEF job
<1>3. /\ DOMAIN queue = 1..L /\ DOMAIN queue' = 1..L + 1 /\ queue'[L + 1] = job
      /\ \A i \in 1..L : i \in 1..L + 1 /\ queue'[i] = queue[i]
      /\ \A i \in 1..L + 1 : i \in 1..L \/ i = L + 1
  BY <1>1, <1>2
<1>4. /\ v.promises = World.promises /\ v.adopted = World.adopted /\ v.queue = queue' /\ World.queue = queue
  BY <1>2 DEF World
<1>5. /\ \A i \in 1..L : For(v, i) = For(World, i) /\ v.queue[i] = World.queue[i]
      /\ For(v, L + 1) = None /\ v.queue[L + 1].argument = None
  BY <1>1, <1>3, <1>4 DEF For
<1>6. \A c : Owing(v, parent, c) <=> Owing(World, parent, c)
  BY <1>4 DEF Owing, Pending
<1> HIDE DEF v
<1>7. QueueRight(v, parent, reacted)
  <2>1. QueueRight(World, parent, reacted)
    BY DEF Right, Owes
  <2>2. \A i \in DOMAIN v.queue : (i \in 1..L /\ i \in DOMAIN World.queue) \/ (For(v, i) = None /\ v.queue[i].argument = None)
    <3>1. DOMAIN v.queue = 1..L + 1 /\ DOMAIN World.queue = 1..L
      BY <1>3, <1>4
    <3> HIDE DEF L
    <3> QED BY <1>3, <1>5, <3>1
  <2>3. \A i \in DOMAIN World.queue : i \in DOMAIN v.queue /\ i \in 1..L
    BY <1>3, <1>4
  <2> HIDE DEF L
  <2> QED BY <1>5, <1>6, <2>1, <2>2, <2>3 DEF QueueRight
<1>8. Owes(v, parent, reacted)
  BY <1>4, <1>6, <1>7 DEF Right, Owes, ReactedRight
<1>9. Passes(v, {})
  <2>1. \A i \in DOMAIN World.queue : i \in DOMAIN v.queue /\ v.queue[i] = World.queue[i]
    BY <1>3, <1>4, <1>5
  <2> QED BY <1>4, <2>1 DEF Right, Passes, Pending
<1> QED BY <1>2, <1>8, <1>9 DEF Right, v

LEMMA RestElements ==
  ASSUME NEW S, queue \in Seq(S), queue # <<>>
  PROVE  DOMAIN Rest = 1..Len(queue) - 1 /\ \A i \in 1..Len(queue) - 1 : Rest[i] = queue[i + 1]
<1>1. Len(queue) \in Nat \ {0} /\ NextJob = 1
  BY DEF NextJob
<1> DEFINE rest == SubSeq(queue, 2, Len(queue))
<1>2. rest = [i \in 1..Len(queue) - 1 |-> queue[i + 1]]
  BY <1>1
<1>3. \A i \in 1..Len(queue) - 1 : queue[i + 1] \in S
  BY <1>1
<1>4. SubSeq(queue, 1, 0) = <<>>
  BY <1>1
<1>5. Rest = <<>> \o rest
  BY <1>1, <1>4 DEF Rest
<1> HIDE DEF rest
<1>6. rest \in Seq(S) /\ DOMAIN rest = 1..Len(queue) - 1
  BY <1>1, <1>2, <1>3
<1>7. <<>> \o rest = rest
  BY <1>6
<1> QED BY <1>2, <1>5, <1>6, <1>7

LEMMA RightRunTask ==
  ASSUME Inv, Right, RunTask
  PROVE  /\ Right'
         /\ \A c \in reacted' \ reacted, b \in 1..Len(promises) : b < c /\ parent[b] = parent[c] => b \in reacted
<1> DEFINE n == Len(promises)
           job == queue[NextJob]
           c == job.reaction.downstream
           rea2 == Reacting(reacted, c)
           w == [World EXCEPT !.queue = Rest, !.stack = Ran]
           v == Settling(w, job)
<1>1. n \in 0..MaxPromises /\ n \in Nat /\ IsWorld(World, n) /\ stack # <<>> /\ queue # <<>> /\ queue \in Seq(JobsIn(n))
  BY Facts DEF RunTask, Draining
<1>2. job \in JobsIn(n) /\ Rest \in Seq(JobsIn(n)) /\ job = queue[1]
  BY <1>1, RestFacts DEF NextJob
<1>3. Ran \in Seq(FramesIn(n))
  BY <1>1, Facts, FlagSet DEF Ran
<1>4. IsWorld(w, n)
  BY <1>1, <1>2, <1>3 DEF IsWorld, Worlds, World
<1>5. w.promises = World.promises /\ w.adopted = World.adopted /\ w.queue = Rest /\ World.queue = queue
  BY DEF World
<1>6. Becomes(v) /\ reacted' = rea2 /\ parent' = parent
  BY DEF RunTask, Reacting
<1>7. Owes(w, parent, rea2) /\ rea2 \in SUBSET (1..n) /\ Passes(w, Late(job.reaction)) /\ job.argument \in Final \cup {None}
  <2>1. DOMAIN w.queue = 1..Len(World.queue) - 1 /\ \A i \in 1..Len(World.queue) - 1 : w.queue[i] = World.queue[i + 1]
    BY <1>1, <1>5, RestElements
  <2>2. /\ parent \in Parents(n) /\ reacted \in SUBSET (1..n) /\ None \notin 1..n
        /\ Owes(World, parent, reacted) /\ Passes(World, {})
    BY OwedFacts
  <2>3. World.queue # <<>> /\ World.queue[1] = job
    BY <1>1, <1>2, <1>5
  <2> HIDE DEF w, job
  <2> QED BY <1>1, <1>5, <2>1, <2>2, <2>3, TakenOwes
<1>8. Owes(v, parent, rea2) /\ Passes(v, {})
  <2>1. parent \in Parents(n)
    BY OwedFacts
  <2> HIDE DEF w, job, rea2
  <2> QED BY <1>1, <1>2, <1>4, <1>7, <2>1, SettlingOwes
<1>9. Right'
  <2> HIDE DEF v, rea2
  <2> QED BY <1>6, <1>8, RightBecomes
<1>10. ASSUME NEW d \in reacted' \ reacted, NEW b \in 1..n, b < d, parent[b] = parent[d] PROVE b \in reacted
  <2>1. d = c /\ d \in rea2
    BY <1>6, <1>10 DEF Reacting
  <2> HIDE DEF job, w
  <2>2. DOMAIN parent = 1..n
    BY <1>1, OwedFacts DEF Parents
  <2>3. b \in rea2
    BY <1>7, <1>10, <2>1, <2>2 DEF Owes, ReactedRight
  <2>4. b # d
    BY <1>1, <1>7, <1>10, <2>1
  <2> QED BY <2>1, <2>3, <2>4 DEF Reacting
<1> QED BY <1>9, <1>10

LEMMA RightFinish ==
  ASSUME Inv, Right, hasQueue, NEW threw \in BOOLEAN, NEW value \in Known(Len(promises)), Finish(threw, value)
  PROVE  Right'
<1> DEFINE n == Len(promises)
           w == [World EXCEPT !.stack = Popped]
           d == Top.promise
<1>1. stack # <<>> /\ n \in 0..MaxPromises /\ Top.kind \in CodeKinds
  BY Facts DEF Finish
<1>2. IsWorld(w, n) /\ parent \in Parents(n) /\ reacted \in SUBSET (1..n) /\ Thrown \in Final
  BY <1>1, Facts, TopFacts, WithStack, OwedFacts DEF Final
<1>3. Owes(w, parent, reacted) /\ Passes(w, {})
  <2>1. w.promises = World.promises /\ w.queue = World.queue /\ w.adopted = World.adopted
    BY DEF World
  <2> HIDE DEF w
  <2> QED BY <2>1, SameOwes, SamePasses DEF Right
<1>4. parent' = parent /\ reacted' = reacted
  BY DEF Finish
<1>5. ASSUME NEW v, Becomes(v), Owes(v, parent, reacted), Passes(v, {}) PROVE Right'
  BY <1>4, <1>5, RightBecomes
<1>6. \A q : {} \ {q} = {}
  OBVIOUS
<1>7. ASSUME d \in 1..n
      PROVE  /\ Owes(Settle(w, d, "rejected", Thrown), parent, reacted)
             /\ Passes(Settle(w, d, "rejected", Thrown), {})
             /\ \A x \in Known(n) : Owes(Resolve(w, d, x), parent, reacted) /\ Passes(Resolve(w, d, x), {})
  <2> HIDE DEF w, d
  <2>1. Owes(Settle(w, d, "rejected", Thrown), parent, reacted) /\ Passes(Settle(w, d, "rejected", Thrown), {} \ {d})
    BY <1>1, <1>2, <1>3, <1>7, SettleOwes
  <2>2. \A x \in Known(n) : Owes(Resolve(w, d, x), parent, reacted) /\ Passes(Resolve(w, d, x), {})
    BY <1>1, <1>2, <1>3, <1>7, ResolveOwes
  <2> QED BY <1>6, <2>1, <2>2
<1>8. CASE Top.kind = "script"
  <2> DEFINE v == [w EXCEPT !.stack = <<NewFrame("drain", None, None, FALSE)>>]
  <2>1. Becomes(v) /\ v.promises = w.promises /\ v.queue = w.queue /\ v.adopted = w.adopted
    BY <1>8 DEF Finish
  <2> HIDE DEF v, w
  <2> QED BY <1>3, <1>5, <2>1, SameOwes, SamePasses
<1>9. CASE Top.kind = "task" \/ (Top.kind \in {"handler", "finally"} /\ d = None)
  <2>1. Becomes(w)
    BY <1>9 DEF Finish
  <2> QED BY <1>3, <1>5, <2>1
<1>10. CASE Top.kind = "handler" /\ d # None
  <2>1. d \in 1..n
    BY <1>1, <1>10, TopFacts DEF Maybe
  <2>2. Becomes(IF threw THEN Settle(w, d, "rejected", Thrown) ELSE Resolve(w, d, value))
    BY <1>10 DEF Finish
  <2> HIDE DEF w, d
  <2> QED BY <1>5, <1>7, <2>1, <2>2
<1>11. CASE Top.kind = "finally" /\ d # None
  <2>1. d \in 1..n /\ Top.argument \in Known(n)
    BY <1>1, <1>11, TopFacts DEF Maybe
  <2>2. Becomes(IF Top.flag THEN Settle(w, d, "rejected", Thrown) ELSE Resolve(w, d, Top.argument))
    BY <1>11 DEF Finish
  <2> HIDE DEF w, d
  <2> QED BY <1>5, <1>7, <2>1, <2>2
<1>12. CASE Top.kind = "thenable"
  <2>1. d \in 1..n
    BY <1>1, <1>12, TopFacts DEF Maybe
  <2>2. Becomes(IF threw THEN Settle(w, d, "rejected", Thrown) ELSE w)
    BY <1>12 DEF Finish
  <2> HIDE DEF w, d
  <2> QED BY <1>3, <1>5, <1>7, <2>1, <2>2
<1>13. CASE Top.kind = "async"
  <2>1. d \in 1..n
    BY <1>1, <1>13, TopFacts DEF Maybe
  <2>2. Becomes(IF threw THEN Settle(w, d, "rejected", Thrown) ELSE Resolve(w, d, value))
    BY <1>13 DEF Finish, RejectFunction, ResolveFunction
  <2> HIDE DEF w, d
  <2> QED BY <1>5, <1>7, <2>1, <2>2
<1> QED BY <1>1, <1>8, <1>9, <1>10, <1>11, <1>12, <1>13 DEF CodeKinds

(* The reactions taken are of the youngest that still waited. *)
InTurn == \A c \in reacted' \ reacted, b \in Created :
            b < c /\ parent[b] = parent[c] => b \in reacted

LEMMA RightStep == Inv /\ Queued /\ Right /\ [Next]_vars => Right' /\ InTurn
<1> SUFFICES ASSUME Inv, Queued, Right, [Next]_vars PROVE Right' /\ InTurn
  OBVIOUS
<1>1. reacted' = reacted => InTurn
  BY DEF InTurn
<1>2. CASE \E kind \in ScriptKinds : BeginScript(kind)
  BY <1>1, <1>2, RightStack DEF BeginScript, history
<1>3. CASE stack # <<>> /\ Call
  <2>1. hasQueue /\ reacted' = reacted
    BY <1>3 DEF Queued, Call, Create, QueueMicrotask, CallAsync, CallReject, CallResolve, Then, Await, history
  <2>2. CASE Create \/ CallAsync
    BY <1>1, <2>1, <2>2, RightCreate
  <2>3. CASE QueueMicrotask
    BY <1>1, <2>1, <2>3, RightMicrotask
  <2>4. CASE \E h \in held : CallReject(h) \/ \E value \in Available : CallResolve(h, value)
    BY <1>1, <2>1, <2>4, RightCalls
  <2>5. CASE \E p \in Created : \/ Then(p, "user", "none") \/ Then(p, "none", "user")
                                \/ Then(p, "user", "user") \/ Then(p, "finally", "finally")
    BY <1>1, <2>1, <2>5, RightThen
  <2>6. CASE \E value \in Created \cup {Plain} : Await(value)
    BY <1>1, <2>1, <2>6, RightStack DEF Await, history
  <2> QED BY <1>3, <2>2, <2>3, <2>4, <2>5, <2>6 DEF Call
<1>4. CASE stack # <<>> /\ (Return \/ Throw)
  <2>1. PICK threw \in BOOLEAN, value \in Known(Len(promises)) : Finish(threw, value)
    BY <1>4, ValuesKnown DEF Return, Throw
  <2>2. hasQueue /\ reacted' = reacted
    BY <1>4, <2>1 DEF Queued, Finish
  <2> QED BY <1>1, <2>1, <2>2, RightFinish
<1>5. CASE RunTask
  BY <1>5, Facts, RightRunTask DEF InTurn
<1>6. CASE DrainDone \/ AwaitStep \/ UNCHANGED vars
  BY <1>1, <1>6, RightStack DEF DrainDone, AwaitStep, vars, history
<1>7. Call \/ Return \/ Throw => stack # <<>>
  BY DEF Call, Create, QueueMicrotask, CallAsync, CallReject, CallResolve, Then, Await, Calling, Return, Throw, Finish
<1> QED BY <1>2, <1>3, <1>4, <1>5, <1>6, <1>7 DEF Next, Run

LEMMA RightInit == Init => Right
<1> SUFFICES ASSUME Init PROVE Right
  OBVIOUS
<1>1. World.promises = <<>> /\ World.queue = <<>> /\ World.adopted = {} /\ parent = <<>> /\ reacted = {}
  BY DEF Init, World
<1>2. DOMAIN World.promises = {} /\ DOMAIN World.queue = {} /\ DOMAIN parent = {}
  BY <1>1
<1>3. Owes(World, parent, reacted)
  BY <1>1, <1>2 DEF Owes, QueueRight, ReactedRight
<1> QED BY <1>1, <1>3 DEF Right, Passes

-----------------------------------------------------------------------------
(* Counting *)

LEMMA CountNone ==
  ASSUME NEW S, S = {}
  PROVE  Cardinality(S) = 0
  BY FS_EmptySet

LEMMA CountOne ==
  ASSUME NEW S, NEW i \in S, \A j \in S : j = i
  PROVE  Cardinality(S) = 1
<1>1. S = {i}
  OBVIOUS
<1> QED BY <1>1, FS_Singleton

LEMMA CountChild ==
  ASSUME NEW n \in Nat, NEW s \in Seq(ReactionsIn(n)), NEW q, NEW par, Registered(s, q, par),
         NEW c \in DOMAIN par, par[c] = q, c \in 1..n, None \notin 1..n
  PROVE  Cardinality({i \in DOMAIN s : s[i].downstream = c}) = 1
<1> DEFINE S == {i \in DOMAIN s : s[i].downstream = c}
<1>1. PICK i \in DOMAIN s : Child(s, i) = c
  BY DEF Registered
<1>2. \A j \in S : j = i
  <2> SUFFICES ASSUME NEW j \in DOMAIN s, Child(s, j) = c, j # i PROVE FALSE
    BY DEF Child
  <2>1. c # None /\ ~(c < c)
    OBVIOUS
  <2>2. i < j \/ j < i
    BY ChildTyped
  <2> QED BY <1>1, <2>1, <2>2 DEF Registered
<1>3. i \in S
  BY <1>1 DEF Child
<1> HIDE DEF S
<1>4. Cardinality(S) = 1
  BY <1>2, <1>3, CountOne
<1> QED BY <1>4 DEF S

LEMMA RightOwed == Inv /\ Right => ReactionOwed
<1> SUFFICES ASSUME Inv, Right PROVE ReactionOwed
  OBVIOUS
<1> DEFINE n == Len(promises)
<1>1. /\ n \in Nat /\ Created = 1..n /\ DOMAIN parent = 1..n /\ None \notin 1..n /\ IsWorld(World, n)
      /\ World.promises = promises /\ World.queue = queue /\ Len(queue) \in Nat /\ DOMAIN queue = 1..Len(queue)
  <2>1. queue \in Seq(JobsIn(n)) /\ parent \in Seq(Maybe(Promise)) /\ Len(parent) = n
    BY Facts DEF Inv
  <2> QED BY <2>1, Facts, OwedFacts DEF World
<1>2. SUFFICES ASSUME NEW c \in Created, parent[c] # None
               PROVE  LET p == parent[c]
                          For0(r) == r.downstream = c
                          JobFor(job) == job.reaction.downstream = c
                          jobs == Count(queue, JobFor) + (IF c \in reacted THEN 1 ELSE 0)
                          fulfill == Count(promises[p].fulfillReactions, For0)
                          reject == Count(promises[p].rejectReactions, For0)
                      IN IF Settled(p) THEN jobs = 1 /\ fulfill = 0 /\ reject = 0
                                       ELSE jobs = 0 /\ fulfill = 1 /\ reject = 1
  BY DEF ReactionOwed
<1> DEFINE p == parent[c]
           F == promises[p].fulfillReactions
           R == promises[p].rejectReactions
           Waiting == {i \in DOMAIN queue : queue[i].reaction.downstream = c}
           InF == {i \in DOMAIN F : F[i].downstream = c}
           InR == {i \in DOMAIN R : R[i].downstream = c}
<1>3. p \in 1..n /\ c \in 1..n /\ c # None
  BY <1>1, <1>2 DEF Right, Owes
<1>4. RecordRight(promises[p], p, parent) /\ (Settled(p) <=> Owing(World, parent, c))
  BY <1>1, <1>2, <1>3 DEF Right, Owes, Owing, Pending, Settled
<1>5. /\ \A i \in DOMAIN queue : queue[i].reaction.downstream = c => Owing(World, parent, c) /\ c \notin reacted
      /\ \A i, j \in DOMAIN queue : i < j => ~(queue[i].reaction.downstream = c /\ queue[j].reaction.downstream = c)
      /\ Owing(World, parent, c) => c \in reacted \/ \E i \in DOMAIN queue : queue[i].reaction.downstream = c
      /\ c \in reacted => Owing(World, parent, c)
  <2>1. QueueRight(World, parent, reacted) /\ ReactedRight(World, parent, reacted)
    BY DEF Right, Owes
  <2>2. ~(c < c)
    BY <1>3
  <2> QED BY <1>1, <1>3, <2>1, <2>2 DEF QueueRight, ReactedRight, For
<1>6. CASE Settled(p)
  <2>1. F = <<>> /\ R = <<>>
    BY <1>4, <1>6 DEF RecordRight, Settled
  <2>2. InF = {} /\ InR = {}
    BY <2>1
  <2>3. CASE c \in reacted
    <3>1. Waiting = {}
      BY <1>5, <2>3
    <3> HIDE DEF Waiting, InF, InR
    <3>2. Cardinality(Waiting) = 0 /\ Cardinality(InF) = 0 /\ Cardinality(InR) = 0
      BY <2>2, <3>1, CountNone
    <3> QED BY <1>6, <2>3, <3>2 DEF Count, Waiting, InF, InR
  <2>4. CASE c \notin reacted
    <3>1. PICK i \in DOMAIN queue : queue[i].reaction.downstream = c
      BY <1>4, <1>5, <1>6, <2>4
    <3>2. \A j \in Waiting : j = i
      <4>1. \A j \in DOMAIN queue : j # i => i < j \/ j < i
        BY <1>1
      <4> QED BY <1>5, <3>1, <4>1
    <3>3. i \in Waiting
      BY <3>1
    <3> HIDE DEF Waiting, InF, InR
    <3>4. Cardinality(Waiting) = 1 /\ Cardinality(InF) = 0 /\ Cardinality(InR) = 0
      BY <2>2, <3>2, <3>3, CountNone, CountOne
    <3> QED BY <1>6, <2>4, <3>4 DEF Count, Waiting, InF, InR
  <2> QED BY <2>3, <2>4
<1>7. CASE ~Settled(p)
  <2>1. Registered(F, p, parent) /\ Registered(R, p, parent) /\ c \notin reacted
    BY <1>4, <1>5, <1>7 DEF RecordRight, Settled
  <2>2. F \in Seq(ReactionsIn(n)) /\ R \in Seq(ReactionsIn(n))
    BY <1>1, <1>3, Typed
  <2>3. Waiting = {}
    BY <1>4, <1>5, <1>7
  <2>4. Cardinality(InF) = 1
    <3> HIDE DEF F
    <3> QED BY <1>1, <1>3, <2>1, <2>2, CountChild
  <2>5. Cardinality(InR) = 1
    <3> HIDE DEF R
    <3> QED BY <1>1, <1>3, <2>1, <2>2, CountChild
  <2> HIDE DEF Waiting, InF, InR
  <2>6. Cardinality(Waiting) = 0
    BY <2>3, CountNone
  <2> QED BY <1>7, <2>1, <2>4, <2>5, <2>6 DEF Count, Waiting, InF, InR
<1> QED BY <1>6, <1>7

(* Every promise that then() returned is owed exactly one reaction: it is  *)
(* registered with its pending parent for both outcomes, or in the queue   *)
(* once, or was run (promise.rs, run_microtasks).                          *)
THEOREM ReactionOwedCorrect ==
  ASSUME ScriptKinds = {"eval"}
  PROVE  Spec => []ReactionOwed
<1>1. Init => Queued /\ Right
  BY InitInv, RightInit
<1>2. Inv /\ Queued /\ [Next]_vars => Queued'
  BY QueuedStep
<1>3. Inv /\ Queued /\ Right /\ [Next]_vars => Right'
  BY RightStep
<1>4. Inv /\ Right => ReactionOwed
  BY RightOwed
<1> QED BY <1>1, <1>2, <1>3, <1>4, Invariance, PTL DEF Spec

(* When the queue is drained, whoever was resolved with a promise that is  *)
(* settled is settled too (resolve_promise_internal).                      *)
THEOREM AdoptionFollowsCorrect ==
  ASSUME ScriptKinds = {"eval"}
  PROVE  Spec => []AdoptionFollows
<1>1. Init => Queued /\ Right
  BY InitInv, RightInit
<1>2. Inv /\ Queued /\ [Next]_vars => Queued'
  BY QueuedStep
<1>3. Inv /\ Queued /\ Right /\ [Next]_vars => Right'
  BY RightStep
<1>4. Inv /\ Right => AdoptionFollows
  <2> SUFFICES ASSUME Inv, Right, queue = <<>>, NEW pq \in adopted, Settled(pq[2]) PROVE Settled(pq[1])
    BY DEF AdoptionFollows
  <2>1. World.promises = promises /\ World.queue = queue /\ World.adopted = adopted /\ DOMAIN queue = {}
    BY DEF World
  <2>2. Pending(World, pq[1]) <=> ~Settled(pq[1])
    BY <2>1 DEF Pending, Settled
  <2>3. ~Pending(World, pq[2])
    BY <2>1 DEF Pending, Settled
  <2> QED BY <2>1, <2>2, <2>3 DEF Right, Passes
<1> QED BY <1>1, <1>2, <1>3, <1>4, Invariance, PTL DEF Spec

(* The reactions to one promise run in the order of the calls of then()    *)
(* that asked for them, across the lists of the promise and the queue.     *)
THEOREM ThenOrderCorrect ==
  ASSUME ScriptKinds = {"eval"}
  PROVE  Spec => ThenOrder
<1>1. Init => Queued /\ Right
  BY InitInv, RightInit
<1>2. Inv /\ Queued /\ [Next]_vars => Queued'
  BY QueuedStep
<1>3. Inv /\ Queued /\ Right /\ [Next]_vars => Right'
  BY RightStep
<1>4. Inv /\ Queued /\ Right /\ [Next]_vars =>
        [\A c \in reacted' \ reacted, b \in Created :
           b < c /\ parent[b] = parent[c] => b \in reacted]_vars
  BY RightStep DEF InTurn
<1> QED BY <1>1, <1>2, <1>3, <1>4, Invariance, PTL DEF Spec, ThenOrder
=============================================================================
