------------------------------- MODULE Worker -------------------------------
(***************************************************************************)
(* A web worker (src/src/execution/worker.rs): a thread with a context of  *)
(* its own, a channel of commands to it and a channel of replies from it.  *)
(* The owner and the worker interleave freely; the owner blocks in         *)
(* receiveMessage and in terminate, the worker in recv.                    *)
(*                                                                         *)
(* Messages and replies are numbered from 1 in the order they are made.    *)
(***************************************************************************)
EXTENDS Naturals, Sequences

CONSTANTS MaxPosts,    \* bound: messages posted
          MaxReplies,  \* bound: replies sent
          Terminate    \* the command that ends the worker

ASSUME WorkerAssumption == MaxPosts \in Nat /\ MaxReplies \in Nat /\ Terminate \notin Nat

VARIABLES
  inbox,      \* the channel of commands, PostMessage as its number
  outbox,     \* the channel of replies
  owner,      \* what the owner does: "free", "receiving", "joining"
  joinable,   \* thread_handle is Some
  dropped,    \* the last reference to the handle is gone
  worker,     \* what the thread does: "script", "idle", "handler", "ended"
  onmessage,  \* the worker's global has an onmessage function
  accepted,   \* messages posted
  taken,      \* the last message taken from the inbox
  emitted,    \* replies sent
  received    \* the last reply received

VARIABLES     \* history
  panicked,   \* the thread ended in the middle of code
  joined,     \* a terminate has returned from joining the thread
  deaf,       \* the worker waited for commands without an onmessage
  ignored     \* a message was taken without an onmessage

client == <<owner, joinable, dropped>>
history == <<panicked, joined, deaf, ignored>>
vars == <<inbox, outbox, owner, joinable, dropped, worker, onmessage,
          accepted, taken, emitted, received, history>>

(* Mutant: commands are taken before the script has run. *)
MutStart == "idle"
(* The thread runs the initial script before its command loop. *)
Start == "script"

Init ==
  /\ inbox = <<>> /\ outbox = <<>>
  /\ owner = "free" /\ joinable = TRUE /\ dropped = FALSE
  /\ worker = Start /\ onmessage = FALSE
  /\ accepted = 0 /\ taken = 0 /\ emitted = 0 /\ received = 0
  /\ panicked = FALSE /\ joined = FALSE /\ deaf = FALSE /\ ignored = FALSE

-----------------------------------------------------------------------------
(* The owner. *)

Calling == owner = "free" /\ ~dropped

(* Mutant: a send to a thread that has ended succeeds. *)
MutReachable == TRUE
(* send fails when the thread, and with it the receiving end, is gone.     *)
Reachable == worker # "ended"

(* postMessage: throws when the worker cannot be reached. *)
Post ==
  /\ Calling /\ Reachable /\ accepted < MaxPosts
  /\ accepted' = accepted + 1
  /\ inbox' = Append(inbox, accepted + 1)
  /\ UNCHANGED <<outbox, client, worker, onmessage, taken, emitted, received, history>>

BeginReceive ==
  /\ Calling /\ owner' = "receiving"
  /\ UNCHANGED <<inbox, outbox, joinable, dropped, worker, onmessage,
                 accepted, taken, emitted, received, history>>

(* Mutant: the newest reply is returned first. *)
MutNextReply == outbox[Len(outbox)]
NextReply == Head(outbox)

Receive ==
  /\ owner = "receiving" /\ outbox # <<>>
  /\ received' = NextReply /\ outbox' = Tail(outbox)
  /\ owner' = "free"
  /\ UNCHANGED <<inbox, joinable, dropped, worker, onmessage, accepted, taken, emitted, history>>

(* The time is over, or there is no one to send: null, or an error. *)
ReceiveNothing ==
  /\ owner = "receiving" /\ outbox = <<>>
  /\ owner' = "free"
  /\ UNCHANGED <<inbox, outbox, joinable, dropped, worker, onmessage,
                 accepted, taken, emitted, received, history>>

(* Mutant: terminate joins without sending. *)
MutNotSent == inbox
WithTerminate == Append(inbox, Terminate)

(* terminate: send, if anyone is there to receive, and join once. *)
CallTerminate ==
  /\ Calling
  /\ inbox' = IF Reachable THEN WithTerminate ELSE inbox
  /\ owner' = IF joinable THEN "joining" ELSE "free"
  /\ joinable' = FALSE
  /\ UNCHANGED <<outbox, dropped, worker, onmessage, accepted, taken, emitted, received, history>>

(* Mutant: terminate does not wait for the thread. *)
MutJoins == TRUE
Joins == worker = "ended"

Join ==
  /\ owner = "joining" /\ Joins
  /\ owner' = "free" /\ joined' = TRUE
  /\ UNCHANGED <<inbox, outbox, joinable, dropped, worker, onmessage,
                 accepted, taken, emitted, received, panicked, deaf, ignored>>

(* The handle is dropped: the sender goes, the thread is detached. *)
Drop ==
  /\ Calling /\ dropped' = TRUE
  /\ UNCHANGED <<inbox, outbox, owner, joinable, worker, onmessage,
                 accepted, taken, emitted, received, history>>

-----------------------------------------------------------------------------
(* The thread. *)

InCode == worker \in {"script", "handler"}

SetOnmessage ==
  /\ InCode /\ onmessage' \in BOOLEAN
  /\ UNCHANGED <<inbox, outbox, client, worker, accepted, taken, emitted, received, history>>

(* postMessage in the worker: without a receiver the reply is discarded. *)
Emit ==
  /\ InCode /\ ~dropped /\ emitted < MaxReplies
  /\ emitted' = emitted + 1 /\ outbox' = Append(outbox, emitted + 1)
  /\ UNCHANGED <<inbox, client, worker, onmessage, accepted, taken, received, history>>

EndCode ==
  /\ InCode /\ worker' = "idle"
  /\ deaf' = (deaf \/ ~onmessage)
  /\ UNCHANGED <<inbox, outbox, client, onmessage, accepted, taken, emitted, received,
                 panicked, joined, ignored>>

(* A panic unwinds the thread and drops what it has not received. *)
Panic ==
  /\ InCode /\ worker' = "ended" /\ panicked' = TRUE /\ inbox' = <<>>
  /\ UNCHANGED <<outbox, client, onmessage, accepted, taken, emitted, received,
                 joined, deaf, ignored>>

NextCommand == Head(inbox)

(* A message is dispatched to onmessage, or ignored when there is none. *)
RecvMessage ==
  /\ worker = "idle" /\ inbox # <<>> /\ NextCommand # Terminate
  /\ taken' = NextCommand /\ inbox' = Tail(inbox)
  /\ worker' = IF onmessage THEN "handler" ELSE "idle"
  /\ ignored' = (ignored \/ ~onmessage)
  /\ UNCHANGED <<outbox, client, onmessage, accepted, emitted, received, panicked, joined, deaf>>

RecvTerminate ==
  /\ worker = "idle" /\ inbox # <<>> /\ NextCommand = Terminate
  /\ worker' = "ended" /\ inbox' = <<>>
  /\ UNCHANGED <<outbox, client, onmessage, accepted, taken, emitted, received, history>>

(* Mutant: the commands sent before the sender was dropped are lost. *)
MutDropsAll == dropped
NoSender == dropped /\ inbox = <<>>

RecvDisconnected ==
  /\ worker = "idle" /\ NoSender
  /\ worker' = "ended" /\ inbox' = <<>>
  /\ UNCHANGED <<outbox, client, onmessage, accepted, taken, emitted, received, history>>

Loop == EndCode \/ RecvMessage \/ RecvTerminate \/ RecvDisconnected
OwnerStep == Post \/ BeginReceive \/ Receive \/ ReceiveNothing \/ CallTerminate \/ Join \/ Drop
WorkerStep == SetOnmessage \/ Emit \/ Panic \/ Loop
Next == OwnerStep \/ WorkerStep

(* Both threads are scheduled; the worker's code returns (or panics).      *)
Spec == Init /\ [][Next]_vars
FairSpec == Spec /\ WF_vars(Loop) /\ WF_vars(Join)

-----------------------------------------------------------------------------
(* Properties *)

Codes == {"script", "idle", "handler", "ended"}

(* Every variable has its type, and an ended worker has no inbox. *)
TypeOK ==
  /\ inbox \in Seq(Nat \cup {Terminate}) /\ outbox \in Seq(Nat)
  /\ owner \in {"free", "receiving", "joining"} /\ joinable \in BOOLEAN /\ dropped \in BOOLEAN
  /\ worker = "ended" => inbox = <<>>
  /\ worker \in Codes /\ onmessage \in BOOLEAN
  /\ accepted \in Nat /\ taken \in Nat /\ emitted \in Nat /\ received \in Nat
  /\ panicked \in BOOLEAN /\ joined \in BOOLEAN /\ deaf \in BOOLEAN /\ ignored \in BOOLEAN

(* The inbox holds the messages posted and not yet taken, in order, and    *)
(* after them a Terminate at most, once the handle was asked to join.      *)
InboxOrder ==
  worker # "ended" =>
    LET waiting == accepted - taken
    IN /\ taken <= accepted /\ Len(inbox) = waiting + (IF joinable THEN 0 ELSE 1)
       /\ \A i \in 1..waiting : inbox[i] = taken + i
       /\ ~joinable => inbox[waiting + 1] = Terminate

(* The outbox holds the replies sent and not yet received, in order.       *)
OutboxOrder ==
  /\ Len(outbox) = emitted - received /\ received <= emitted
  /\ \A i \in DOMAIN outbox : outbox[i] = received + i

(* Neither channel loses, doubles or reorders what was put in it.          *)
InOrder == InboxOrder /\ OutboxOrder

(* When terminate has returned, the worker has ended and every message     *)
(* posted before was taken, unless its code panicked.                      *)
TerminateFlushes == joined => worker = "ended" /\ (panicked \/ taken = accepted)

(* A message posted before the worker is ready is not lost: with an        *)
(* onmessage from the initial script on, every message is dispatched.      *)
EarlyMessagesKept == ~deaf => ~ignored

(* terminate returns, and a worker whose handle is dropped ends: no wait   *)
(* of either thread for the other is for ever.                             *)
NoWaitForEver == (owner = "joining" ~> owner = "free") /\ (dropped ~> worker = "ended")

(* The worker keeps the promises of Mailbox. *)
M == INSTANCE Mailbox WITH posted <- accepted, handled <- taken, sent <- emitted,
                           got <- received, ended <- (worker = "ended"), failed <- panicked
Delivers == M!Spec
=============================================================================
