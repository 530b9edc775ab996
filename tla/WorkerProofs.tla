---------------------------- MODULE WorkerProofs ----------------------------
(***************************************************************************)
(* A worker keeps the promises of Mailbox, however many messages and       *)
(* replies are exchanged.                                                  *)
(***************************************************************************)
EXTENDS Worker, TLAPS

(* The handle is given up before the thread is joined, and the thread has  *)
(* ended when it was.                                                      *)
Handle ==
  /\ owner = "joining" => ~joinable
  /\ ~joinable /\ owner # "joining" => worker = "ended"
  /\ joined => ~joinable /\ owner # "joining"

(* A thread that ended without a panic has left nothing in its inbox. *)
NothingLeft == worker = "ended" /\ ~panicked => taken = accepted

(* InboxOrder is inductive only with Handle, which keeps a second Terminate *)
(* out of the inbox, and a message from following the first.                *)
Inv == TypeOK /\ InboxOrder /\ OutboxOrder /\ Handle /\ NothingLeft

(* Taking the first of consecutive numbers leaves those after it. *)
LEMMA TailNumbered ==
  ASSUME NEW S, NEW s \in Seq(S), s # <<>>, NEW n \in Nat, NEW k \in 1..Len(s),
         \A i \in 1..k : s[i] = n + i
  PROVE  /\ Tail(s) \in Seq(S) /\ Len(Tail(s)) = Len(s) - 1
         /\ \A i \in 1..k - 1 : Tail(s)[i] = n + 1 + i
<1>1. Tail(s) \in Seq(S) /\ Len(Tail(s)) = Len(s) - 1
  OBVIOUS
<1>2. ASSUME NEW i \in 1..k - 1 PROVE Tail(s)[i] = n + 1 + i
  <2>1. i + 1 \in 1..k /\ i \in 1..Len(s) - 1
    OBVIOUS
  <2>2. Tail(s)[i] = s[i + 1]
    BY <2>1
  <2> QED BY <2>1, <2>2
<1> QED BY <1>1, <1>2

(* Appending the next number continues them. *)
LEMMA AppendNumbered ==
  ASSUME NEW s \in Seq(Nat), NEW n \in Nat, \A i \in 1..Len(s) : s[i] = n + i,
         NEW m \in Nat, m = n + Len(s) + 1
  PROVE  /\ Append(s, m) \in Seq(Nat) /\ Len(Append(s, m)) = Len(s) + 1
         /\ \A i \in 1..Len(s) + 1 : Append(s, m)[i] = n + i
<1>1. \A i \in 1..Len(s) + 1 : Append(s, m)[i] = IF i = Len(s) + 1 THEN m ELSE s[i]
  OBVIOUS
<1> QED BY <1>1

LEMMA InitInv == Init => Inv
<1> SUFFICES ASSUME Init PROVE Inv
  OBVIOUS
<1> USE DEF Init
<1>1. TypeOK
  <2>1. inbox \in Seq(Nat \cup {Terminate}) /\ outbox \in Seq(Nat)
    OBVIOUS
  <2> QED BY <2>1 DEF TypeOK, Start, Codes
<1>2. InboxOrder
  BY DEF InboxOrder
<1>3. OutboxOrder
  BY DEF OutboxOrder
<1>4. Handle /\ NothingLeft
  BY DEF Handle, NothingLeft, Start
<1> QED BY <1>1, <1>2, <1>3, <1>4 DEF Inv

(* What the owner does keeps the invariant. *)
LEMMA OwnerInv == Inv /\ OwnerStep => Inv'
<1> SUFFICES ASSUME Inv, OwnerStep PROVE Inv'
  OBVIOUS
<1> USE WorkerAssumption DEF Inv, TypeOK, InboxOrder, OutboxOrder, Handle, NothingLeft, Codes
<1>1. CASE Post
  BY <1>1 DEF Post, Calling, Reachable, client, history
<1>2. CASE BeginReceive
  BY <1>2 DEF BeginReceive, Calling, history
<1>3. CASE Receive
  <2>1. /\ outbox \in Seq(Nat) /\ outbox # <<>> /\ outbox' = Tail(outbox)
        /\ received \in Nat /\ emitted \in Nat /\ emitted' = emitted /\ received' = outbox[1]
    BY <1>3 DEF Receive, NextReply
  <2>2. \A i \in 1..Len(outbox) : outbox[i] = received + i
    BY <2>1
  <2>3. TypeOK' /\ InboxOrder' /\ Handle' /\ NothingLeft'
    BY <1>3 DEF Receive, NextReply, history
  <2>4. OutboxOrder'
    <3> HIDE DEF Inv, TypeOK, InboxOrder, Handle, NothingLeft
    <3>1. Len(outbox) \in Nat \ {0} /\ Len(outbox) = emitted - received
      BY <2>1 DEF Inv
    <3>2. /\ outbox' \in Seq(Nat) /\ Len(outbox') = Len(outbox) - 1
          /\ \A i \in 1..Len(outbox) - 1 : outbox'[i] = received + 1 + i
      BY <2>1, <2>2, <3>1, TailNumbered
    <3>3. received' = received + 1
      BY <2>1, <2>2, <3>1
    <3> QED BY <2>1, <3>1, <3>2, <3>3
  <2> QED BY <2>3, <2>4
<1>4. CASE ReceiveNothing
  BY <1>4 DEF ReceiveNothing, history
<1>5. CASE CallTerminate
  <2> USE <1>5 DEF CallTerminate, Calling, Reachable, WithTerminate, history
  <2>1. CASE worker = "ended"
    BY <2>1
  <2>2. CASE worker # "ended"
    <3>1. joinable /\ ~joined
      BY <2>2
    <3>2. /\ inbox' \in Seq(Nat \cup {Terminate}) /\ Len(inbox') = Len(inbox) + 1
          /\ \A i \in 1..Len(inbox) : inbox'[i] = inbox[i]
          /\ inbox'[Len(inbox) + 1] = Terminate
      BY <2>2
    <3>3. TypeOK' /\ OutboxOrder' /\ Handle' /\ NothingLeft'
      BY <2>2, <3>1, <3>2
    <3>4. InboxOrder'
      <4>1. Len(inbox) = accepted - taken
        BY <2>2, <3>1
      <4> QED BY <2>2, <3>1, <3>2, <4>1
    <3> QED BY <3>3, <3>4
  <2> QED BY <2>1, <2>2
<1>6. CASE Join
  BY <1>6 DEF Join, Joins
<1>7. CASE Drop
  BY <1>7 DEF Drop, Calling, history
<1> QED BY <1>1, <1>2, <1>3, <1>4, <1>5, <1>6, <1>7 DEF OwnerStep

(* So does what the thread does. *)
LEMMA WorkerInv == Inv /\ WorkerStep => Inv'
<1> SUFFICES ASSUME Inv, WorkerStep PROVE Inv'
  OBVIOUS
<1> USE WorkerAssumption DEF Inv, TypeOK, InboxOrder, OutboxOrder, Handle, NothingLeft, Codes
<1>1. CASE SetOnmessage
  BY <1>1 DEF SetOnmessage, InCode, client, history
<1>2. CASE Emit
  <2>1. /\ outbox \in Seq(Nat) /\ outbox' = Append(outbox, emitted + 1)
        /\ received \in Nat /\ emitted \in Nat /\ emitted' = emitted + 1 /\ received' = received
    BY <1>2 DEF Emit, client
  <2>2. \A i \in 1..Len(outbox) : outbox[i] = received + i
    BY <2>1
  <2>3. TypeOK' /\ InboxOrder' /\ Handle' /\ NothingLeft'
    BY <1>2 DEF Emit, InCode, client, history
  <2>4. OutboxOrder'
    <3> HIDE DEF Inv, TypeOK, InboxOrder, Handle, NothingLeft
    <3>1. Len(outbox) = emitted - received /\ received <= emitted
      BY DEF Inv
    <3>2. /\ outbox' \in Seq(Nat) /\ Len(outbox') = Len(outbox) + 1
          /\ \A i \in 1..Len(outbox) + 1 : outbox'[i] = received + i
      BY <2>1, <2>2, <3>1, AppendNumbered
    <3> QED BY <2>1, <3>1, <3>2
  <2> QED BY <2>3, <2>4
<1>3. CASE Panic
  BY <1>3 DEF Panic, InCode, client
<1>4. CASE EndCode
  BY <1>4 DEF EndCode, InCode, client
<1>5. CASE RecvMessage
  <2> USE <1>5 DEF RecvMessage, NextCommand, client
  <2>1. taken < accepted /\ taken' = taken + 1
    OBVIOUS
  <2>2. /\ inbox' \in Seq(Nat \cup {Terminate}) /\ Len(inbox') = Len(inbox) - 1
        /\ \A i \in 1..Len(inbox') : inbox'[i] = inbox[i + 1]
    OBVIOUS
  <2>3. TypeOK' /\ OutboxOrder' /\ Handle' /\ NothingLeft'
    BY <2>1, <2>2
  <2>4. InboxOrder'
    <3>1. /\ accepted \in Nat /\ taken \in Nat /\ accepted' = accepted /\ joinable' = joinable
          /\ joinable \in BOOLEAN /\ inbox \in Seq(Nat \cup {Terminate}) /\ inbox # <<>>
          /\ inbox' = Tail(inbox)
      OBVIOUS
    <3>2. /\ Len(inbox) = accepted - taken + (IF joinable THEN 0 ELSE 1)
          /\ \A i \in 1..accepted - taken : inbox[i] = taken + i
          /\ ~joinable => inbox[accepted - taken + 1] = Terminate
      OBVIOUS
    <3> HIDE <1>5 DEF Inv, TypeOK, OutboxOrder, Handle, NothingLeft
    <3>3. \A i \in 1..(accepted - taken) - 1 : inbox'[i] = taken + 1 + i
      BY <2>1, <3>1, <3>2, TailNumbered
    <3>4. ~joinable => inbox'[accepted - taken] = Terminate
      BY <2>1, <2>2, <3>1, <3>2
    <3> QED BY <2>1, <2>2, <3>1, <3>2, <3>3, <3>4
  <2> QED BY <2>3, <2>4
<1>6. CASE RecvTerminate
  BY <1>6 DEF RecvTerminate, NextCommand, client, history
<1>7. CASE RecvDisconnected
  BY <1>7 DEF RecvDisconnected, NoSender, client, history
<1> QED BY <1>1, <1>2, <1>3, <1>4, <1>5, <1>6, <1>7 DEF WorkerStep, Loop

THEOREM Invariance == Spec => []Inv
<1>1. Inv /\ UNCHANGED vars => Inv'
  BY DEF Inv, TypeOK, InboxOrder, OutboxOrder, Handle, NothingLeft, vars, history
<1>2. Inv /\ [Next]_vars => Inv'
  BY <1>1, OwnerInv, WorkerInv DEF Next
<1> QED BY InitInv, <1>2, PTL DEF Spec

(* The variables of both threads keep their types, and a thread that ended *)
(* has nothing left in its channel.                                        *)
THEOREM WorkerTypeCorrect == Spec => []TypeOK
<1>1. Inv => TypeOK
  BY DEF Inv
<1> QED BY <1>1, Invariance, PTL

(* The channels keep their order: what is in them is exactly what was sent *)
(* and not yet received.                                                   *)
THEOREM ChannelsCorrect == Spec => []InOrder
<1>1. Inv => InOrder
  BY DEF Inv, InOrder
<1> QED BY <1>1, Invariance, PTL

(* When terminate has returned, every message posted before was taken. *)
THEOREM TerminateCorrect == Spec => []TerminateFlushes
<1>1. Inv => TerminateFlushes
  BY DEF Inv, Handle, NothingLeft, TerminateFlushes
<1> QED BY <1>1, Invariance, PTL

(* No message posted while the initial script was still running is ignored *)
(* by the thread, unless it once waited for commands without an onmessage. *)
THEOREM EarlyMessagesCorrect == Spec => []EarlyMessagesKept
<1> DEFINE Heard == EarlyMessagesKept /\ (worker = "idle" /\ ~deaf => onmessage)
<1>1. Init => Heard
  BY DEF Init, Start, EarlyMessagesKept
<1>2. Heard /\ [Next]_vars => Heard'
  <2> SUFFICES ASSUME Heard, [Next]_vars PROVE Heard'
    OBVIOUS
  <2> USE DEF EarlyMessagesKept, history
  <2>1. CASE OwnerStep
    BY <2>1 DEF OwnerStep, Post, BeginReceive, Receive, ReceiveNothing, CallTerminate, Join, Drop
  <2>2. CASE SetOnmessage \/ Emit \/ Panic
    BY <2>2 DEF SetOnmessage, Emit, Panic, InCode
  <2>3. CASE EndCode
    BY <2>3 DEF EndCode
  <2>4. CASE RecvMessage
    BY <2>4 DEF RecvMessage
  <2>5. CASE RecvTerminate \/ RecvDisconnected
    BY <2>5 DEF RecvTerminate, RecvDisconnected
  <2>6. CASE UNCHANGED vars
    BY <2>6 DEF vars
  <2> QED BY <2>1, <2>2, <2>3, <2>4, <2>5, <2>6 DEF Next, WorkerStep, Loop
<1>3. Heard => EarlyMessagesKept
  OBVIOUS
<1> QED BY <1>1, <1>2, <1>3, PTL DEF Spec

(* The worker implements Mailbox: every step of either thread is a step of *)
(* the mailbox or changes nothing of it.                                   *)
THEOREM WorkerDelivers == Spec => Delivers
<1>1. Init => M!Init
  BY DEF Init, M!Init, Start
<1>2. Inv /\ [Next]_vars => [M!Next]_M!vars
  <2> SUFFICES ASSUME Inv, [Next]_vars PROVE [M!Next]_M!vars
    OBVIOUS
  <2> USE WorkerAssumption DEF Inv, TypeOK, InboxOrder, OutboxOrder, M!Next, M!vars, client, history
  <2>1. CASE Post
    BY <2>1 DEF Post, Reachable, M!Post
  <2>2. CASE Receive
    BY <2>2 DEF Receive, NextReply, M!Get
  <2>3. CASE BeginReceive \/ ReceiveNothing \/ CallTerminate \/ Join \/ Drop
    BY <2>3 DEF BeginReceive, ReceiveNothing, CallTerminate, Join, Drop
  <2>4. CASE Emit
    BY <2>4 DEF Emit, InCode, M!Send
  <2>5. CASE Panic
    BY <2>5 DEF Panic, InCode, M!Fail
  <2>6. CASE RecvMessage
    BY <2>6 DEF RecvMessage, NextCommand, M!Handle
  <2>7. CASE RecvTerminate
    BY <2>7 DEF RecvTerminate, NextCommand, M!End
  <2>8. CASE RecvDisconnected
    BY <2>8 DEF RecvDisconnected, NoSender, M!End
  <2>9. CASE SetOnmessage \/ EndCode
    BY <2>9 DEF SetOnmessage, EndCode, InCode
  <2>10. CASE UNCHANGED vars
    BY <2>10 DEF vars
  <2> QED BY <2>1, <2>2, <2>3, <2>4, <2>5, <2>6, <2>7, <2>8, <2>9, <2>10
          DEF Next, OwnerStep, WorkerStep, Loop
<1> QED BY <1>1, <1>2, Invariance, PTL DEF Spec, Delivers, M!Spec
=============================================================================
