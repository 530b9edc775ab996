------------------------------ MODULE Mailbox ------------------------------
(***************************************************************************)
(* What a worker promises its owner: messages are handled one by one in    *)
(* the order they were posted, replies are received in the order they were *)
(* sent, nothing is posted to a worker that has ended, and it ends with    *)
(* every posted message handled unless it failed.  Messages and replies    *)
(* are numbered from 1 in the order they are made.                         *)
(***************************************************************************)
EXTENDS Naturals

VARIABLES posted,   \* messages posted
          handled,  \* the last message handled
          sent,     \* replies sent
          got,      \* the last reply received
          ended,    \* the worker has ended
          failed    \* it ended in the middle of a script

vars == <<posted, handled, sent, got, ended, failed>>

Init == posted = 0 /\ handled = 0 /\ sent = 0 /\ got = 0 /\ ended = FALSE /\ failed = FALSE

Post == ~ended /\ posted' = posted + 1 /\ UNCHANGED <<handled, sent, got, ended, failed>>
Handle ==
  /\ ~ended /\ handled < posted /\ handled' = handled + 1
  /\ UNCHANGED <<posted, sent, got, ended, failed>>
Send == ~ended /\ sent' = sent + 1 /\ UNCHANGED <<posted, handled, got, ended, failed>>
Get == got < sent /\ got' = got + 1 /\ UNCHANGED <<posted, handled, sent, ended, failed>>
End ==
  /\ ~ended /\ handled = posted /\ ended' = TRUE
  /\ UNCHANGED <<posted, handled, sent, got, failed>>
Fail ==
  /\ ~ended /\ ended' = TRUE /\ failed' = TRUE
  /\ UNCHANGED <<posted, handled, sent, got>>

Next == Post \/ Handle \/ Send \/ Get \/ End \/ Fail
Spec == Init /\ [][Next]_vars
=============================================================================
