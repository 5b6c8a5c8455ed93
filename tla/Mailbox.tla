------------------------------- MODULE Mailbox -------------------------------
(***************************************************************************)
(* What the message queue and the main loop of a procthread promise        *)
(* together, however the thread waits: a message that was pushed is taken  *)
(* once, none is taken after the thread ended, and a thread that was asked *)
(* to stop ends.  Wakeup implements this for the ways a procthread waits;  *)
(* a loop that is not reliable keeps only the safety part.                 *)
(***************************************************************************)
EXTENDS Naturals

VARIABLES
  pending,   (* messages pushed and not yet taken                          *)
  state,     (* of the thread: open, stopping, ended                       *)
  reliable   (* does the wait of the thread return for every wakeup        *)

vars == <<pending, state, reliable>>

Init == pending = 0 /\ state = "open" /\ reliable \in BOOLEAN

Put == pending' = pending + 1 /\ UNCHANGED <<state, reliable>>

Take ==
  /\ pending > 0
  /\ state # "ended"
  /\ pending' = pending - 1
  /\ UNCHANGED <<state, reliable>>

Stop == state = "open" /\ state' = "stopping" /\ UNCHANGED <<pending, reliable>>

End == state = "stopping" /\ state' = "ended" /\ UNCHANGED <<pending, reliable>>

(* A wakeup got lost while the thread was starting.                        *)
Lose == reliable /\ reliable' = FALSE /\ UNCHANGED <<pending, state>>

Next == Put \/ Take \/ Stop \/ End \/ Lose

Spec == Init /\ [][Next]_vars

FairSpec == Spec /\ WF_vars(reliable /\ Take) /\ WF_vars(reliable /\ End)
=============================================================================
