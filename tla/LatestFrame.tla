------------------------------ MODULE LatestFrame ------------------------------
(***************************************************************************)
(* What the way of a frame from the kernel of a surface to its view        *)
(* promises, whatever mailboxes, flags and queued calls it is made of: a   *)
(* slot that is offered ever newer frames and shows some of them, in order,*)
(* and in the end the newest.  ViewMailbox is shown to implement it.       *)
(***************************************************************************)
EXTENDS Naturals

VARIABLES
  offered, \* the newest display revision the attachment was given
  shown    \* the display revision on the screen

vars == <<offered, shown>>

Init == offered = 0 /\ shown = 0

Offer ==
  /\ offered' > offered
  /\ offered' \in Nat
  /\ UNCHANGED shown

\* Frames may be skipped; none is shown twice or after a newer one.
Show ==
  /\ shown' \in shown + 1 .. offered
  /\ UNCHANGED offered

\* The view is detached, or attached to another session.
Restart == offered' = 0 /\ shown' = 0

Next == Offer \/ Show \/ Restart

Spec == Init /\ [][Next]_vars /\ WF_vars(Show)
================================================================================
