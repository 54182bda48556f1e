------------------------------- MODULE Handoff -------------------------------
(***************************************************************************)
(* What docs/safety.md promises of the delivery of a proposal: it is        *)
(* attempted once.  An offered item is delivered, declined with a record,  *)
(* or dropped by a crash, and what became of it is final - "no retry loop" *)
(* - so that nothing is handed over a second time.                         *)
(***************************************************************************)
EXTENDS Naturals

CONSTANT Item

VARIABLES
  status,    \* what became of each item
  handed     \* how often it was handed over

handoffVars == <<status, handed>>

Status == {"none", "offered", "delivered", "declined", "dropped"}

TypeOK == status \in [Item -> Status] /\ handed \in [Item -> Nat]

Init ==
  /\ status = [i \in Item |-> "none"]
  /\ handed = [i \in Item |-> 0]

Moves(i, before, after) ==
  /\ status[i] = before
  /\ status' = [status EXCEPT ![i] = after]

Offer(i) == Moves(i, "none", "offered") /\ UNCHANGED handed
Deliver(i) ==
  /\ Moves(i, "offered", "delivered")
  /\ handed' = [handed EXCEPT ![i] = @ + 1]
Decline(i) == Moves(i, "offered", "declined") /\ UNCHANGED handed
Drop(i) == Moves(i, "offered", "dropped") /\ UNCHANGED handed

Next == \E i \in Item : Offer(i) \/ Deliver(i) \/ Decline(i) \/ Drop(i)

Spec == Init /\ [][Next]_handoffVars
=============================================================================
