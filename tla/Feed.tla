-------------------------------- MODULE Feed --------------------------------
(***************************************************************************)
(* What a triage loop promises the person who reads its state file: an     *)
(* at-least-once feed.  Items appear; the loop reports items; it may stop  *)
(* looking at an item (the cursor is past it) only once that item has been *)
(* reported or is exempt, and it reports nothing that does not exist.      *)
(***************************************************************************)
CONSTANTS Item, Exempt

VARIABLES
  available,  \* items that exist
  reported,   \* items some written state listed
  covered     \* items no later run will look at

vars == <<available, reported, covered>>

Init ==
  /\ available \subseteq Item
  /\ reported = {}
  /\ covered = {}

Appear ==
  /\ available' \in SUBSET Item
  /\ available \subseteq available'
  /\ UNCHANGED <<reported, covered>>

\* A finished run reports `items` and moves its cursors, forwards or, when it
\* overlapped another run, back.
Report(items) ==
  /\ reported' = reported \cup items
  /\ covered' \in SUBSET available
  /\ covered' \subseteq reported' \cup Exempt
  /\ UNCHANGED available

Next == Appear \/ \E items \in SUBSET available : Report(items)

Spec == Init /\ [][Next]_vars
=============================================================================
