----------------------------- MODULE Activation -----------------------------
(***************************************************************************)
(* What configure and commit promise: a revision waits until a commit puts *)
(* it in force, in one step.  A newer configure may replace what waits;    *)
(* nothing else takes it away, and nothing is in force that did not wait.  *)
(***************************************************************************)
CONSTANTS Revisions, None

VARIABLES waiting, inForce

Init == waiting = None /\ inForce = None

Stage(r) ==
  /\ waiting' = r
  /\ UNCHANGED inForce

Activate ==
  /\ waiting # None
  /\ inForce' = waiting
  /\ waiting' = None

Next == (\E r \in Revisions : Stage(r)) \/ Activate

Spec == Init /\ [][Next]_<<waiting, inForce>>
=============================================================================
