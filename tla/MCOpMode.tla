------------------------------ MODULE MCOpMode ------------------------------
(* OpMode on small instances. *)
EXTENDS OpMode

(* Every other revision's plan leaves the first slot alone. *)
MCPlanOf ==
  [r \in 1 .. MaxRev |-> IF r % 2 = 1 THEN [i \in 1 .. Slots |-> i] ELSE <<Slots>>]

(* ... and that revision has no source NAT rules. *)
MCWithNat == {r \in 1 .. MaxRev : r % 2 = 1}
=============================================================================
