----------------------------- MODULE MCGateway -----------------------------
(* Gateway on a small instance: two agents and one key.  Version 1 moves   *)
(* the key from a1 to a2 and the policy's grant with it, so that a request *)
(* that straddles the reload meets every mixture of old and new tables.    *)
EXTENDS Gateway, TLC

CONSTANTS a1, a2, k1, p1, p2

MCRequests == {p1, p2}
MCAgents == {a1, a2}
MCKeys == {k1}

MCOwnerIn ==
  [v \in 0 .. MaxVersion |-> [k \in MCKeys |-> IF v = 0 THEN a1 ELSE a2]]

MCAllowedIn ==
  [v \in 0 .. MaxVersion |-> IF v = 0 THEN {a1} ELSE {a2}]

(* A request with a key or a token, next to one without that is refused at *)
(* once and shares the audit file with it.                                 *)
MCInputs ==
  p1 :> [method : Methods, cred : [kind : {"key"}, of : {k1}] \cup [kind : {"token"}, of : {a1}]] @@
  p2 :> [method : {"GET"}, cred : [kind : {"none"}, of : {NoAgent}]]
=============================================================================
