--------------------------- MODULE MCPolicyEngine ---------------------------
(* PolicyEngine with rules over two hosts, lists of up to three.           *)
EXTENDS PolicyEngine

CONSTANTS a1, GET, h1, h2, x1, x2, r1

Rule(i, d, x) ==
  [id |-> i, agent |-> AnyAgent, domains |-> d, methods |-> {}, prefixes |-> {},
   conds |-> {}, action |-> x]

Name(n) == [wild |-> FALSE, name |-> <<n>>, caps |-> FALSE]
Star == [wild |-> TRUE, name |-> <<>>, caps |-> FALSE]

Ask(n) ==
  [agent |-> a1, host |-> [name |-> <<n>>, caps |-> FALSE], method |-> GET, path |-> None,
   identity |-> [k \in {} |-> None]]
TwoHosts == {Ask(h1), Ask(h2)}

Deny1 == Rule("p1", {Name(h1)}, "deny")
Deny2 == Rule("p2", {Name(h2)}, "deny")
Rest == Rule("p3", {Star}, "allow")
Allow1 == Rule("p1", {Name(h1)}, "allow")

(* policy.json with three rules, or missing.                               *)
MCFiles == {<<Deny1, Deny2, Rest>>, <<>>}
FourBodies == {Deny1, Deny2, Rest, Allow1}
TwoArrays == {x1, x2}
OneReader == {r1}
AllOps == {"Load", "Add", "Remove"}
=============================================================================
