----------------------------- MODULE MCRegistry -----------------------------
(* Registry on small instances. *)
EXTENDS Registry, TLC

CONSTANTS a1, a2, k1, k2

(* No file; an agent with a key; two agents with one key; one agent twice. *)
MCFirstDocs ==
  LET Agent(n, k) == [id |-> n, key |-> k, status |-> "active"]
  IN {<<>>,
      <<Agent(a1, k1)>>,
      <<Agent(a1, k1), Agent(a2, k1)>>,
      <<Agent(a1, k1), Agent(a1, k2)>>}
=============================================================================
