---------------------------- MODULE MCPolicyList ----------------------------
(* PolicyList over the names example.com and below it.                     *)
EXTENDS PolicyList

CONSTANTS a1, a2, GET, POST, prod, dev

Pat(w, n, c) == [wild |-> w, name |-> n, caps |-> c]
Com == <<"com">>
Ex == <<"com", "ex">>
Api == <<"com", "ex", "api">>
Deep == <<"com", "ex", "api", "v1">>

Body(i, a, d, m, p, c, x) ==
  [id |-> i, agent |-> a, domains |-> d, methods |-> m, prefixes |-> p, conds |-> c, action |-> x]

TwoIds == {"p1", "p2"}
Actions == {"allow", "deny"}

Star == Pat(TRUE, <<>>, FALSE)
StarEx == Pat(TRUE, Ex, FALSE)
StarApi == Pat(TRUE, Api, FALSE)
JustEx == Pat(FALSE, Ex, FALSE)
JustApi == Pat(FALSE, Api, FALSE)

DomainLists == {{Star}, {StarEx}, {StarApi}, {JustEx}, {JustApi}, {JustEx, StarApi}}

(* Every pair of patterns, agents and actions, and rules with methods,     *)
(* path prefixes and conditions.                                           *)
Prod == [key |-> "environment", value |-> prod]
MCBodies ==
  {Body(i, a, d, {}, {}, {}, x) :
     i \in TwoIds, a \in {NoAgent, a1, a2}, d \in DomainLists, x \in Actions}
  \cup {Body(i, AnyAgent, {StarEx}, {GET}, {}, {}, x) : i \in TwoIds, x \in Actions}
  \cup {Body(i, a1, {}, {}, {<<"v1">>}, {Prod}, x) : i \in TwoIds, x \in Actions}

Ask(a, h, m, p, e) ==
  [agent |-> a, host |-> h, method |-> m, path |-> p,
   identity |-> [k \in {"environment"} |-> e]]
Host(n) == [name |-> n, caps |-> FALSE]

(* Both agents at every name, and one of them in every other respect.      *)
MCContexts ==
  {Ask(a, Host(n), GET, None, None) : a \in {a1, a2}, n \in {Com, Ex, Api, Deep}}
  \cup {Ask(a1, [name |-> Api, caps |-> TRUE], m, p, e) :
          m \in {GET, POST}, p \in {None, <<"v1", "x">>, <<"v2">>}, e \in {None, prod, dev}}

(* policy.json with one rule, or missing.                                  *)
MCFiles == {<<>>, <<Body("p1", a1, {StarEx}, {}, {}, {}, "allow")>>}
AllOps == {"Load", "Add", "Remove"}
=============================================================================
