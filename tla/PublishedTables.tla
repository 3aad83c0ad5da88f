--------------------------- MODULE PublishedTables ---------------------------
(***************************************************************************)
(* What the admin API and the gateway promise each other about the three   *)
(* configuration tables (agents, policies, quotas), without files, signals *)
(* or handlers: the admin side publishes ever newer revisions of a table,  *)
(* and a running gateway serves, for each table, a revision that was       *)
(* published and that is never older than the one it served before.        *)
(***************************************************************************)
EXTENDS Naturals

CONSTANT Tables

VARIABLES
  published,   \* [Tables -> Nat]: newest revision a reader of the file sees
  served,      \* [Tables -> Nat]: revision the gateway decides requests with
  running      \* is the gateway accepting requests?

avars == <<published, served, running>>

Init ==
  /\ published \in [Tables -> Nat]
  /\ served = published
  /\ running = TRUE

(* A new complete revision of one table replaces the old one. *)
Publish(t) ==
  /\ published' \in [Tables -> Nat]
  /\ published[t] < published'[t]
  /\ published' = [published EXCEPT ![t] = published'[t]]
  /\ UNCHANGED <<served, running>>

(* The running gateway moves one table forward. *)
Refresh(t) ==
  /\ running
  /\ \E r \in served[t] .. published[t] : served' = [served EXCEPT ![t] = r]
  /\ UNCHANGED <<published, running>>

Stop ==
  /\ running
  /\ running' = FALSE
  /\ served' = [t \in Tables |-> 0]
  /\ UNCHANGED published

(* A gateway that comes up has read every table from disk first. *)
Start ==
  /\ ~running
  /\ running' = TRUE
  /\ served' \in [Tables -> Nat]
  /\ \A t \in Tables : served'[t] <= published[t]
  /\ UNCHANGED published

Next ==
  \/ \E t \in Tables : Publish(t) \/ Refresh(t)
  \/ Stop
  \/ Start

Spec == Init /\ [][Next]_avars
==============================================================================
