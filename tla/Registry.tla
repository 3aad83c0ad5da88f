------------------------------- MODULE Registry -------------------------------
(***************************************************************************)
(* The registry of agents: two indices, by id and by API key, in the       *)
(* admin process that edits them and in the gateway that looks keys up.    *)
(* The agents get from one to the other through agents.json, which Save    *)
(* fills in the random order of a Go map, or, where they are kept in       *)
(* SQLite, through the table behind store.DB.                              *)
(*                                                                         *)
(* How a save and a reload interleave with others is the subject of        *)
(* ConfigSync; here a save and a load are one step each, and the question  *)
(* is what they keep of the agents.                                        *)
(***************************************************************************)
EXTENDS Naturals, Sequences, FiniteSets, SequencesExt

CONSTANTS
  Ids, Keys,
  None,
  FirstDocs,   \* what agents.json may hold before the first save: a file
               \* written by hand may name an agent, or a key, twice
  Backends,    \* how the agents are kept: in a "file" or in "sqlite"
  MaxCalls     \* bound: handlers between their edit and the end of Save

Status == {"active", "disabled"}
Agents == [id : Ids, key : Keys, status : Status]
Posted == [id : Ids, key : Keys, status : Status \cup {""}]

ASSUME RegistryAssumption ==
  /\ None \notin Agents
  /\ FirstDocs \subseteq Seq(Agents)
  /\ Backends \subseteq {"file", "sqlite"}
  /\ MaxCalls \in Nat

VARIABLES
  backend,
  doc,         \* agents.json: the agents in the order of the file
  rows,        \* the agents table of SQLite
  admin,       \* the registry of the admin process
  calls,       \* handlers that edited it and have not returned from Save yet
  unsaved,     \* history: it was edited since the last complete Save
  gateway,     \* the registry of the gateway
  loaded       \* history: the agents the gateway was loaded with, in order

vars == <<backend, doc, rows, admin, calls, unsaved, gateway, loaded>>

-----------------------------------------------------------------------------
(* Registries: what they know by key and by id. *)

Indices(byKey, byID) == [byKey |-> byKey, byID |-> byID]

About(agents, field, x) == {i \in DOMAIN agents : agents[i][field] = x}
Named(agents, field) == {agents[i][field] : i \in DOMAIN agents}
LastOf(S) == CHOOSE i \in S : \A j \in S : j <= i

(* Mutant: disabled agents are left out of the index by id. *)
LoadActive(agents) ==
  LET live == {i \in DOMAIN agents : agents[i].status = "active"}
  IN Indices([k \in Named(agents, "key") |-> agents[LastOf(About(agents, "key", k))]],
             [n \in {agents[i].id : i \in live} |-> agents[LastOf(About(agents, "id", n))]])

(* Load builds both indices anew; of two entries about a key, or about an  *)
(* id, the later one stays.                                                *)
Load(agents) ==
  Indices([k \in Named(agents, "key") |-> agents[LastOf(About(agents, "key", k))]],
          [n \in Named(agents, "id") |-> agents[LastOf(About(agents, "id", n))]])

With(f, x, y) == [z \in DOMAIN f \cup {x} |-> IF z = x THEN y ELSE f[z]]
Without(f, x) == [z \in DOMAIN f \ {x} |-> f[z]]

(* Add leaves the key an agent had before in the index by key. *)
AddAgent(reg, a) == Indices(With(reg.byKey, a.key, a), With(reg.byID, a.id, a))

(* Remove takes the agent's key out, whoever the index gives that key to. *)
RemoveAgent(reg, n) ==
  Indices(Without(reg.byKey, reg.byID[n].key), Without(reg.byID, n))

(* Nothing for an unknown key or for an agent that is not active. *)
LookupByKey(reg, k) ==
  IF k \in DOMAIN reg.byKey /\ reg.byKey[k].status = "active"
  THEN reg.byKey[k] ELSE None

(* Mutant: the index by key is listed. *)
AllByKey(reg) == SetToSeqs({reg.byKey[k] : k \in DOMAIN reg.byKey})

(* The agents by id, in the order of a map: in any order. *)
All(reg) == SetToSeqs({reg.byID[n] : n \in DOMAIN reg.byID})

-----------------------------------------------------------------------------
Init ==
  /\ backend \in Backends
  /\ doc \in FirstDocs
  /\ rows = {}
  /\ admin = Load(doc)
  /\ calls = 0
  /\ unsaved = TRUE
  /\ gateway = IF backend = "file" THEN Load(doc) ELSE Load(<<>>)
  /\ loaded = IF backend = "file" THEN doc ELSE <<>>

Edit(reg) ==
  /\ backend = "file" /\ calls < MaxCalls
  /\ admin' = reg
  /\ calls' = calls + 1
  /\ unsaved' = TRUE
  /\ UNCHANGED <<backend, doc, rows, gateway, loaded>>

(* Mutant: an agent posted without a status keeps it that way. *)
FilledNot(a) == a

(* An agent posted without a status is active. *)
Filled(a) == IF a.status = "" THEN [a EXCEPT !.status = "active"] ELSE a

(* POST /v1/agents: an agent that exists is replaced. *)
PostAgent(a) == Edit(AddAgent(admin, Filled(a)))

(* DELETE /v1/agents/{id}: a 404 for an id that is unknown. *)
DeleteAgent(n) == n \in DOMAIN admin.byID /\ Edit(RemoveAgent(admin, n))

(* Mutant: the handler signs the edit off although nothing was written. *)
SaveSkipped ==
  /\ calls > 0
  /\ calls' = calls - 1
  /\ unsaved' = FALSE
  /\ UNCHANGED <<backend, doc, rows, admin, gateway, loaded>>

(* The handler's Save writes all that was edited until now... *)
Save ==
  /\ calls > 0
  /\ doc' \in All(admin)
  /\ calls' = calls - 1
  /\ unsaved' = FALSE
  /\ UNCHANGED <<backend, rows, admin, gateway, loaded>>

(* ... or fails: a 500, and the edit stays in memory. *)
SaveFails ==
  /\ calls > 0
  /\ calls' = calls - 1
  /\ UNCHANGED <<backend, doc, rows, admin, unsaved, gateway, loaded>>

(* The admin process dies and reads the file when it starts again. *)
AdminRestart ==
  /\ backend = "file"
  /\ admin' = Load(doc)
  /\ calls' = 0
  /\ UNCHANGED <<backend, doc, rows, unsaved, gateway, loaded>>

(* Mutant: a reload adds to what the gateway has. *)
GatewayLoadOnTop ==
  /\ backend = "file"
  /\ LET new == Load(doc) IN
       gateway' = Indices(
         [k \in DOMAIN gateway.byKey \cup DOMAIN new.byKey |->
            IF k \in DOMAIN new.byKey THEN new.byKey[k] ELSE gateway.byKey[k]],
         new.byID)
  /\ loaded' = doc
  /\ UNCHANGED <<backend, doc, rows, admin, calls, unsaved>>

(* The gateway starts, or reloads on SIGHUP. *)
GatewayLoad ==
  /\ backend = "file"
  /\ gateway' = Load(doc)
  /\ loaded' = doc
  /\ UNCHANGED <<backend, doc, rows, admin, calls, unsaved>>

-----------------------------------------------------------------------------
(* store.DB *)

(* Mutant: there is no unique index on api_key. *)
SaveRowShared(a) ==
  /\ backend = "sqlite"
  /\ rows' = {r \in rows : r.id # a.id} \cup {a}
  /\ UNCHANGED <<backend, doc, admin, calls, unsaved, gateway, loaded>>

(* SaveAgent inserts or updates by agent_id; the unique index on api_key   *)
(* makes it fail when the key is another agent's.                          *)
SaveRow(a) ==
  /\ backend = "sqlite"
  /\ \A r \in rows : r.id # a.id => r.key # a.key
  /\ rows' = {r \in rows : r.id # a.id} \cup {a}
  /\ UNCHANGED <<backend, doc, admin, calls, unsaved, gateway, loaded>>

DeleteRow(n) ==
  /\ backend = "sqlite"
  /\ rows' = {r \in rows : r.id # n}
  /\ UNCHANGED <<backend, doc, admin, calls, unsaved, gateway, loaded>>

(* LoadAgents adds the rows one by one, in the order of the query, to the  *)
(* empty registry of a process that starts: entry by entry what Load does. *)
LoadRows ==
  /\ backend = "sqlite"
  /\ loaded' \in SetToSeqs(rows)
  /\ gateway' = Load(loaded')
  /\ UNCHANGED <<backend, doc, rows, admin, calls, unsaved>>

-----------------------------------------------------------------------------
Next ==
  \/ \E a \in Posted : PostAgent(a)
  \/ \E a \in Agents : SaveRow(a)
  \/ \E n \in Ids : DeleteAgent(n) \/ DeleteRow(n)
  \/ Save \/ SaveFails \/ AdminRestart
  \/ GatewayLoad \/ LoadRows

Spec == Init /\ [][Next]_vars

-----------------------------------------------------------------------------
KeyIndex == UNION {[K -> Agents] : K \in SUBSET Keys}
IdIndex == UNION {[I -> Agents] : I \in SUBSET Ids}

TypeOK ==
  /\ backend \in Backends
  /\ doc \in Seq(Agents) /\ loaded \in Seq(Agents)
  /\ rows \subseteq Agents
  /\ admin \in [byKey : KeyIndex, byID : IdIndex]
  /\ gateway \in [byKey : KeyIndex, byID : IdIndex]
  /\ calls \in 0 .. MaxCalls
  /\ unsaved \in BOOLEAN

Holders(k) == {n \in DOMAIN admin.byID : admin.byID[n].key = k}

(* A key that was rotated, disabled or deleted is dead, and the key of an  *)
(* active agent that shares it with no other works, in a gateway that      *)
(* loaded the last complete save: although Add leaves old keys in the      *)
(* admin's index, Remove may take another agent's key out of it, and the   *)
(* saved order is random.                                                  *)
GatewayKnowsTheRegistered ==
  backend = "file" /\ ~unsaved /\ loaded = doc
  => \A k \in Keys :
       LET found == LookupByKey(gateway, k) IN
       /\ found # None => found.id \in Holders(k) /\ admin.byID[found.id] = found
       /\ \A n \in Ids : Holders(k) = {n} /\ admin.byID[n].status = "active"
                         => found = admin.byID[n]

(* The gateway's two indices are of one mind, unless a file written by     *)
(* hand names an agent twice: what a key leads to is what the agent's id   *)
(* leads to.                                                               *)
IndicesAgree ==
  (\A i, j \in DOMAIN loaded : loaded[i].id = loaded[j].id => i = j)
  => \A k \in DOMAIN gateway.byKey :
       LET a == gateway.byKey[k] IN
       a.key = k /\ a.id \in DOMAIN gateway.byID /\ gateway.byID[a.id] = a

(* An admin process that restarts after a complete save has every agent    *)
(* again, as it was: with the failed saves before it, and without what was *)
(* deleted.                                                                *)
SavedWhole ==
  backend = "file" /\ ~unsaved => Load(doc).byID = admin.byID

(* Of the agents kept in SQLite every active one is found by its own key:  *)
(* the table lets no two agents share one.                                 *)
RowsResolve ==
  backend = "sqlite"
  => \A i \in DOMAIN loaded :
       loaded[i].status = "active" => LookupByKey(gateway, loaded[i].key) = loaded[i]
=============================================================================
