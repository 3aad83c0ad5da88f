--------------------------- MODULE Registry_proofs ---------------------------
(***************************************************************************)
(* Proofs about Registry, for any agents, keys and first files, and any    *)
(* number of handlers between their edit and the end of Save: what a       *)
(* gateway that loaded the last save knows of the registered agents, and   *)
(* what survives a restart.                                                *)
(***************************************************************************)
EXTENDS Registry, Integers, FiniteSetTheorems, FunctionTheorems, TLAPS

LEMMA Constants ==
  /\ None \notin Agents
  /\ FirstDocs \subseteq Seq(Agents)
  /\ Backends \subseteq {"file", "sqlite"}
  /\ MaxCalls \in Nat
BY RegistryAssumption

-----------------------------------------------------------------------------
(* Load *)

(* Of places in a list there is a last one. *)
LEMMA LastOfPlaces ==
  ASSUME NEW n \in Nat, NEW S \in SUBSET (1 .. n), S # {}
  PROVE  LastOf(S) \in S /\ \A i \in S : i <= LastOf(S)
<1> DEFINE T == {n - i : i \in S}
<1>1. T \subseteq Nat /\ T # {}
  <2>1. \A i \in S : i \in 1 .. n /\ n - i \in Nat
    OBVIOUS
  <2> QED BY <2>1
<1>2. PICK t \in T : \A u \in T : <<u, t>> \notin OpToRel(<, Nat)
  BY <1>1, NatLessThanWellFounded, WFMin
<1>3. \A u \in T : ~(u < t)
  BY <1>1, <1>2 DEF OpToRel
<1>4. PICK i \in S : t = n - i
  OBVIOUS
<1>5. \A j \in S : j <= i
  <2> TAKE j \in S
  <2>1. ~(n - j < n - i)
    BY <1>3, <1>4
  <2> QED BY <2>1
<1>6. LastOf(S) \in S /\ \A j \in S : j <= LastOf(S)
  BY <1>4, <1>5 DEF LastOf
<1> QED BY <1>6

(* What Load makes of a list: every key and id that it names leads to an   *)
(* entry about it.                                                         *)
LEMMA LoadByKey ==
  ASSUME NEW agents \in Seq(Agents)
  PROVE  /\ DOMAIN Load(agents).byKey = {agents[i].key : i \in DOMAIN agents}
         /\ \A k \in DOMAIN Load(agents).byKey :
              \E i \in DOMAIN agents : agents[i].key = k /\ Load(agents).byKey[k] = agents[i]
<1>1. Load(agents).byKey = [k \in Named(agents, "key") |-> agents[LastOf(About(agents, "key", k))]]
  BY DEF Load, Indices
<1>2. Named(agents, "key") = {agents[i].key : i \in DOMAIN agents}
  BY DEF Named
<1>3. ASSUME NEW k \in Named(agents, "key")
      PROVE  \E i \in DOMAIN agents :
               agents[i].key = k /\ agents[LastOf(About(agents, "key", k))] = agents[i]
  <2>1. About(agents, "key", k) \in SUBSET (1 .. Len(agents)) /\ About(agents, "key", k) # {}
    BY <1>3 DEF About, Named
  <2>2. LastOf(About(agents, "key", k)) \in About(agents, "key", k)
    BY <2>1, LastOfPlaces
  <2> QED BY <2>2 DEF About
<1> QED BY <1>1, <1>2, <1>3

LEMMA LoadByID ==
  ASSUME NEW agents \in Seq(Agents)
  PROVE  /\ DOMAIN Load(agents).byID = {agents[i].id : i \in DOMAIN agents}
         /\ \A n \in DOMAIN Load(agents).byID :
              \E i \in DOMAIN agents : agents[i].id = n /\ Load(agents).byID[n] = agents[i]
<1>1. Load(agents).byID = [n \in Named(agents, "id") |-> agents[LastOf(About(agents, "id", n))]]
  BY DEF Load, Indices
<1>2. Named(agents, "id") = {agents[i].id : i \in DOMAIN agents}
  BY DEF Named
<1>3. ASSUME NEW n \in Named(agents, "id")
      PROVE  \E i \in DOMAIN agents :
               agents[i].id = n /\ agents[LastOf(About(agents, "id", n))] = agents[i]
  <2>1. About(agents, "id", n) \in SUBSET (1 .. Len(agents)) /\ About(agents, "id", n) # {}
    BY <1>3 DEF About, Named
  <2>2. LastOf(About(agents, "id", n)) \in About(agents, "id", n)
    BY <2>1, LastOfPlaces
  <2> QED BY <2>2 DEF About
<1> QED BY <1>1, <1>2, <1>3

-----------------------------------------------------------------------------
(* Registries *)

Registries == [byKey : KeyIndex, byID : IdIndex]

(* An index by id of finitely many agents that are where they belong. *)
Ordered(byID) ==
  /\ byID \in IdIndex
  /\ IsFiniteSet(DOMAIN byID)
  /\ \A n \in DOMAIN byID : byID[n].id = n

Listed(byID) == {byID[n] : n \in DOMAIN byID}

LEMMA InIndex ==
  /\ \A f : f \in KeyIndex <=> f \in [DOMAIN f -> Agents] /\ DOMAIN f \in SUBSET Keys
  /\ \A f : f \in IdIndex <=> f \in [DOMAIN f -> Agents] /\ DOMAIN f \in SUBSET Ids
BY DEF KeyIndex, IdIndex

LEMMA LoadRegistry ==
  ASSUME NEW agents \in Seq(Agents)
  PROVE  Load(agents) \in Registries /\ Ordered(Load(agents).byID)
<1> DEFINE reg == Load(agents)
<1>1. reg = Indices(reg.byKey, reg.byID)
  BY DEF Load, Indices
<1>2. reg.byKey = [k \in DOMAIN reg.byKey |-> reg.byKey[k]]
      /\ reg.byID = [n \in DOMAIN reg.byID |-> reg.byID[n]]
  BY DEF Load, Indices
<1>3. \A i \in DOMAIN agents : agents[i] \in Agents /\ agents[i].id \in Ids /\ agents[i].key \in Keys
  <2>1. \A i \in DOMAIN agents : agents[i] \in Agents
    OBVIOUS
  <2>2. \A a \in Agents : a.id \in Ids /\ a.key \in Keys
    BY DEF Agents
  <2> QED BY <2>1, <2>2
<1> HIDE DEF reg
<1>4. reg.byKey \in KeyIndex
  <2>1. DOMAIN reg.byKey \in SUBSET Keys /\ \A k \in DOMAIN reg.byKey : reg.byKey[k] \in Agents
    BY <1>3, LoadByKey DEF reg
  <2> QED BY <1>2, <2>1, InIndex
<1>5. reg.byID \in IdIndex
  <2>1. DOMAIN reg.byID \in SUBSET Ids /\ \A n \in DOMAIN reg.byID : reg.byID[n] \in Agents
    BY <1>3, LoadByID DEF reg
  <2> QED BY <1>2, <2>1, InIndex
<1>6. IsFiniteSet(DOMAIN reg.byID)
  <2> DEFINE f == [i \in 1 .. Len(agents) |-> agents[i].id]
  <2>1. DOMAIN reg.byID = {agents[i].id : i \in DOMAIN agents} /\ DOMAIN agents = 1 .. Len(agents)
    BY LoadByID DEF reg
  <2>2. f \in [1 .. Len(agents) -> DOMAIN reg.byID]
        /\ \A n \in DOMAIN reg.byID : \E i \in 1 .. Len(agents) : f[i] = n
    BY <2>1
  <2>3. IsFiniteSet(1 .. Len(agents))
    BY FS_Interval
  <2> HIDE DEF f
  <2>4. f \in Surjection(1 .. Len(agents), DOMAIN reg.byID)
    BY <2>2, Fun_IsSurj
  <2> QED BY <2>3, <2>4, FS_Surjection
<1>7. \A n \in DOMAIN reg.byID : reg.byID[n].id = n
  BY LoadByID DEF reg
<1>8. reg \in Registries
  BY <1>1, <1>4, <1>5 DEF Registries, Indices
<1> QED BY <1>5, <1>6, <1>7, <1>8 DEF reg, Ordered

LEMMA AddKeepsOrder ==
  ASSUME NEW reg \in Registries, Ordered(reg.byID), NEW a \in Agents
  PROVE  AddAgent(reg, a) \in Registries /\ Ordered(AddAgent(reg, a).byID)
<1>1. a.id \in Ids /\ a.key \in Keys
  BY DEF Agents
<1>2. reg.byKey \in KeyIndex /\ reg.byID \in IdIndex
  BY DEF Registries
<1>3. With(reg.byKey, a.key, a) \in KeyIndex
  BY <1>1, <1>2, InIndex DEF With
<1>4. With(reg.byID, a.id, a) \in IdIndex
  BY <1>1, <1>2, InIndex DEF With
<1>5. IsFiniteSet(DOMAIN reg.byID \cup {a.id})
  BY FS_AddElement DEF Ordered
<1>6. Ordered(With(reg.byID, a.id, a))
  BY <1>4, <1>5 DEF Ordered, With
<1> QED BY <1>3, <1>4, <1>6 DEF AddAgent, Indices, Registries

LEMMA RemoveKeepsOrder ==
  ASSUME NEW reg \in Registries, Ordered(reg.byID), NEW n \in DOMAIN reg.byID
  PROVE  RemoveAgent(reg, n) \in Registries /\ Ordered(RemoveAgent(reg, n).byID)
<1> DEFINE k == reg.byID[n].key
<1>1. reg.byKey \in KeyIndex /\ reg.byID \in IdIndex
  BY DEF Registries
<1>2. Without(reg.byKey, k) \in KeyIndex
  BY <1>1, InIndex DEF Without
<1>3. Without(reg.byID, n) \in IdIndex
  BY <1>1, InIndex DEF Without
<1>4. IsFiniteSet(DOMAIN reg.byID \ {n})
  BY FS_RemoveElement DEF Ordered
<1>5. Ordered(Without(reg.byID, n))
  BY <1>3, <1>4 DEF Ordered, Without
<1> QED BY <1>2, <1>3, <1>5 DEF RemoveAgent, Indices, Registries

-----------------------------------------------------------------------------
(* Save *)

(* A saved list holds every agent once and nothing else. *)
LEMMA SavedList ==
  ASSUME NEW byID, Ordered(byID), NEW list \in SetToSeqs(Listed(byID))
  PROVE  /\ list \in Seq(Agents)
         /\ \A i \in DOMAIN list : list[i].id \in DOMAIN byID /\ list[i] = byID[list[i].id]
         /\ \A n \in DOMAIN byID : \E i \in DOMAIN list : list[i] = byID[n]
<1> DEFINE S == Listed(byID)
<1>1. \A a \in S : a.id \in DOMAIN byID /\ a = byID[a.id] /\ a \in Agents
  BY InIndex DEF Listed, Ordered
<1>2. IsFiniteSet(S)
  <2>1. byID \in [DOMAIN byID -> S] /\ \A a \in S : \E n \in DOMAIN byID : byID[n] = a
    BY InIndex DEF Listed, Ordered
  <2>2. byID \in Surjection(DOMAIN byID, S)
    BY <2>1, Fun_IsSurj
  <2> QED BY <2>2, FS_Surjection DEF Ordered
<1>3. \A n \in DOMAIN byID : byID[n] \in S
  BY DEF Listed
<1> HIDE DEF S
<1> DEFINE D == 1 .. Cardinality(S)
<1>4. Cardinality(S) \in Nat /\ IsFiniteSet(D) /\ Cardinality(D) = Cardinality(S)
  <2>1. Cardinality(S) \in Nat
    BY <1>2, FS_CardinalityType
  <2>2. IsFiniteSet(D) /\ Cardinality(D) = IF 1 > Cardinality(S) THEN 0 ELSE Cardinality(S) - 1 + 1
    BY <2>1, FS_Interval
  <2> QED BY <2>1, <2>2
<1>5. list \in [D -> S] /\ \A i, j \in D : list[i] = list[j] => i = j
  BY DEF SetToSeqs, S
<1> HIDE DEF D
<1>6. list \in Injection(D, S)
  BY <1>5, Fun_IsInj
<1>7. list \in Surjection(D, S)
  BY <1>2, <1>4, <1>6, FS_Injection
<1>8. \A a \in S : \E i \in D : list[i] = a
  BY <1>7, Fun_SurjectionProperties
<1>9. list \in Seq(Agents)
  BY <1>1, <1>4, <1>5 DEF D
<1>10. DOMAIN list = D
  BY <1>5
<1> QED BY <1>1, <1>3, <1>5, <1>8, <1>9, <1>10

(* Loading it gives the index by id that was saved. *)
LEMMA SavedLoads ==
  ASSUME NEW byID, Ordered(byID), NEW list \in SetToSeqs(Listed(byID))
  PROVE  Load(list).byID = byID
<1>1. list \in Seq(Agents)
  BY SavedList
<1> DEFINE new == Load(list).byID
<1>2. DOMAIN new = {list[i].id : i \in DOMAIN list}
      /\ \A n \in DOMAIN new : \E i \in DOMAIN list : list[i].id = n /\ new[n] = list[i]
  BY <1>1, LoadByID
<1>3. new = [n \in DOMAIN new |-> new[n]]
  BY DEF Load, Indices
<1> HIDE DEF new
<1>4. DOMAIN new = DOMAIN byID
  <2>1. \A i \in DOMAIN list : list[i].id \in DOMAIN byID /\ list[i] = byID[list[i].id]
    BY SavedList
  <2>2. \A n \in DOMAIN byID : \E i \in DOMAIN list : list[i] = byID[n]
    BY SavedList
  <2>3. \A n \in DOMAIN byID : byID[n].id = n
    BY DEF Ordered
  <2>4. DOMAIN new \subseteq DOMAIN byID
    BY <1>2, <2>1
  <2>5. ASSUME NEW n \in DOMAIN byID PROVE n \in DOMAIN new
    <3>1. PICK i \in DOMAIN list : list[i] = byID[n]
      BY <2>2
    <3>2. list[i].id = n
      BY <2>3, <3>1
    <3> QED BY <1>2, <3>2
  <2> QED BY <2>4, <2>5
<1>5. \A n \in DOMAIN new : new[n] = byID[n]
  <2>1. \A i \in DOMAIN list : list[i] = byID[list[i].id]
    BY SavedList
  <2> QED BY <1>2, <2>1
<1>6. byID = [n \in DOMAIN byID |-> byID[n]]
  BY InIndex DEF Ordered
<1> QED BY <1>3, <1>4, <1>5, <1>6 DEF new

-----------------------------------------------------------------------------
(* The inductive invariant *)

(* The gateway is what Load made of what it read; when the last save was   *)
(* complete, the file lists the admin process's agents; the rows of the    *)
(* table, and a list read from it, share neither ids nor keys.             *)
Distinct(S) == \A r, q \in S : r.id = q.id \/ r.key = q.key => r = q

FromFile ==
  /\ doc \in Seq(Agents) /\ loaded \in Seq(Agents)
  /\ admin \in Registries /\ Ordered(admin.byID)
  /\ gateway = Load(loaded)
  /\ backend = "file" /\ ~unsaved => doc \in All(admin)

FromRows ==
  /\ rows \subseteq Agents /\ IsFiniteSet(rows) /\ Distinct(rows)
  /\ backend = "sqlite" =>
       \A i, j \in DOMAIN loaded : loaded[i].key = loaded[j].key => i = j

Counts ==
  /\ backend \in Backends /\ unsaved \in BOOLEAN
  /\ calls \in 0 .. MaxCalls
  /\ backend = "sqlite" => calls = 0

Inv == FromFile /\ FromRows /\ Counts

LEMMA AllLists == \A reg : All(reg) = SetToSeqs(Listed(reg.byID))
BY DEF All, Listed

LEMMA NoAgents == <<>> \in Seq(Agents) /\ DOMAIN <<>> = {}
OBVIOUS

LEMMA InvInit == Init => Inv
<1> SUFFICES ASSUME Init PROVE Inv
  OBVIOUS
<1>1. doc \in Seq(Agents) /\ loaded \in Seq(Agents)
  BY Constants, NoAgents DEF Init
<1>2. gateway = Load(loaded)
  BY DEF Init
<1>3. admin \in Registries /\ Ordered(admin.byID)
  BY <1>1, LoadRegistry DEF Init
<1>4. FromFile
  BY <1>1, <1>2, <1>3 DEF Init, FromFile
<1>5. FromRows
  BY NoAgents, FS_EmptySet DEF Init, FromRows, Distinct
<1>6. Counts
  BY Constants DEF Init, Counts
<1> QED BY <1>4, <1>5, <1>6 DEF Inv

LEMMA EditKeepsInv ==
  ASSUME Inv, NEW reg \in Registries, Ordered(reg.byID), Edit(reg)
  PROVE  Inv'
<1>1. FromFile'
  BY DEF Inv, FromFile, Edit
<1>2. FromRows'
  BY DEF Inv, FromRows, Edit
<1>3. Counts'
  BY Constants DEF Inv, Counts, Edit
<1> QED BY <1>1, <1>2, <1>3 DEF Inv

LEMMA SaveKeepsInv ==
  ASSUME Inv, Save
  PROVE  Inv'
<1>1. doc' \in All(admin) /\ UNCHANGED <<backend, rows, admin, gateway, loaded>>
      /\ calls > 0 /\ calls' = calls - 1 /\ unsaved' = FALSE
  BY DEF Save
<1>2. doc' \in Seq(Agents)
  BY <1>1, AllLists, SavedList DEF Inv, FromFile
<1>3. All(admin)' = All(admin)
  BY <1>1 DEF All
<1>4. FromFile'
  BY <1>1, <1>2, <1>3 DEF Inv, FromFile
<1>5. FromRows'
  BY <1>1 DEF Inv, FromRows
<1>6. Counts'
  <2>1. calls \in 0 .. MaxCalls /\ backend \in Backends /\ (backend = "sqlite" => calls = 0)
    BY DEF Inv, Counts
  <2>2. calls' \in 0 .. MaxCalls /\ backend # "sqlite"
    BY <1>1, <2>1, Constants
  <2>3. unsaved' \in BOOLEAN
    BY <1>1
  <2> QED BY <1>1, <2>1, <2>2, <2>3 DEF Counts
<1> QED BY <1>4, <1>5, <1>6 DEF Inv

LEMMA RestartKeepsInv ==
  ASSUME Inv, AdminRestart
  PROVE  Inv'
<1>1. admin' = Load(doc) /\ calls' = 0
      /\ UNCHANGED <<backend, doc, rows, unsaved, gateway, loaded>>
  BY DEF AdminRestart
<1>2. doc \in Seq(Agents)
  BY DEF Inv, FromFile
<1>3. admin' \in Registries /\ Ordered(admin'.byID)
  BY <1>1, <1>2, LoadRegistry
<1>4. ASSUME backend = "file", ~unsaved
      PROVE  doc' \in All(admin')
  <2>1. doc \in SetToSeqs(Listed(admin.byID)) /\ Ordered(admin.byID)
    BY <1>4, AllLists DEF Inv, FromFile
  <2>2. admin'.byID = admin.byID
    BY <1>1, <2>1, SavedLoads
  <2> QED BY <1>1, <2>1, <2>2, AllLists
<1>5. FromFile'
  BY <1>1, <1>3, <1>4 DEF Inv, FromFile
<1>6. FromRows'
  BY <1>1 DEF Inv, FromRows
<1>7. Counts'
  BY <1>1, Constants DEF Inv, Counts
<1> QED BY <1>5, <1>6, <1>7 DEF Inv

LEMMA RowsKeepInv ==
  ASSUME Inv, NEW S, S \subseteq Agents, IsFiniteSet(S), Distinct(S), rows' = S,
         UNCHANGED <<backend, doc, admin, calls, unsaved, gateway, loaded>>
  PROVE  Inv'
<1>1. FromFile'
  BY DEF Inv, FromFile, All
<1>2. FromRows'
  BY DEF Inv, FromRows
<1>3. Counts'
  BY DEF Inv, Counts
<1> QED BY <1>1, <1>2, <1>3 DEF Inv

LEMMA LoadRowsKeepsInv ==
  ASSUME Inv, LoadRows
  PROVE  Inv'
<1>1. /\ backend = "sqlite" /\ loaded' \in SetToSeqs(rows) /\ gateway' = Load(loaded')
      /\ UNCHANGED <<backend, doc, rows, admin, calls, unsaved>>
  BY DEF LoadRows
<1>2. Cardinality(rows) \in Nat /\ rows \subseteq Agents /\ Distinct(rows)
  BY FS_CardinalityType DEF Inv, FromRows
<1> DEFINE D == 1 .. Cardinality(rows)
<1>3. loaded' \in [D -> rows] /\ \A i, j \in D : loaded'[i] = loaded'[j] => i = j
  BY <1>1 DEF SetToSeqs
<1>4. loaded' \in Seq(Agents) /\ DOMAIN loaded' = D
  BY <1>2, <1>3
<1> HIDE DEF D
<1>5. \A i, j \in DOMAIN loaded' : loaded'[i].key = loaded'[j].key => i = j
  BY <1>2, <1>3, <1>4 DEF Distinct
<1>6. FromFile'
  BY <1>1, <1>4 DEF Inv, FromFile, All
<1>7. FromRows'
  BY <1>1, <1>5 DEF Inv, FromRows
<1>8. Counts'
  BY <1>1 DEF Inv, Counts
<1> QED BY <1>6, <1>7, <1>8 DEF Inv

LEMMA InvNext == Inv /\ [Next]_vars => Inv'
<1> SUFFICES ASSUME Inv, [Next]_vars PROVE Inv'
  OBVIOUS
<1>1. CASE UNCHANGED vars
  BY <1>1 DEF vars, Inv, FromFile, FromRows, Counts, All
<1>2. ASSUME NEW a \in Posted, PostAgent(a) PROVE Inv'
  <2>1. Filled(a) \in Agents
    BY DEF Filled, Posted, Agents, Status
  <2>2. AddAgent(admin, Filled(a)) \in Registries /\ Ordered(AddAgent(admin, Filled(a)).byID)
    BY <2>1, AddKeepsOrder DEF Inv, FromFile
  <2> QED BY <1>2, <2>2, EditKeepsInv DEF PostAgent
<1>3. ASSUME NEW n \in Ids, DeleteAgent(n) PROVE Inv'
  <2>1. RemoveAgent(admin, n) \in Registries /\ Ordered(RemoveAgent(admin, n).byID)
    BY <1>3, RemoveKeepsOrder DEF DeleteAgent, Inv, FromFile
  <2> QED BY <1>3, <2>1, EditKeepsInv DEF DeleteAgent
<1>4. CASE Save
  BY <1>4, SaveKeepsInv
<1>5. CASE SaveFails
  BY <1>5, Constants DEF SaveFails, Inv, FromFile, FromRows, Counts, All
<1>6. CASE AdminRestart
  BY <1>6, RestartKeepsInv
<1>7. CASE GatewayLoad
  <2>1. FromFile'
    BY <1>7 DEF GatewayLoad, Inv, FromFile, All
  <2>2. FromRows' /\ Counts'
    BY <1>7 DEF GatewayLoad, Inv, FromRows, Counts
  <2> QED BY <2>1, <2>2 DEF Inv
<1>8. ASSUME NEW a \in Agents, SaveRow(a) PROVE Inv'
  <2> DEFINE S == {r \in rows : r.id # a.id} \cup {a}
  <2>1. rows \subseteq Agents /\ IsFiniteSet(rows) /\ Distinct(rows)
    BY DEF Inv, FromRows
  <2>2. S \subseteq Agents
    BY <2>1
  <2>3. IsFiniteSet(S)
    <3>1. IsFiniteSet({r \in rows : r.id # a.id})
      BY <2>1, FS_Subset
    <3> QED BY <3>1, FS_AddElement
  <2>4. Distinct(S)
    BY <1>8, <2>1 DEF SaveRow, Distinct
  <2>5. rows' = S /\ UNCHANGED <<backend, doc, admin, calls, unsaved, gateway, loaded>>
    BY <1>8 DEF SaveRow
  <2> HIDE DEF S
  <2> QED BY <2>2, <2>3, <2>4, <2>5, RowsKeepInv
<1>9. ASSUME NEW n \in Ids, DeleteRow(n) PROVE Inv'
  <2> DEFINE S == {r \in rows : r.id # n}
  <2>1. rows \subseteq Agents /\ IsFiniteSet(rows) /\ Distinct(rows)
    BY DEF Inv, FromRows
  <2>2. S \subseteq Agents /\ IsFiniteSet(S) /\ Distinct(S)
    BY <2>1, FS_Subset DEF Distinct
  <2>3. rows' = S /\ UNCHANGED <<backend, doc, admin, calls, unsaved, gateway, loaded>>
    BY <1>9 DEF DeleteRow
  <2> HIDE DEF S
  <2> QED BY <2>2, <2>3, RowsKeepInv
<1>10. CASE LoadRows
  BY <1>10, LoadRowsKeepsInv
<1> QED BY <1>1, <1>2, <1>3, <1>4, <1>5, <1>6, <1>7, <1>8, <1>9, <1>10 DEF Next

THEOREM InductiveInv == Spec => []Inv
BY InvInit, InvNext, PTL DEF Spec

-----------------------------------------------------------------------------
(* The properties *)

(* Both indices map their keys to agents, in the admin process and in the  *)
(* gateway, and the counters stay in their ranges (registry.go, Registry). *)
THEOREM TypeCorrect == Spec => []TypeOK
<1>1. Inv => TypeOK
  <2> SUFFICES ASSUME Inv PROVE TypeOK
    OBVIOUS
  <2>1. gateway \in Registries
    BY LoadRegistry DEF Inv, FromFile
  <2> QED BY <2>1 DEF Inv, FromFile, FromRows, Counts, Registries, TypeOK
<1> QED BY <1>1, InductiveInv, PTL

(* What a key leads to in the gateway, and what the agent's id leads to,   *)
(* is the same, unless the file names an agent twice (registry.go, Load).  *)
THEOREM OneMind == Spec => []IndicesAgree
<1>1. Inv => IndicesAgree
  <2> SUFFICES ASSUME Inv,
                      \A i, j \in DOMAIN loaded : loaded[i].id = loaded[j].id => i = j,
                      NEW k \in DOMAIN gateway.byKey
               PROVE  LET a == gateway.byKey[k] IN
                      a.key = k /\ a.id \in DOMAIN gateway.byID /\ gateway.byID[a.id] = a
    BY DEF IndicesAgree
  <2>1. loaded \in Seq(Agents) /\ gateway = Load(loaded)
    BY DEF Inv, FromFile
  <2>2. PICK i \in DOMAIN loaded : loaded[i].key = k /\ gateway.byKey[k] = loaded[i]
    BY <2>1, LoadByKey
  <2>3. loaded[i].id \in DOMAIN gateway.byID
    BY <2>1, LoadByID
  <2>4. PICK j \in DOMAIN loaded :
          loaded[j].id = loaded[i].id /\ gateway.byID[loaded[i].id] = loaded[j]
    BY <2>1, <2>3, LoadByID
  <2>5. i = j
    BY <2>4
  <2> QED BY <2>2, <2>3, <2>4, <2>5
<1> QED BY <1>1, InductiveInv, PTL

(* After a complete save a restart brings every agent back and no other    *)
(* (registry.go, Save and Load).                                           *)
THEOREM SavesAreWhole == Spec => []SavedWhole
<1>1. Inv => SavedWhole
  <2> SUFFICES ASSUME Inv, backend = "file", ~unsaved PROVE Load(doc).byID = admin.byID
    BY DEF SavedWhole
  <2>1. doc \in SetToSeqs(Listed(admin.byID)) /\ Ordered(admin.byID)
    BY AllLists DEF Inv, FromFile
  <2> QED BY <2>1, SavedLoads
<1> QED BY <1>1, InductiveInv, PTL

(* A gateway that loaded the last complete save lets in, by key, only      *)
(* agents that are registered with that key, and every active one that     *)
(* shares its key with no other (registry.go, LookupByKey).                *)
THEOREM TheRegisteredAreKnown == Spec => []GatewayKnowsTheRegistered
<1>1. Inv => GatewayKnowsTheRegistered
  <2> SUFFICES ASSUME Inv, backend = "file", ~unsaved, loaded = doc, NEW k \in Keys
               PROVE  LET found == LookupByKey(gateway, k) IN
                      /\ found # None => found.id \in Holders(k) /\ admin.byID[found.id] = found
                      /\ \A n \in Ids : Holders(k) = {n} /\ admin.byID[n].status = "active"
                                        => found = admin.byID[n]
    BY DEF GatewayKnowsTheRegistered
  <2> DEFINE found == LookupByKey(gateway, k)
  <2>1. doc \in SetToSeqs(Listed(admin.byID)) /\ Ordered(admin.byID)
    BY AllLists DEF Inv, FromFile
  <2>2. doc \in Seq(Agents) /\ gateway = Load(doc)
    BY DEF Inv, FromFile
  <2>3. \A i \in DOMAIN doc : doc[i].id \in DOMAIN admin.byID /\ doc[i] = admin.byID[doc[i].id]
    BY <2>1, SavedList
  <2>4. \A n \in DOMAIN admin.byID : \E i \in DOMAIN doc : doc[i] = admin.byID[n]
    BY <2>1, SavedList
  <2>5. DOMAIN gateway.byKey = {doc[i].key : i \in DOMAIN doc}
    BY <2>2, LoadByKey
  <2>6. ASSUME k \in DOMAIN gateway.byKey
        PROVE  gateway.byKey[k].id \in Holders(k) /\ admin.byID[gateway.byKey[k].id] = gateway.byKey[k]
    <3>1. PICK i \in DOMAIN doc : doc[i].key = k /\ gateway.byKey[k] = doc[i]
      BY <2>2, <2>6, LoadByKey
    <3> QED BY <2>3, <3>1 DEF Holders
  <2>7. ASSUME found # None
        PROVE  found.id \in Holders(k) /\ admin.byID[found.id] = found
    BY <2>6, <2>7 DEF LookupByKey
  <2>8. ASSUME NEW n \in Ids, Holders(k) = {n}, admin.byID[n].status = "active"
        PROVE  found = admin.byID[n]
    <3>1. n \in DOMAIN admin.byID /\ admin.byID[n].key = k
      BY <2>8 DEF Holders
    <3>2. k \in DOMAIN gateway.byKey
      BY <2>4, <2>5, <3>1
    <3>3. gateway.byKey[k] = admin.byID[n]
      BY <2>6, <2>8, <3>2
    <3> QED BY <2>8, <3>2, <3>3 DEF LookupByKey
  <2> QED BY <2>7, <2>8
<1> QED BY <1>1, InductiveInv, PTL

(* Of the agents kept in SQLite every active one is found by its own key   *)
(* (sqlite.go, the unique index on api_key).                               *)
THEOREM RowsAreFound == Spec => []RowsResolve
<1>1. Inv => RowsResolve
  <2> SUFFICES ASSUME Inv, backend = "sqlite", NEW i \in DOMAIN loaded, loaded[i].status = "active"
               PROVE  LookupByKey(gateway, loaded[i].key) = loaded[i]
    BY DEF RowsResolve
  <2>1. loaded \in Seq(Agents) /\ gateway = Load(loaded)
    BY DEF Inv, FromFile
  <2>2. loaded[i].key \in DOMAIN gateway.byKey
    BY <2>1, LoadByKey
  <2>3. PICK j \in DOMAIN loaded :
          loaded[j].key = loaded[i].key /\ gateway.byKey[loaded[i].key] = loaded[j]
    BY <2>1, <2>2, LoadByKey
  <2>4. i = j
    BY <2>3 DEF Inv, FromRows
  <2> QED BY <2>2, <2>3, <2>4 DEF LookupByKey
<1> QED BY <1>1, InductiveInv, PTL
=============================================================================
