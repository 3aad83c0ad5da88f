-------------------------- MODULE ConfigSync_proofs --------------------------
(***************************************************************************)
(* Proofs about ConfigSync, for any number of tables and handlers and any  *)
(* assignment of handlers to tables: what a table with a single writer is  *)
(* promised, whatever happens to the other tables.                         *)
(***************************************************************************)
EXTENDS ConfigSync, TLAPS

LEMMA Constants ==
  /\ N \in Nat /\ N # 0
  /\ TableOf \in [Handlers -> Tables]
  /\ NoInode \notin Inodes
  /\ FirstLive \subseteq Inodes \cup {NoInode}
  /\ MaxRev \in Nat /\ MaxFaults \in Nat
BY ConfigAssumption

(* The three markers are no revisions, and a position is 0 or a table. *)
LEMMA Markers ==
  /\ Empty \in Contents /\ Garbled \in Contents /\ NotRead \notin Contents
  /\ Empty \notin Nat /\ Garbled \notin Nat /\ Nat \subseteq Contents
  /\ \A c \in Contents : c \notin {Empty, Garbled} => c \in Nat
BY DEF Empty, Garbled, NotRead, Contents

LEMMA Positions ==
  /\ 0 \in 0 .. N /\ 1 \in 0 .. N
  /\ \A i \in 0 .. N : i # 0 => i \in Tables
  /\ \A i \in 0 .. N : i < N => i + 1 \in 0 .. N
BY Constants DEF Tables

LEMMA FaultBound == ASSUME NEW kind, faults \in 0 .. MaxFaults, Fault(kind)
                    PROVE  faults' \in 0 .. MaxFaults
BY Constants DEF Fault

-----------------------------------------------------------------------------
(* Every reachable state has the declared types: the gateway only ever     *)
(* holds revisions of complete tables, whatever the files hold.            *)
THEOREM TypeCorrect == Spec => []TypeOK
<1> USE Constants, Markers, Positions DEF Steps
<1>1. Init => TypeOK
  <2> SUFFICES ASSUME Init PROVE TypeOK
    OBVIOUS
  <2>1. content \in [Tables -> [Inodes -> Contents]]
    BY DEF Init
  <2>2. gbuf \in Contents \cup {NotRead} /\ gpos \in 0 .. N /\ faults \in 0 .. MaxFaults
    BY DEF Init
  <2> QED
    BY <2>1, <2>2 DEF Init, TypeOK
<1>2. TypeOK /\ [Next]_vars => TypeOK'
  <2> SUFFICES ASSUME TypeOK, [Next]_vars PROVE TypeOK'
    OBVIOUS
  <2>1. ASSUME NEW h \in Handlers, Mutate(h) PROVE TypeOK'
    BY <2>1 DEF TypeOK, Mutate, fileVars, gwVars
  <2>2. ASSUME NEW h \in Handlers, Snapshot(h) PROVE TypeOK'
    BY <2>2 DEF TypeOK, Snapshot, fileVars, gwVars
  <2>3. ASSUME NEW h \in Handlers, OpenTemp(h) PROVE TypeOK'
    <3>1. TableOf[h] \in Tables
      OBVIOUS
    <3>2. PICK i \in Inodes \cup {NoInode} :
            /\ i \in IF temp[TableOf[h]] = NoInode THEN FreeInodes(TableOf[h])
                                                   ELSE {temp[TableOf[h]]}
            /\ temp' = [temp EXCEPT ![TableOf[h]] = i]
            /\ fd' = [fd EXCEPT ![h] = i]
            /\ content' = [content EXCEPT ![TableOf[h]][i] = Empty]
      BY <2>3, <3>1 DEF OpenTemp, FreeInodes, TypeOK
    <3>3. i \in Inodes
      BY <3>1, <3>2 DEF FreeInodes, TypeOK
    <3>4. content' \in [Tables -> [Inodes -> Contents]]
      BY <3>1, <3>2, <3>3 DEF TypeOK
    <3> QED
      BY <2>3, <3>2, <3>3, <3>4 DEF TypeOK, OpenTemp, gwVars
  <2>4. ASSUME NEW h \in Handlers, WriteTemp(h) PROVE TypeOK'
    <3>1. PICK c \in Overwrite(content[TableOf[h]][fd[h]], snap[h]) :
            content' = [content EXCEPT ![TableOf[h]][fd[h]] = c]
      BY <2>4 DEF WriteTemp
    <3>2. c \in Contents
      BY <3>1 DEF Overwrite, TypeOK
    <3>3. content' \in [Tables -> [Inodes -> Contents]]
      BY <3>1, <3>2 DEF TypeOK
    <3> QED
      BY <2>4, <3>3 DEF TypeOK, WriteTemp, gwVars
  <2>5. ASSUME NEW h \in Handlers, Rename(h) PROVE TypeOK'
    BY <2>5 DEF TypeOK, Rename, gwVars
  <2>6. ASSUME NEW h \in Handlers, RenameMissing(h) PROVE TypeOK'
    BY <2>6 DEF TypeOK, RenameMissing, fileVars, gwVars
  <2>7. ASSUME NEW h \in Handlers, Signal(h) PROVE TypeOK'
    BY <2>7 DEF TypeOK, Signal, fileVars
  <2>8. ASSUME NEW h \in Handlers, SaveError(h) PROVE TypeOK'
    <3>1. content' \in [Tables -> [Inodes -> Contents]]
      <4>1. CASE UNCHANGED content
        BY <4>1 DEF TypeOK
      <4>2. ASSUME NEW c \in {Empty, Garbled},
                   content' = [content EXCEPT ![TableOf[h]][fd[h]] = c]
            PROVE  content' \in [Tables -> [Inodes -> Contents]]
        BY <4>2 DEF TypeOK
      <4> QED
        BY <2>8, <4>1, <4>2 DEF SaveError
    <3>2. faults' \in 0 .. MaxFaults
      BY <2>8, FaultBound DEF SaveError, TypeOK
    <3> QED
      BY <2>8, <3>1, <3>2 DEF TypeOK, SaveError, gwVars
  <2>9. CASE AdminCrash
    <3>1. faults' \in 0 .. MaxFaults
      BY <2>9, FaultBound DEF AdminCrash, TypeOK
    <3> QED
      BY <2>9, <3>1 DEF TypeOK, AdminCrash, fileVars, gwVars
  <2>10. CASE AdminStart
    BY <2>10 DEF TypeOK, AdminStart, Parses, fileVars, gwVars
  <2>11. CASE GatewayStep
    <3>1. \A t \in Tables : Disk(t) \in Contents
      BY DEF Disk, TypeOK
    <3>2. CASE TakeSignal
      BY <3>2 DEF TypeOK, TakeSignal, adminVars, fileVars
    <3>3. CASE ReadTable
      <4>1. gpos \in Tables
        <5>1. gpos \in 0 .. N /\ gpos # 0
          BY <3>3 DEF ReadTable, TypeOK
        <5> QED
          BY <5>1
      <4>2. gbuf' \in Contents
        BY <3>1, <3>3, <4>1 DEF ReadTable
      <4> QED
        BY <3>3, <4>2 DEF TypeOK, ReadTable, adminVars, fileVars
    <3>4. CASE SwapTable
      <4>1. gpos \in Tables /\ gbuf \in Nat
        <5>1. gpos \in 0 .. N /\ gpos # 0 /\ gbuf \in Nat
          BY <3>4 DEF SwapTable, Parses, TypeOK
        <5> QED
          BY <5>1
      <4>2. gpos' \in 0 .. N
        BY <3>4 DEF SwapTable, NextTable, TypeOK
      <4>3. gtab' \in [Tables -> Nat]
        BY <3>4, <4>1 DEF SwapTable, TypeOK
      <4> QED
        BY <3>4, <4>2, <4>3 DEF TypeOK, SwapTable, adminVars, fileVars
    <3>5. CASE KeepTable
      BY <3>5 DEF TypeOK, KeepTable, NextTable, adminVars, fileVars
    <3>6. CASE AbortStart
      BY <3>6 DEF TypeOK, AbortStart, adminVars, fileVars
    <3>7. CASE GatewayStart
      BY <3>7 DEF TypeOK, GatewayStart, adminVars, fileVars
    <3>8. CASE NotifyRegistered
      BY <3>8 DEF TypeOK, NotifyRegistered, adminVars, fileVars
    <3> QED
      BY <2>11, <3>2, <3>3, <3>4, <3>5, <3>6, <3>7, <3>8 DEF GatewayStep
  <2>12. CASE ReadError
    <3>1. faults' \in 0 .. MaxFaults
      BY <2>12, FaultBound DEF ReadError, TypeOK
    <3>2. gpos \in Tables
      <4>1. gpos \in 0 .. N /\ gpos # 0
        BY <2>12 DEF ReadError, TypeOK
      <4> QED
        BY <4>1
    <3> QED
      BY <2>12, <3>1, <3>2 DEF TypeOK, ReadError, adminVars, fileVars
  <2>13. CASE GatewayCrash
    <3>1. faults' \in 0 .. MaxFaults
      BY <2>13, FaultBound DEF GatewayCrash, TypeOK
    <3> QED
      BY <2>13, <3>1 DEF TypeOK, GatewayCrash, adminVars, fileVars
  <2>14. CASE UNCHANGED vars
    BY <2>14 DEF TypeOK, vars
  <2> QED
    BY <2>1, <2>2, <2>3, <2>4, <2>5, <2>6, <2>7, <2>8, <2>9, <2>10, <2>11,
       <2>12, <2>13, <2>14 DEF Next, SaveStep
<1> QED
  BY <1>1, <1>2, PTL DEF Spec

-----------------------------------------------------------------------------
(***************************************************************************)
(* The files.  A single writer owns its .tmp inode from the open to the    *)
(* rename, so the inode named path is never written; the revision it saves *)
(* is newer than the one on disk; and what was acknowledged is on disk.    *)
(***************************************************************************)
HandlerOK(h) ==
  LET t == TableOf[h] IN
  /\ pc[h] # "idle" => adm = "up"
  /\ pc[h] \in {"snapshot", "open", "write", "rename"} => Disk(t) < mem[t] /\ rev[h] = mem[t]
  /\ pc[h] \in {"open", "write", "rename"} => snap[h] = mem[t]
  /\ pc[h] = "write" => fd[h] = temp[t] /\ temp[t] \in Inodes /\ content[t][temp[t]] = Empty
  /\ pc[h] = "rename" => temp[t] \in Inodes /\ content[t][temp[t]] = snap[h]
  /\ pc[h] = "signal" => Disk(t) = rev[h]

FileOK(t) ==
  /\ Disk(t) \in Nat
  /\ live[t] # NoInode => live[t] # temp[t]
  /\ acked[t] <= Disk(t)
  /\ adm = "up" => Disk(t) <= mem[t]

FileInv ==
  /\ \A t \in Solo : FileOK(t)
  /\ \A h \in Handlers : TableOf[h] \in Solo => HandlerOK(h)

LEMMA SoloWriter ==
  ASSUME NEW g \in Handlers, NEW h \in Handlers,
         TableOf[g] = TableOf[h], TableOf[g] \in Solo
  PROVE  g = h
BY DEF Solo

LEMMA SoloTables == Solo \subseteq Tables
BY DEF Solo

(* What a step leaves alone it leaves as good as it was. *)
LEMMA FileFrame ==
  ASSUME NEW t \in Solo, FileOK(t),
         live'[t] = live[t], temp'[t] = temp[t], content'[t] = content[t],
         acked'[t] = acked[t], mem'[t] = mem[t], adm' = adm
  PROVE  FileOK(t)' /\ Disk(t)' = Disk(t)
BY DEF FileOK, Disk

LEMMA HandlerFrame ==
  ASSUME NEW h \in Handlers, HandlerOK(h), TableOf[h] \in Solo,
         pc'[h] \in {pc[h], "idle"}, rev'[h] = rev[h], snap'[h] = snap[h],
         fd'[h] = fd[h] \/ pc'[h] = "idle",
         live'[TableOf[h]] = live[TableOf[h]], temp'[TableOf[h]] = temp[TableOf[h]],
         content'[TableOf[h]] = content[TableOf[h]] \/ pc'[h] = "idle",
         mem'[TableOf[h]] = mem[TableOf[h]], adm' = adm \/ pc'[h] = "idle"
  PROVE  HandlerOK(h)'
BY DEF HandlerOK, Disk

LEMMA FileInvInit == Init => FileInv
<1> SUFFICES ASSUME Init PROVE FileInv
  OBVIOUS
<1> USE Constants, SoloTables
<1>1. ASSUME NEW t \in Solo PROVE FileOK(t)
  BY DEF Init, FileOK, Disk
<1>2. ASSUME NEW h \in Handlers PROVE HandlerOK(h)
  BY DEF Init, HandlerOK
<1> QED
  BY <1>1, <1>2 DEF FileInv

(* A handler's step disturbs no table but its own and no handler but       *)
(* itself, so only those two have to be looked at.                         *)
Elsewhere(h) ==
  /\ adm' = adm
  /\ \A t \in Tables \ {TableOf[h]} :
       /\ live'[t] = live[t] /\ temp'[t] = temp[t] /\ content'[t] = content[t]
       /\ acked'[t] = acked[t] /\ mem'[t] = mem[t]
  /\ \A g \in Handlers \ {h} :
       pc'[g] = pc[g] /\ rev'[g] = rev[g] /\ snap'[g] = snap[g] /\ fd'[g] = fd[g]

LEMMA OwnTableOnly ==
  ASSUME FileInv, NEW h \in Handlers, Elsewhere(h),
         TableOf[h] \in Solo => FileOK(TableOf[h])' /\ HandlerOK(h)'
  PROVE  FileInv'
<1>1. ASSUME NEW t \in Solo PROVE FileOK(t)'
  <2>1. CASE t = TableOf[h]
    BY <2>1
  <2>2. CASE t # TableOf[h]
    BY <2>2, FileFrame, SoloTables DEF Elsewhere, FileInv
  <2> QED
    BY <2>1, <2>2
<1>2. ASSUME NEW g \in Handlers, TableOf[g] \in Solo PROVE HandlerOK(g)'
  <2>1. CASE g = h
    BY <1>2, <2>1
  <2>2. CASE g # h
    <3>1. TableOf[g] \in Tables \ {TableOf[h]}
      BY <1>2, <2>2, SoloWriter, SoloTables
    <3>2. HandlerOK(g)
      BY <1>2 DEF FileInv
    <3> QED
      BY <1>2, <2>2, <3>1, <3>2, HandlerFrame DEF Elsewhere
  <2> QED
    BY <2>1, <2>2
<1> QED
  BY <1>1, <1>2 DEF FileInv

(* Only a rename changes what a reader of a single-writer table sees, and  *)
(* it changes it to the writer's newer revision.                           *)
LEMMA DiskMoves ==
  ASSUME TypeOK, FileInv, NEW h \in Handlers,
         Mutate(h) \/ SaveStep(h) \/ SaveError(h), NEW t \in Solo
  PROVE  \/ Disk(t)' = Disk(t)
         \/ Rename(h) /\ TableOf[h] = t /\ Disk(t)' = snap[h] /\ Disk(t) < Disk(t)'
<1>0. /\ TableOf[h] \in Tables /\ t \in Tables /\ NoInode \notin Inodes
      /\ FileOK(t) /\ (TableOf[h] = t => HandlerOK(h))
  BY Constants, SoloTables DEF FileInv
<1>1. CASE Mutate(h) \/ Snapshot(h) \/ RenameMissing(h) \/ Signal(h)
  BY <1>1 DEF Mutate, Snapshot, RenameMissing, Signal, fileVars, Disk
<1>2. CASE OpenTemp(h)
  <2>1. PICK i : /\ i \in IF temp[TableOf[h]] = NoInode THEN FreeInodes(TableOf[h])
                                                        ELSE {temp[TableOf[h]]}
                 /\ content' = [content EXCEPT ![TableOf[h]][i] = Empty]
    BY <1>2 DEF OpenTemp
  <2>2. i \in Inodes /\ (TableOf[h] = t => live[t] # i)
    BY <1>0, <2>1 DEF FreeInodes, FileOK, TypeOK
  <2> QED
    BY <1>0, <1>2, <2>1, <2>2 DEF OpenTemp, Disk, TypeOK
<1>3. CASE WriteTemp(h) \/ (SaveError(h) /\ pc[h] = "write")
  <2>1. live' = live /\ \E c \in Contents : content' = [content EXCEPT ![TableOf[h]][fd[h]] = c]
    BY <1>0, <1>3, Markers DEF WriteTemp, SaveError, Overwrite, TypeOK
  <2>2. TableOf[h] = t => live[t] # fd[h]
    BY <1>0, <1>3 DEF WriteTemp, FileOK, HandlerOK
  <2> QED
    BY <1>0, <2>1, <2>2 DEF Disk, TypeOK
<1>4. CASE SaveError(h) /\ pc[h] # "write"
  BY <1>4 DEF SaveError, Disk
<1>5. CASE Rename(h)
  <2>1. CASE TableOf[h] = t
    <3>1. /\ temp[t] \in Inodes /\ content[t][temp[t]] = snap[h]
          /\ snap[h] = mem[t] /\ Disk(t) < mem[t]
      BY <1>0, <1>5, <2>1 DEF Rename, HandlerOK
    <3> QED
      BY <1>0, <1>5, <2>1, <3>1 DEF Rename, Disk, TypeOK
  <2>2. CASE TableOf[h] # t
    BY <1>0, <1>5, <2>2 DEF Rename, Disk, TypeOK
  <2> QED
    BY <2>1, <2>2
<1> QED
  BY <1>1, <1>2, <1>3, <1>4, <1>5 DEF SaveStep

LEMMA HandlerKeepsFileInv ==
  ASSUME TypeOK, FileInv, NEW h \in Handlers,
         Mutate(h) \/ SaveStep(h) \/ SaveError(h)
  PROVE  FileInv'
<1> DEFINE t == TableOf[h]
<1>0. t \in Tables /\ NoInode \notin Inodes
  BY Constants
<1>1. CASE Mutate(h)
  <2>1. Elsewhere(h)
    BY <1>0, <1>1 DEF Mutate, Elsewhere, TypeOK, fileVars
  <2>2. ASSUME t \in Solo PROVE FileOK(t)' /\ HandlerOK(h)'
    BY <1>0, <1>1, <2>2 DEF Mutate, FileInv, FileOK, HandlerOK, Disk, TypeOK, fileVars
  <2> QED
    BY <2>1, <2>2, OwnTableOnly
<1>2. CASE Snapshot(h)
  <2>1. Elsewhere(h)
    BY <1>0, <1>2 DEF Snapshot, Elsewhere, TypeOK, fileVars
  <2>2. ASSUME t \in Solo PROVE FileOK(t)' /\ HandlerOK(h)'
    BY <1>0, <1>2, <2>2 DEF Snapshot, FileInv, FileOK, HandlerOK, Disk, TypeOK, fileVars
  <2> QED
    BY <2>1, <2>2, OwnTableOnly
<1>3. CASE OpenTemp(h)
  <2>1. PICK i : /\ i \in IF temp[t] = NoInode THEN FreeInodes(t) ELSE {temp[t]}
                 /\ temp' = [temp EXCEPT ![t] = i]
                 /\ fd' = [fd EXCEPT ![h] = i]
                 /\ content' = [content EXCEPT ![t][i] = Empty]
    BY <1>3 DEF OpenTemp
  <2>2. i \in Inodes
    BY <1>0, <2>1 DEF FreeInodes, TypeOK
  <2>3. Elsewhere(h)
    BY <1>0, <1>3, <2>1 DEF OpenTemp, Elsewhere, TypeOK
  <2>4. ASSUME t \in Solo PROVE FileOK(t)' /\ HandlerOK(h)'
    <3>1. live[t] # i
      BY <1>0, <2>1, <2>2, <2>4 DEF FreeInodes, FileInv, FileOK, TypeOK
    <3>2. Disk(t)' = Disk(t)
      BY <1>3, <2>4, DiskMoves DEF OpenTemp, Rename, SaveStep
    <3>3. temp'[t] = i /\ fd'[h] = i /\ content'[t][i] = Empty
      BY <1>0, <2>1, <2>2 DEF TypeOK
    <3>4. FileOK(t)'
      BY <1>0, <1>3, <2>4, <3>1, <3>2, <3>3 DEF OpenTemp, FileInv, FileOK
    <3>5. HandlerOK(h)'
      BY <1>0, <1>3, <2>2, <2>4, <3>2, <3>3 DEF OpenTemp, FileInv, HandlerOK, TypeOK
    <3> QED
      BY <3>4, <3>5
  <2> QED
    BY <2>3, <2>4, OwnTableOnly
<1>4. CASE WriteTemp(h)
  <2>1. PICK c \in Overwrite(content[t][fd[h]], snap[h]) :
          content' = [content EXCEPT ![t][fd[h]] = c]
    BY <1>4 DEF WriteTemp
  <2>2. Elsewhere(h)
    BY <1>0, <1>4, <2>1 DEF WriteTemp, Elsewhere, TypeOK
  <2>3. ASSUME t \in Solo PROVE FileOK(t)' /\ HandlerOK(h)'
    <3>1. fd[h] = temp[t] /\ temp[t] \in Inodes /\ c = snap[h]
      BY <1>4, <2>1, <2>3 DEF WriteTemp, FileInv, HandlerOK, Overwrite
    <3>2. Disk(t)' = Disk(t)
      BY <1>4, <2>3, DiskMoves DEF WriteTemp, Rename, SaveStep
    <3>3. content'[t][temp[t]] = snap[h]
      BY <1>0, <2>1, <3>1 DEF TypeOK
    <3>4. FileOK(t)'
      BY <1>4, <2>3, <3>2 DEF WriteTemp, FileInv, FileOK
    <3>5. HandlerOK(h)'
      BY <1>0, <1>4, <2>3, <3>1, <3>2, <3>3 DEF WriteTemp, FileInv, HandlerOK, TypeOK
    <3> QED
      BY <3>4, <3>5
  <2> QED
    BY <2>2, <2>3, OwnTableOnly
<1>5. CASE Rename(h)
  <2>1. Elsewhere(h)
    BY <1>0, <1>5 DEF Rename, Elsewhere, TypeOK
  <2>2. ASSUME t \in Solo PROVE FileOK(t)' /\ HandlerOK(h)'
    <3>1. live'[t] = temp[t] /\ temp'[t] = NoInode /\ content' = content
      BY <1>0, <1>5 DEF Rename, TypeOK
    <3>2. /\ temp[t] \in Inodes /\ content[t][temp[t]] = snap[h]
          /\ snap[h] = mem[t] /\ rev[h] = mem[t] /\ Disk(t) < mem[t]
      BY <1>5, <2>2 DEF Rename, FileInv, HandlerOK
    <3>3. Disk(t)' = mem[t]
      BY <1>0, <3>1, <3>2 DEF Disk
    <3>4. FileOK(t)'
      BY <1>0, <1>5, <2>2, <3>1, <3>2, <3>3 DEF Rename, FileInv, FileOK, TypeOK
    <3>5. HandlerOK(h)'
      BY <1>0, <1>5, <2>2, <3>2, <3>3 DEF Rename, FileInv, HandlerOK, TypeOK
    <3> QED
      BY <3>4, <3>5
  <2> QED
    BY <2>1, <2>2, OwnTableOnly
<1>6. CASE RenameMissing(h)
  <2>1. Elsewhere(h)
    BY <1>0, <1>6 DEF RenameMissing, Elsewhere, TypeOK, fileVars
  <2>2. ASSUME t \in Solo PROVE FileOK(t)' /\ HandlerOK(h)'
    BY <1>0, <1>6, <2>2 DEF RenameMissing, FileInv, FileOK, HandlerOK, Disk, TypeOK, fileVars
  <2> QED
    BY <2>1, <2>2, OwnTableOnly
<1>7. CASE Signal(h)
  <2>1. Elsewhere(h)
    BY <1>0, <1>7 DEF Signal, Elsewhere, TypeOK, fileVars
  <2>2. ASSUME t \in Solo PROVE FileOK(t)' /\ HandlerOK(h)'
    BY <1>0, <1>7, <2>2 DEF Signal, FileInv, FileOK, HandlerOK, Disk, TypeOK, fileVars
  <2> QED
    BY <2>1, <2>2, OwnTableOnly
<1>8. CASE SaveError(h)
  <2>1. CASE UNCHANGED content
    <3>1. Elsewhere(h)
      BY <1>0, <1>8, <2>1 DEF SaveError, Elsewhere, TypeOK
    <3>2. ASSUME t \in Solo PROVE FileOK(t)' /\ HandlerOK(h)'
      BY <1>0, <1>8, <2>1, <3>2 DEF SaveError, FileInv, FileOK, HandlerOK, Disk, TypeOK
    <3> QED
      BY <3>1, <3>2, OwnTableOnly
  <2>2. ASSUME pc[h] = "write",
               NEW c \in {Empty, Garbled}, content' = [content EXCEPT ![t][fd[h]] = c]
        PROVE  FileInv'
    <3>1. Elsewhere(h)
      BY <1>0, <1>8, <2>2 DEF SaveError, Elsewhere, TypeOK
    <3>2. ASSUME t \in Solo PROVE FileOK(t)' /\ HandlerOK(h)'
      <4>1. Disk(t)' = Disk(t)
        BY <1>8, <2>2, <3>2, DiskMoves DEF Rename
      <4> QED
        BY <1>0, <1>8, <3>2, <4>1 DEF SaveError, FileInv, FileOK, HandlerOK, TypeOK
    <3> QED
      BY <3>1, <3>2, OwnTableOnly
  <2> QED
    BY <1>8, <2>1, <2>2 DEF SaveError
<1> QED
  BY <1>1, <1>2, <1>3, <1>4, <1>5, <1>6, <1>7, <1>8 DEF SaveStep

LEMMA FileInvNext == TypeOK /\ FileInv /\ [Next]_vars => FileInv'
<1> SUFFICES ASSUME TypeOK, FileInv, [Next]_vars PROVE FileInv'
  OBVIOUS
<1> USE Constants, SoloTables
<1>1. ASSUME NEW h \in Handlers, Mutate(h) \/ SaveStep(h) \/ SaveError(h) PROVE FileInv'
  BY <1>1, HandlerKeepsFileInv
<1>2. CASE AdminCrash
  <2>1. ASSUME NEW t \in Solo PROVE FileOK(t)'
    BY <1>2 DEF AdminCrash, FileInv, FileOK, Disk, fileVars
  <2>2. ASSUME NEW h \in Handlers, TableOf[h] \in Solo PROVE HandlerOK(h)'
    BY <1>2 DEF AdminCrash, HandlerOK
  <2> QED
    BY <2>1, <2>2 DEF FileInv
<1>3. CASE AdminStart
  <2>1. ASSUME NEW t \in Solo PROVE FileOK(t)'
    BY <1>3 DEF AdminStart, FileInv, FileOK, Disk, Parses, fileVars
  <2>2. ASSUME NEW h \in Handlers, TableOf[h] \in Solo PROVE HandlerOK(h)'
    <3>1. HandlerOK(h) /\ adm = "down"
      BY <1>3, <2>2 DEF AdminStart, FileInv
    <3>2. pc[h] = "idle"
      BY <3>1 DEF HandlerOK
    <3> QED
      BY <1>3, <3>2 DEF AdminStart, HandlerOK
  <2> QED
    BY <2>1, <2>2 DEF FileInv
<1>4. CASE GatewayStep \/ ReadError \/ GatewayCrash \/ UNCHANGED vars
  <2>1. UNCHANGED adminVars /\ UNCHANGED fileVars
    BY <1>4 DEF GatewayStep, TakeSignal, ReadTable, SwapTable, KeepTable, AbortStart,
                GatewayStart, NotifyRegistered, ReadError, GatewayCrash, vars,
                adminVars, fileVars
  <2> QED
    BY <2>1 DEF adminVars, fileVars, FileInv, FileOK, HandlerOK, Disk
<1> QED
  BY <1>1, <1>2, <1>3, <1>4 DEF Next

LEMMA FileInvHolds == Spec => []FileInv
<1>1. TypeOK /\ FileInv /\ [Next]_vars => FileInv'
  BY FileInvNext
<1> QED
  BY <1>1, FileInvInit, TypeCorrect, PTL DEF Spec

(* The file of a table with one writer at a time always parses, at every   *)
(* step of every Save and across crashes of the admin process.             *)
THEOREM FilesParse == Spec => []SoloFileParses
<1>1. FileInv => SoloFileParses
  BY DEF FileInv, FileOK, SoloFileParses, FileParses, Parses
<1> QED
  BY <1>1, FileInvHolds, PTL

(* A change acknowledged with a 2xx stays in the file.                     *)
THEOREM AckedStaysOnDisk == Spec => []SoloAckedDurable
<1>1. FileInv => SoloAckedDurable
  BY DEF FileInv, FileOK, SoloAckedDurable, AckedDurable
<1> QED
  BY <1>1, FileInvHolds, PTL

-----------------------------------------------------------------------------
(***************************************************************************)
(* The gateway.  What it holds of a table it has already loaded in this    *)
(* pass is what is on disk, or something is still to come that makes it    *)
(* load the table again: a waiting SIGHUP, a writer about to signal, or    *)
(* nothing because a fault took the signal or the read away.               *)
(***************************************************************************)
Signalling(t) == \E h \in Handlers : TableOf[h] = t /\ pc[h] = "signal"

UpToDate(t, v) == v = Disk(t) \/ hup \/ t \in behind \/ Signalling(t)

GatewayOK(t) ==
  /\ gw \in {"up", "loading"} /\ (gpos = 0 \/ t < gpos) => UpToDate(t, gtab[t])
  /\ gpos = t /\ gbuf # NotRead => UpToDate(t, gbuf)
  /\ gtab[t] <= Disk(t)
  /\ gpos = t /\ gbuf \in Nat => gtab[t] <= gbuf /\ gbuf <= Disk(t)

GatewayShape ==
  /\ hup => gw = "up"
  /\ gpos # 0 => gw \in {"up", "loading"}
  /\ gbuf # NotRead => gpos # 0
  /\ gw = "down" => \A t \in Tables : gtab[t] = 0

GatewayInv == GatewayShape /\ \A t \in Solo : GatewayOK(t)

LEMMA GatewayInvInit == Init => GatewayInv
<1> SUFFICES ASSUME Init PROVE GatewayInv
  OBVIOUS
<1>1. ASSUME NEW t \in Solo PROVE GatewayOK(t)
  BY SoloTables, Constants, Markers DEF Init, GatewayOK, UpToDate, Disk
<1> QED
  BY <1>1 DEF Init, GatewayInv, GatewayShape

(* A step of the admin side that renames nothing and signals nothing.      *)
LEMMA GatewayFrame ==
  ASSUME GatewayInv, UNCHANGED gwVars, UNCHANGED behind,
         \A t \in Solo : Disk(t)' = Disk(t),
         \A t \in Solo : Signalling(t) => Signalling(t)'
  PROVE  GatewayInv'
<1>1. GatewayShape'
  BY DEF GatewayInv, GatewayShape, gwVars
<1>2. ASSUME NEW t \in Solo PROVE GatewayOK(t)'
  <2>1. GatewayOK(t) /\ Disk(t)' = Disk(t) /\ (Signalling(t) => Signalling(t)')
    BY DEF GatewayInv
  <2> QED
    BY <2>1 DEF GatewayOK, UpToDate, gwVars
<1> QED
  BY <1>1, <1>2 DEF GatewayInv

LEMMA HandlerKeepsGatewayInv ==
  ASSUME TypeOK, FileInv, GatewayInv, NEW h \in Handlers,
         Mutate(h) \/ SaveStep(h) \/ SaveError(h)
  PROVE  GatewayInv'
<1>0. TableOf[h] \in Tables /\ Solo \subseteq Tables
  BY Constants, SoloTables
<1>1. CASE ~Rename(h) /\ ~Signal(h)
  <2>1. UNCHANGED gwVars /\ UNCHANGED behind
    BY <1>1 DEF SaveStep, Mutate, Snapshot, OpenTemp, WriteTemp, RenameMissing, SaveError
  <2>2. \A t \in Solo : Disk(t)' = Disk(t)
    BY <1>1, DiskMoves
  <2>3. pc[h] # "signal" /\ \A g \in Handlers \ {h} : pc'[g] = pc[g]
    BY <1>1 DEF SaveStep, Mutate, Snapshot, OpenTemp, WriteTemp, RenameMissing, SaveError,
                TypeOK
  <2>4. \A t \in Solo : Signalling(t) => Signalling(t)'
    BY <2>3 DEF Signalling
  <2> QED
    BY <2>1, <2>2, <2>4, GatewayFrame
<1>2. CASE Rename(h)
  <2>1. UNCHANGED gwVars /\ UNCHANGED behind /\ pc[h] = "rename"
    BY <1>2 DEF Rename
  <2>2. pc'[h] = "signal" /\ \A g \in Handlers \ {h} : pc'[g] = pc[g]
    BY <1>2 DEF Rename, TypeOK
  <2>3. \A t \in Solo : Signalling(t) => Signalling(t)'
    BY <2>1, <2>2 DEF Signalling
  <2>4. GatewayShape'
    BY <2>1 DEF GatewayInv, GatewayShape, gwVars
  <2>5. ASSUME NEW t \in Solo PROVE GatewayOK(t)'
    <3>1. GatewayOK(t) /\ (Signalling(t) => Signalling(t)')
      BY <2>3 DEF GatewayInv
    <3>2. CASE Disk(t)' = Disk(t)
      BY <2>1, <3>1, <3>2 DEF GatewayOK, UpToDate, gwVars
    <3>3. CASE TableOf[h] = t /\ Disk(t) < Disk(t)'
      <4>1. Signalling(t)'
        BY <2>2, <3>3 DEF Signalling
      <4>2. Disk(t) \in Nat /\ Disk(t)' \in Nat /\ gtab[t] \in Nat
        BY <1>0, <1>2, FileInvNext DEF FileInv, FileOK, Next, SaveStep, TypeOK
      <4> QED
        BY <2>1, <3>1, <3>3, <4>1, <4>2 DEF GatewayOK, UpToDate, gwVars
    <3> QED
      BY <1>2, <3>2, <3>3, DiskMoves DEF SaveStep
  <2> QED
    BY <2>4, <2>5 DEF GatewayInv
<1>3. CASE Signal(h)
  <2>1. UNCHANGED behind /\ hup' = (hup \/ gw = "up")
    BY <1>3 DEF Signal
  <2>2. ASSUME NEW t \in Solo PROVE Disk(t)' = Disk(t)
    BY <1>3 DEF Signal, Disk, fileVars
  <2>3. CASE gw = "loading"
    <3>1. gw' = "stopped" /\ gpos' = 0 /\ gbuf' = NotRead /\ gtab' = [u \in Tables |-> 0]
      BY <1>3, <2>3 DEF Signal
    <3>2. GatewayShape'
      BY <2>1, <2>3, <3>1 DEF GatewayInv, GatewayShape
    <3>3. ASSUME NEW t \in Solo PROVE GatewayOK(t)'
      <4>1. Disk(t) \in Nat /\ gtab'[t] = 0
        BY <1>0, <3>1 DEF FileInv, FileOK
      <4> QED
        BY <2>2, <3>1, <4>1, Markers DEF GatewayOK
    <3> QED
      BY <3>2, <3>3 DEF GatewayInv
  <2>4. CASE gw # "loading"
    <3>1. UNCHANGED <<gw, gpos, gbuf, gtab>>
      BY <1>3, <2>4 DEF Signal
    <3>2. GatewayShape'
      BY <2>1, <3>1 DEF GatewayInv, GatewayShape
    <3>3. ASSUME NEW t \in Solo PROVE GatewayOK(t)'
      <4>1. GatewayOK(t) /\ Disk(t)' = Disk(t)
        BY <2>2 DEF GatewayInv
      <4>2. gw = "up" => hup'
        BY <2>1
      <4>3. gbuf # NotRead => gw = "up"
        BY <2>4 DEF GatewayInv, GatewayShape
      <4> QED
        BY <2>4, <3>1, <4>1, <4>2, <4>3 DEF GatewayOK, UpToDate
    <3> QED
      BY <3>2, <3>3 DEF GatewayInv
  <2> QED
    BY <2>3, <2>4
<1> QED
  BY <1>1, <1>2, <1>3

(* The gateway's steps leave the files and the handlers alone.             *)
LEMMA GatewaySideFrame ==
  ASSUME UNCHANGED adminVars, UNCHANGED fileVars
  PROVE  /\ \A t \in Solo : Disk(t)' = Disk(t)
         /\ \A t \in Solo : Signalling(t)' <=> Signalling(t)
BY DEF adminVars, fileVars, Disk, Signalling

LEMMA GatewayKeepsGatewayInv ==
  ASSUME TypeOK, FileInv, GatewayInv, GatewayStep \/ ReadError \/ GatewayCrash
  PROVE  GatewayInv'
<1>1. UNCHANGED adminVars /\ UNCHANGED fileVars
  BY DEF GatewayStep, TakeSignal, ReadTable, SwapTable, KeepTable, AbortStart,
         GatewayStart, NotifyRegistered, ReadError, GatewayCrash
<1>2. ASSUME NEW t \in Solo
      PROVE  /\ Disk(t)' = Disk(t) /\ (Signalling(t)' <=> Signalling(t))
             /\ GatewayOK(t) /\ Disk(t) \in Nat /\ gtab[t] \in Nat
             /\ t \in Nat /\ t # 0 /\ t <= N
  BY <1>1, GatewaySideFrame, SoloTables, Constants
     DEF GatewayInv, FileInv, FileOK, TypeOK, Tables
<1>3. gpos \in Nat /\ gpos <= N /\ N \in Nat
  BY Constants DEF TypeOK
<1>4. CASE TakeSignal
  <2>1. GatewayShape'
    BY <1>4 DEF TakeSignal, GatewayInv, GatewayShape
  <2>2. ASSUME NEW t \in Solo PROVE GatewayOK(t)'
    <3>1. gbuf' = NotRead /\ gpos' = 1 /\ gtab' = gtab
      BY <1>4 DEF TakeSignal, GatewayInv, GatewayShape
    <3> QED
      BY <1>2, <3>1, Markers DEF GatewayOK
  <2> QED
    BY <2>1, <2>2 DEF GatewayInv
<1>5. CASE ReadTable
  <2>1. GatewayShape'
    BY <1>5 DEF ReadTable, GatewayInv, GatewayShape
  <2>2. ASSUME NEW t \in Solo PROVE GatewayOK(t)'
    <3>1. /\ gbuf' = Disk(gpos) /\ gpos' = gpos /\ gpos # 0 /\ gtab' = gtab
          /\ gw' = gw /\ hup' = hup /\ behind' = behind \ {gpos}
      BY <1>5 DEF ReadTable
    <3>2. CASE t = gpos
      BY <1>2, <1>3, <3>1, <3>2 DEF GatewayOK, UpToDate
    <3>3. CASE t # gpos
      BY <1>2, <1>3, <3>1, <3>3 DEF GatewayOK, UpToDate
    <3> QED
      BY <3>2, <3>3
  <2> QED
    BY <2>1, <2>2 DEF GatewayInv
<1>6. CASE ReadError
  <2>1. GatewayShape'
    BY <1>6 DEF ReadError, GatewayInv, GatewayShape
  <2>2. ASSUME NEW t \in Solo PROVE GatewayOK(t)'
    <3>1. /\ gbuf' = Garbled /\ gpos' = gpos /\ gpos # 0 /\ gtab' = gtab
          /\ gw' = gw /\ hup' = hup /\ behind' = behind \cup {gpos}
      BY <1>6 DEF ReadError
    <3> QED
      BY <1>2, <1>3, <3>1, Markers DEF GatewayOK, UpToDate
  <2> QED
    BY <2>1, <2>2 DEF GatewayInv
<1>7. CASE SwapTable \/ KeepTable
  <2>1. /\ gbuf' = NotRead /\ gpos # 0 /\ gbuf # NotRead
        /\ gpos' = (IF gpos < N THEN gpos + 1 ELSE 0)
        /\ gw' = gw /\ hup' = hup /\ behind' = behind
    BY <1>7, Markers DEF SwapTable, KeepTable, NextTable, Parses
  <2>2. GatewayShape'
    <3>1. GatewayShape
      BY DEF GatewayInv
    <3>2. gw \in {"up", "loading"}
      BY <2>1, <3>1 DEF GatewayShape
    <3> QED
      BY <2>1, <3>1, <3>2 DEF GatewayShape
  <2>3. ASSUME NEW t \in Solo PROVE GatewayOK(t)'
    <3>1. gpos' = 0 \/ t < gpos' => gpos = t \/ t < gpos
      BY <1>2, <1>3, <2>1
    <3>2. CASE gpos = t
      <4>1. CASE SwapTable
        <5>1. gtab'[t] = gbuf /\ gbuf \in Nat
          BY <1>2, <3>2, <4>1, SoloTables DEF SwapTable, Parses, TypeOK
        <5> QED
          BY <1>2, <2>1, <3>2, <5>1, Markers DEF GatewayOK, UpToDate
      <4>2. CASE KeepTable
        <5>1. gtab' = gtab /\ gbuf \notin Nat
          BY <4>2, Markers DEF KeepTable
        <5>2. gbuf # Disk(t)
          BY <1>2, <5>1
        <5> QED
          BY <1>2, <2>1, <3>2, <5>1, <5>2, Markers DEF GatewayOK, UpToDate
      <4> QED
        BY <1>7, <4>1, <4>2
    <3>3. CASE gpos # t
      <4>1. gtab'[t] = gtab[t]
        BY <1>7, <3>3, SoloTables DEF SwapTable, KeepTable, TypeOK
      <4> QED
        BY <1>2, <1>3, <2>1, <3>1, <3>3, <4>1, Markers DEF GatewayOK, UpToDate
    <3> QED
      BY <3>2, <3>3
  <2>4. QED
    BY <2>2, <2>3 DEF GatewayInv
<1>8. CASE AbortStart \/ GatewayCrash
  <2>1. /\ gw' = "down" /\ gpos' = 0 /\ gbuf' = NotRead /\ ~hup'
        /\ gtab' = [t \in Tables |-> 0]
    BY <1>8 DEF AbortStart, GatewayCrash, GatewayInv, GatewayShape, TypeOK
  <2>2. ASSUME NEW t \in Solo PROVE GatewayOK(t)'
    <3>1. gtab'[t] = 0
      BY <2>1, SoloTables
    <3> QED
      BY <1>2, <2>1, <3>1, Markers DEF GatewayOK
  <2> QED
    BY <2>1, <2>2 DEF GatewayInv, GatewayShape
<1>9. CASE GatewayStart
  <2>1. /\ gw' = "loading" /\ gpos' = 1 /\ gbuf' = NotRead /\ ~hup' /\ gtab' = gtab
    BY <1>9 DEF GatewayStart, GatewayInv, GatewayShape, TypeOK
  <2>2. ASSUME NEW t \in Solo PROVE GatewayOK(t)'
    BY <1>2, <2>1, Markers DEF GatewayOK
  <2> QED
    BY <2>1, <2>2 DEF GatewayInv, GatewayShape
<1>10. CASE NotifyRegistered
  <2>1. /\ gw = "loading" /\ gw' = "up" /\ gpos = 0 /\ UNCHANGED <<gpos, gbuf, gtab, hup, behind>>
    BY <1>10 DEF NotifyRegistered
  <2>2. ASSUME NEW t \in Solo PROVE GatewayOK(t)'
    BY <1>2, <2>1 DEF GatewayOK, UpToDate
  <2> QED
    BY <2>1, <2>2 DEF GatewayInv, GatewayShape
<1> QED
  BY <1>4, <1>5, <1>6, <1>7, <1>8, <1>9, <1>10 DEF GatewayStep

LEMMA GatewayInvNext == TypeOK /\ FileInv /\ GatewayInv /\ [Next]_vars => GatewayInv'
<1> SUFFICES ASSUME TypeOK, FileInv, GatewayInv, [Next]_vars PROVE GatewayInv'
  OBVIOUS
<1>1. CASE AdminCrash
  <2>1. UNCHANGED gwVars /\ UNCHANGED fileVars
    BY <1>1 DEF AdminCrash
  <2>2. ASSUME NEW t \in Solo PROVE GatewayOK(t)'
    <3>1. GatewayOK(t) /\ Disk(t)' = Disk(t)
      BY <2>1 DEF GatewayInv, Disk, fileVars
    <3>2. t \in behind \/ Signalling(t) => t \in behind'
      BY <1>1 DEF AdminCrash, Signalling
    <3> QED
      BY <2>1, <3>1, <3>2 DEF GatewayOK, UpToDate, gwVars
  <2> QED
    BY <2>1, <2>2 DEF GatewayInv, GatewayShape, gwVars
<1>2. CASE AdminStart \/ UNCHANGED vars
  <2>1. UNCHANGED gwVars /\ UNCHANGED fileVars /\ pc' = pc /\ behind' = behind
    BY <1>2 DEF AdminStart, vars, gwVars, fileVars
  <2> QED
    BY <2>1, GatewayFrame DEF Disk, Signalling, fileVars
<1> QED
  BY <1>1, <1>2, HandlerKeepsGatewayInv, GatewayKeepsGatewayInv DEF Next

LEMMA GatewayInvHolds == Spec => []GatewayInv
<1>1. TypeOK /\ FileInv /\ GatewayInv /\ [Next]_vars => GatewayInv'
  BY GatewayInvNext
<1> QED
  BY <1>1, GatewayInvInit, TypeCorrect, FileInvHolds, PTL DEF Spec

(* An idle gateway with nothing to take up serves what is on disk.         *)
THEOREM GatewayStaysFresh == Spec => []SoloGatewayFresh
<1>1. GatewayInv => SoloGatewayFresh
  BY DEF GatewayInv, GatewayOK, UpToDate, Signalling, SoloGatewayFresh, GatewayFresh
<1> QED
  BY <1>1, GatewayInvHolds, PTL

-----------------------------------------------------------------------------
(* ConfigSync implements PublishedTables: a step of the detailed protocol  *)
(* publishes a newer revision, moves the gateway forward, stops it, starts *)
(* it on published revisions, or changes nothing a reader can see.         *)
LEMMA PublishedInit == Init => Published!Init
<1> SUFFICES ASSUME Init PROVE Published!Init
  OBVIOUS
<1>1. \A t \in Solo : Disk(t) = 0 /\ gtab[t] = 0
  BY SoloTables, Constants DEF Init, Disk
<1> QED
  BY <1>1 DEF Init, Published!Init

LEMMA PublishedStep ==
  TypeOK /\ FileInv /\ GatewayInv /\ [Next]_vars => [Published!Next]_(Published!avars)
<1> SUFFICES ASSUME TypeOK, FileInv, GatewayInv, [Next]_vars
             PROVE  Published!Next \/ UNCHANGED Published!avars
  OBVIOUS
<1> USE SoloTables
<1>1. FileInv' /\ GatewayInv'
  BY FileInvNext, GatewayInvNext
<1>2. \A t \in Solo : /\ Disk(t) \in Nat /\ Disk(t)' \in Nat
                      /\ gtab[t] \in Nat /\ gtab[t] <= Disk(t) /\ gtab'[t] <= Disk(t)'
  BY <1>1 DEF FileInv, FileOK, GatewayInv, GatewayOK, TypeOK
<1>3. ASSUME NEW h \in Handlers, Rename(h), TableOf[h] \in Solo, Disk(TableOf[h]) < Disk(TableOf[h])'
      PROVE  Published!Next
  <2> DEFINE t == TableOf[h]
  <2>1. gw' = gw /\ gtab' = gtab
    BY <1>3 DEF Rename, gwVars
  <2>2. \A u \in Solo : u # t => Disk(u)' = Disk(u)
    BY <1>3, DiskMoves DEF SaveStep
  <2>3. Published!Publish(t)
    BY <1>2, <1>3, <2>1, <2>2 DEF Published!Publish
  <2> QED
    BY <1>3, <2>3 DEF Published!Next
<1>4. ASSUME \A t \in Solo : Disk(t)' = Disk(t), gw' = gw, gtab' = gtab
      PROVE  UNCHANGED Published!avars
  BY <1>4 DEF Published!avars
<1>5. ASSUME NEW h \in Handlers, Mutate(h) \/ SaveStep(h) \/ SaveError(h), ~Signal(h)
      PROVE  Published!Next \/ UNCHANGED Published!avars
  <2>1. gw' = gw /\ gtab' = gtab
    BY <1>5 DEF SaveStep, Mutate, Snapshot, OpenTemp, WriteTemp, Rename, RenameMissing,
                SaveError, gwVars
  <2>2. CASE \A t \in Solo : Disk(t)' = Disk(t)
    BY <1>4, <2>1, <2>2
  <2>3. CASE \E t \in Solo : Disk(t)' # Disk(t)
    BY <1>3, <1>5, <2>3, DiskMoves
  <2> QED
    BY <2>2, <2>3
<1>6. ASSUME \A t \in Solo : Disk(t)' = Disk(t), gw # "up", gw' # "up"
      PROVE  UNCHANGED Published!avars
  BY <1>6 DEF Published!avars
<1>7. ASSUME NEW h \in Handlers, Signal(h)
      PROVE  UNCHANGED Published!avars
  <2>1. \A t \in Solo : Disk(t)' = Disk(t)
    BY <1>7 DEF Signal, Disk, fileVars
  <2> QED
    BY <1>4, <1>6, <1>7, <2>1 DEF Signal
<1>8. CASE AdminCrash \/ AdminStart \/ UNCHANGED vars
  <2>1. UNCHANGED fileVars /\ UNCHANGED gwVars
    BY <1>8 DEF AdminCrash, AdminStart, vars, fileVars, gwVars
  <2> QED
    BY <1>4, <2>1 DEF Disk, fileVars, gwVars
<1>9. CASE GatewayStep \/ ReadError \/ GatewayCrash
  <2>1. \A t \in Solo : Disk(t)' = Disk(t)
    BY <1>9 DEF GatewayStep, TakeSignal, ReadTable, SwapTable, KeepTable, AbortStart,
                GatewayStart, NotifyRegistered, ReadError, GatewayCrash, fileVars, Disk
  <2>2. CASE SwapTable
    <3>1. /\ gpos \in Tables /\ gbuf \in Nat /\ gw' = gw
          /\ gtab' = [gtab EXCEPT ![gpos] = gbuf]
      <4>1. gpos \in 0 .. N /\ gpos # 0
        BY <2>2 DEF SwapTable, TypeOK
      <4> QED
        BY <2>2, <4>1, Positions DEF SwapTable, Parses
    <3>2. CASE gw # "up"
      BY <1>6, <2>1, <3>1, <3>2
    <3>3. CASE gw = "up" /\ gpos \in Solo
      <4>1. PICK t \in Solo : t = gpos
        BY <3>3
      <4>2. gbuf \in gtab[t] .. Disk(t)
        BY <1>2, <3>1, <3>3, <4>1 DEF GatewayInv, GatewayOK
      <4>3. Published!Refresh(t)
        BY <2>1, <3>1, <3>3, <4>1, <4>2 DEF Published!Refresh, TypeOK
      <4> QED
        BY <4>3 DEF Published!Next
    <3>4. CASE gw = "up" /\ gpos \notin Solo
      <4>1. \A t \in Solo : gtab'[t] = gtab[t]
        BY <3>1, <3>4 DEF TypeOK
      <4> QED
        BY <2>1, <3>1, <4>1 DEF Published!avars
    <3> QED
      BY <3>2, <3>3, <3>4
  <2>3. CASE GatewayCrash
    <3>1. CASE gw = "up"
      <4>1. Published!Stop
        BY <2>1, <2>3, <3>1 DEF GatewayCrash, Published!Stop
      <4> QED
        BY <4>1 DEF Published!Next
    <3>2. CASE gw # "up"
      BY <1>6, <2>1, <2>3, <3>2 DEF GatewayCrash
    <3> QED
      BY <3>1, <3>2
  <2>4. CASE NotifyRegistered
    <3>1. Published!Start
      BY <1>2, <2>1, <2>4 DEF NotifyRegistered, Published!Start
    <3> QED
      BY <3>1 DEF Published!Next
  <2>5. CASE AbortStart \/ GatewayStart
    BY <1>6, <2>1, <2>5 DEF AbortStart, GatewayStart
  <2>6. CASE TakeSignal \/ ReadTable \/ KeepTable \/ ReadError
    BY <1>4, <2>1, <2>6 DEF TakeSignal, ReadTable, KeepTable, ReadError
  <2> QED
    BY <1>9, <2>2, <2>3, <2>4, <2>5, <2>6 DEF GatewayStep
<1> QED
  BY <1>5, <1>7, <1>8, <1>9 DEF Next

(* The write path implements the abstract publication of tables.           *)
THEOREM ImplementsPublishedTables == Spec => PublishedSpec
<1> QED
  BY PublishedInit, PublishedStep, TypeCorrect, FileInvHolds, GatewayInvHolds, PTL
     DEF Spec, PublishedSpec, Published!Spec
=============================================================================
