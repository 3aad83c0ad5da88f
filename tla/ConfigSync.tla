----------------------------- MODULE ConfigSync -----------------------------
(***************************************************************************)
(* How a configuration write travels from the admin API to the gateway.    *)
(*                                                                         *)
(* The admin process keeps each table (identity.Registry, policy.Engine,   *)
(* quota.Limiter) in memory.  A POST or DELETE handler mutates the table   *)
(* under its lock, releases the lock, calls Save, which takes a second     *)
(* locked snapshot, writes it to path+".tmp" and renames it over path, and *)
(* then sends SIGHUP to the gateway, whose only reload goroutine re-reads  *)
(* the tables one after the other and swaps each one in when it parses.    *)
(* Handlers of the same table run concurrently and share the one .tmp name.*)
(*                                                                         *)
(* A table is abstracted to its revision, the number of mutations applied  *)
(* to it: mutations happen under the lock, so the revision determines the  *)
(* contents.  A file is an inode whose contents are a revision, nothing    *)
(* (just truncated) or bytes that do not parse.                            *)
(***************************************************************************)
EXTENDS Integers, FiniteSets

CONSTANTS
  N,          \* number of tables; the gateway loads 1, 2, ..., N in this order
  Handlers,   \* admin handlers that may be in flight at the same time
  TableOf,    \* the table each handler writes
  Inodes,     \* inodes a table's directory entries may use
  NoInode,
  FirstLive,  \* inodes the tables' files may have at first, or NoInode
  MaxRev,     \* bound: mutations per table
  Faults,     \* which failures of the environment may happen
  MaxFaults   \* bound: how many of them

Tables == 1 .. N

FaultKinds == {"admin_crash", "gateway_crash", "save_error", "read_error"}

ASSUME ConfigAssumption ==
  /\ N \in Nat \ {0}
  /\ TableOf \in [Handlers -> Tables]
  /\ NoInode \notin Inodes
  /\ FirstLive \subseteq Inodes \cup {NoInode}
  /\ MaxRev \in Nat
  /\ MaxFaults \in Nat
  /\ Faults \subseteq FaultKinds

VARIABLES
  (* the admin process *)
  adm,      \* "up" or "down"
  mem,      \* revision of each in-memory table
  pc,       \* where each handler is
  rev,      \* the revision the handler's own mutation produced
  snap,     \* the revision in the snapshot its Save took
  fd,       \* inode its os.WriteFile has open
  acked,    \* history: highest revision of a table some client got a 2xx for
  (* the file system *)
  live,     \* inode named path, or NoInode
  temp,     \* inode named path+".tmp", or NoInode
  content,  \* what each inode holds
  (* the gateway process *)
  gw,       \* "up", "loading", "down" or "stopped"
  hup,      \* a SIGHUP waits in the channel of capacity one
  gpos,     \* table being loaded, 0 when the reload goroutine waits
  gbuf,     \* what its os.ReadFile returned, before the swap under the lock
  gtab,     \* revision of each table the gateway serves
  behind,   \* history: tables whose last rename was not followed by a
            \* successful reload because of a fault
  faults    \* failures so far

adminVars == <<adm, mem, pc, rev, snap, fd, acked>>
fileVars  == <<live, temp, content>>
gwVars    == <<gw, hup, gpos, gbuf, gtab>>
vars      == <<adm, mem, pc, rev, snap, fd, acked, live, temp, content,
               gw, hup, gpos, gbuf, gtab, behind, faults>>

Empty   == -1      \* zero bytes: opened with O_TRUNC and not written yet
Garbled == -2      \* bytes that json.Unmarshal rejects
NotRead == -3
Contents == Nat \cup {Empty, Garbled}

Steps == {"idle", "snapshot", "open", "write", "rename", "signal"}

(* What os.ReadFile followed by json.Unmarshal sees; a missing file is an  *)
(* empty table, revision 0.                                                *)
Disk(t) == IF live[t] = NoInode THEN 0 ELSE content[t][live[t]]

Parses(c) == c \in Nat

Init ==
  /\ adm = "up"
  /\ mem = [t \in Tables |-> 0]
  /\ pc = [h \in Handlers |-> "idle"]
  /\ rev = [h \in Handlers |-> 0]
  /\ snap = [h \in Handlers |-> 0]
  /\ fd = [h \in Handlers |-> NoInode]
  /\ acked = [t \in Tables |-> 0]
  /\ live \in [Tables -> FirstLive]
  /\ temp = [t \in Tables |-> NoInode]
  /\ content = [t \in Tables |-> [i \in Inodes |-> 0]]
  /\ gw = "up"
  /\ hup = FALSE
  /\ gpos = 0
  /\ gbuf = NotRead
  /\ gtab = [t \in Tables |-> 0]
  /\ behind = {}
  /\ faults = 0

-----------------------------------------------------------------------------
(* The admin handlers *)

(* Add, Set or Remove under the table's lock. *)
Mutate(h) ==
  LET t == TableOf[h] IN
  /\ adm = "up" /\ pc[h] = "idle"
  /\ mem[t] < MaxRev
  /\ mem' = [mem EXCEPT ![t] = mem[t] + 1]
  /\ rev' = [rev EXCEPT ![h] = mem[t] + 1]
  /\ pc' = [pc EXCEPT ![h] = "snapshot"]
  /\ UNCHANGED <<adm, snap, fd, acked, behind, faults>>
  /\ UNCHANGED fileVars /\ UNCHANGED gwVars

(* Save copies the table under the lock: it may hold later mutations too. *)
Snapshot(h) ==
  /\ pc[h] = "snapshot"
  /\ snap' = [snap EXCEPT ![h] = mem[TableOf[h]]]
  /\ pc' = [pc EXCEPT ![h] = "open"]
  /\ UNCHANGED <<adm, mem, rev, fd, acked, behind, faults>>
  /\ UNCHANGED fileVars /\ UNCHANGED gwVars

(* os.WriteFile opens path+".tmp" with O_CREATE|O_TRUNC: whatever inode    *)
(* has that name is emptied, else a fresh inode gets it.                   *)
FreeInodes(t) ==
  Inodes \ ({live[t], temp[t]} \cup {fd[h] : h \in {g \in Handlers : TableOf[g] = t}})

(* Mutant: Save writes path itself instead of path+".tmp". *)
OpenInPlace(h) ==
  LET t == TableOf[h] IN
  /\ pc[h] = "open"
  /\ \E i \in IF live[t] = NoInode THEN FreeInodes(t) ELSE {live[t]} :
       /\ live' = [live EXCEPT ![t] = i]
       /\ fd' = [fd EXCEPT ![h] = i]
       /\ content' = [content EXCEPT ![t][i] = Empty]
  /\ pc' = [pc EXCEPT ![h] = "write"]
  /\ UNCHANGED <<adm, mem, rev, snap, acked, temp, behind, faults>>
  /\ UNCHANGED gwVars

OpenTemp(h) ==
  LET t == TableOf[h] IN
  /\ pc[h] = "open"
  /\ \E i \in IF temp[t] = NoInode THEN FreeInodes(t) ELSE {temp[t]} :
       /\ temp' = [temp EXCEPT ![t] = i]
       /\ fd' = [fd EXCEPT ![h] = i]
       /\ content' = [content EXCEPT ![t][i] = Empty]
  /\ pc' = [pc EXCEPT ![h] = "write"]
  /\ UNCHANGED <<adm, mem, rev, snap, acked, live, behind, faults>>
  /\ UNCHANGED gwVars

(* The write goes to the open inode, at offset 0.  Bytes another writer    *)
(* left there stay behind it when its snapshot was the longer one.         *)
Overwrite(old, new) == IF old \in {Empty, new} THEN {new} ELSE {new, Garbled}

WriteTemp(h) ==
  LET t == TableOf[h] IN
  /\ pc[h] = "write"
  /\ \E c \in Overwrite(content[t][fd[h]], snap[h]) :
       content' = [content EXCEPT ![t][fd[h]] = c]
  /\ fd' = [fd EXCEPT ![h] = NoInode]
  /\ pc' = [pc EXCEPT ![h] = "rename"]
  /\ UNCHANGED <<adm, mem, rev, snap, acked, live, temp, behind, faults>>
  /\ UNCHANGED gwVars

(* os.Rename moves whatever inode has the .tmp name by now. *)
Rename(h) ==
  LET t == TableOf[h] IN
  /\ pc[h] = "rename" /\ temp[t] # NoInode
  /\ live' = [live EXCEPT ![t] = temp[t]]
  /\ temp' = [temp EXCEPT ![t] = NoInode]
  /\ pc' = [pc EXCEPT ![h] = "signal"]
  /\ UNCHANGED <<adm, mem, rev, snap, fd, acked, content, behind, faults>>
  /\ UNCHANGED gwVars

(* Another handler renamed it first: ENOENT, a 500, and no signal. *)
RenameMissing(h) ==
  /\ pc[h] = "rename" /\ temp[TableOf[h]] = NoInode
  /\ pc' = [pc EXCEPT ![h] = "idle"]
  /\ UNCHANGED <<adm, mem, rev, snap, fd, acked, behind, faults>>
  /\ UNCHANGED fileVars /\ UNCHANGED gwVars

(* Mutant: an unbuffered signal channel loses what arrives mid-reload. *)
SignalUnbuffered(h) ==
  LET t == TableOf[h] IN
  /\ pc[h] = "signal"
  /\ hup' = (hup \/ (gw = "up" /\ gpos = 0))
  /\ \/ gw = "loading" /\ gw' = "stopped" /\ gpos' = 0 /\ gbuf' = NotRead
        /\ gtab' = [u \in Tables |-> 0]
     \/ gw # "loading" /\ UNCHANGED <<gw, gpos, gbuf, gtab>>
  /\ acked' = [acked EXCEPT ![t] = IF rev[h] > acked[t] THEN rev[h] ELSE acked[t]]
  /\ pc' = [pc EXCEPT ![h] = "idle"]
  /\ UNCHANGED <<adm, mem, rev, snap, fd, behind, faults>>
  /\ UNCHANGED fileVars

(* signalGateway, then the 2xx answer.  A SIGHUP to a gateway that has not *)
(* reached signal.Notify ends the process, and systemd's on-failure does   *)
(* not restart a unit that ended by SIGHUP.                                *)
Signal(h) ==
  LET t == TableOf[h] IN
  /\ pc[h] = "signal"
  /\ hup' = (hup \/ gw = "up")
  /\ \/ gw = "loading" /\ gw' = "stopped" /\ gpos' = 0 /\ gbuf' = NotRead
        /\ gtab' = [u \in Tables |-> 0]
     \/ gw # "loading" /\ UNCHANGED <<gw, gpos, gbuf, gtab>>
  /\ acked' = [acked EXCEPT ![t] = IF rev[h] > acked[t] THEN rev[h] ELSE acked[t]]
  /\ pc' = [pc EXCEPT ![h] = "idle"]
  /\ UNCHANGED <<adm, mem, rev, snap, fd, behind, faults>>
  /\ UNCHANGED fileVars

Fault(kind) == kind \in Faults /\ faults < MaxFaults /\ faults' = faults + 1

(* Mutant: the handler does not look at the error Save returns. *)
SaveErrorIgnored(h) ==
  /\ Fault("save_error")
  /\ pc[h] \in {"open", "write", "rename"}
  /\ fd' = [fd EXCEPT ![h] = NoInode]
  /\ pc' = [pc EXCEPT ![h] = "signal"]
  /\ UNCHANGED <<adm, mem, rev, snap, acked, behind>>
  /\ UNCHANGED fileVars /\ UNCHANGED gwVars

(* open, write or rename fails (full disk, I/O error): a 500, the memory   *)
(* stays mutated, the gateway is not signalled.                            *)
SaveError(h) ==
  LET t == TableOf[h] IN
  /\ Fault("save_error")
  /\ pc[h] \in {"open", "write", "rename"}
  /\ \/ /\ pc[h] = "write"
        /\ \E c \in {Empty, Garbled} : content' = [content EXCEPT ![t][fd[h]] = c]
     \/ pc[h] # "write" /\ UNCHANGED content
  /\ fd' = [fd EXCEPT ![h] = NoInode]
  /\ pc' = [pc EXCEPT ![h] = "idle"]
  /\ UNCHANGED <<adm, mem, rev, snap, acked, live, temp, behind>>
  /\ UNCHANGED gwVars

(* The admin process dies with its handlers and its memory. *)
AdminCrash ==
  /\ Fault("admin_crash")
  /\ adm = "up"
  /\ adm' = "down"
  /\ behind' = behind \cup {TableOf[h] : h \in {g \in Handlers : pc[g] = "signal"}}
  /\ pc' = [h \in Handlers |-> "idle"]
  /\ fd' = [h \in Handlers |-> NoInode]
  /\ UNCHANGED <<mem, rev, snap, acked>>
  /\ UNCHANGED fileVars /\ UNCHANGED gwVars

(* Mutant: a restarted admin process starts from empty tables. *)
AdminStartEmpty ==
  /\ adm = "down"
  /\ adm' = "up"
  /\ mem' = [t \in Tables |-> 0]
  /\ UNCHANGED <<pc, rev, snap, fd, acked, behind, faults>>
  /\ UNCHANGED fileVars /\ UNCHANGED gwVars

(* NewRegistry, NewEngine and NewLimiter: all three load or main exits. *)
AdminStart ==
  /\ adm = "down"
  /\ \A t \in Tables : Parses(Disk(t))
  /\ adm' = "up"
  /\ mem' = [t \in Tables |-> Disk(t)]
  /\ UNCHANGED <<pc, rev, snap, fd, acked, behind, faults>>
  /\ UNCHANGED fileVars /\ UNCHANGED gwVars

-----------------------------------------------------------------------------
(* The gateway *)

(* The reload goroutine receives from the signal channel. *)
TakeSignal ==
  /\ gw = "up" /\ gpos = 0 /\ hup
  /\ hup' = FALSE
  /\ gpos' = 1
  /\ UNCHANGED <<gw, gbuf, gtab, behind, faults>>
  /\ UNCHANGED adminVars /\ UNCHANGED fileVars

(* os.ReadFile of the table being loaded. *)
ReadTable ==
  /\ gpos # 0 /\ gbuf = NotRead
  /\ gbuf' = Disk(gpos)
  /\ behind' = behind \ {gpos}
  /\ UNCHANGED <<gw, hup, gpos, gtab, faults>>
  /\ UNCHANGED adminVars /\ UNCHANGED fileVars

(* The read itself fails: handled like bytes that do not parse. *)
ReadError ==
  /\ Fault("read_error")
  /\ gpos # 0 /\ gbuf = NotRead
  /\ gbuf' = Garbled
  /\ behind' = behind \cup {gpos}
  /\ UNCHANGED <<gw, hup, gpos, gtab>>
  /\ UNCHANGED adminVars /\ UNCHANGED fileVars

(* Mutant: the position is not reset after the last table. *)
NextTableRunsOn == gpos' = gpos + 1

(* After the last table a start-up still has to call signal.Notify. *)
NextTable == gpos' = IF gpos < N THEN gpos + 1 ELSE 0

SwapTable ==
  /\ gpos # 0 /\ Parses(gbuf)
  /\ gtab' = [gtab EXCEPT ![gpos] = gbuf]
  /\ gbuf' = NotRead
  /\ NextTable
  /\ UNCHANGED <<gw, hup, behind, faults>>
  /\ UNCHANGED adminVars /\ UNCHANGED fileVars

(* A reload that fails is logged; the old table stays, the next one loads. *)
KeepTable ==
  /\ gw = "up" /\ gpos # 0 /\ gbuf \in {Empty, Garbled}
  /\ gbuf' = NotRead
  /\ NextTable
  /\ UNCHANGED <<gw, hup, gtab, behind, faults>>
  /\ UNCHANGED adminVars /\ UNCHANGED fileVars

(* The same failure at start-up is log.Fatalf. *)
AbortStart ==
  /\ gw = "loading" /\ gpos # 0 /\ gbuf \in {Empty, Garbled}
  /\ gw' = "down"
  /\ gpos' = 0
  /\ gbuf' = NotRead
  /\ gtab' = [t \in Tables |-> 0]
  /\ UNCHANGED <<hup, behind, faults>>
  /\ UNCHANGED adminVars /\ UNCHANGED fileVars

GatewayStart ==
  /\ gw = "down"
  /\ gw' = "loading"
  /\ gpos' = 1
  /\ UNCHANGED <<hup, gbuf, gtab, behind, faults>>
  /\ UNCHANGED adminVars /\ UNCHANGED fileVars

(* signal.Notify, in the goroutine main starts after the three loads. *)
NotifyRegistered ==
  /\ gw = "loading" /\ gpos = 0
  /\ gw' = "up"
  /\ UNCHANGED <<hup, gpos, gbuf, gtab, behind, faults>>
  /\ UNCHANGED adminVars /\ UNCHANGED fileVars

GatewayCrash ==
  /\ Fault("gateway_crash")
  /\ gw \in {"up", "loading"}
  /\ gw' = "down"
  /\ hup' = FALSE
  /\ gpos' = 0
  /\ gbuf' = NotRead
  /\ gtab' = [t \in Tables |-> 0]
  /\ UNCHANGED behind
  /\ UNCHANGED adminVars /\ UNCHANGED fileVars

-----------------------------------------------------------------------------
SaveStep(h) ==
  Snapshot(h) \/ OpenTemp(h) \/ WriteTemp(h) \/ Rename(h) \/ RenameMissing(h) \/ Signal(h)

GatewayStep ==
  \/ TakeSignal \/ ReadTable \/ SwapTable \/ KeepTable
  \/ AbortStart \/ GatewayStart \/ NotifyRegistered

Next ==
  \/ \E h \in Handlers : Mutate(h) \/ SaveStep(h) \/ SaveError(h)
  \/ AdminCrash \/ AdminStart
  \/ GatewayStep
  \/ ReadError \/ GatewayCrash

Spec == Init /\ [][Next]_vars

(* Go schedules every goroutine, and systemd restarts both processes. *)
Fairness ==
  /\ \A h \in Handlers : WF_vars(SaveStep(h))
  /\ WF_vars(GatewayStep)
  /\ WF_vars(AdminStart)

FairSpec == Spec /\ Fairness

-----------------------------------------------------------------------------
TypeOK ==
  /\ adm \in {"up", "down"}
  /\ mem \in [Tables -> Nat]
  /\ pc \in [Handlers -> Steps]
  /\ rev \in [Handlers -> Nat]
  /\ snap \in [Handlers -> Nat]
  /\ fd \in [Handlers -> Inodes \cup {NoInode}]
  /\ acked \in [Tables -> Nat]
  /\ live \in [Tables -> Inodes \cup {NoInode}]
  /\ temp \in [Tables -> Inodes \cup {NoInode}]
  /\ content \in [Tables -> [Inodes -> Contents]]
  /\ gw \in {"up", "loading", "down", "stopped"}
  /\ hup \in BOOLEAN
  /\ gpos \in 0 .. N
  /\ gbuf \in Contents \cup {NotRead}
  /\ gtab \in [Tables -> Nat]
  /\ behind \subseteq Tables
  /\ faults \in 0 .. MaxFaults

(* The tables at most one handler writes at a time: an admin client that   *)
(* waits for each answer before it sends the next write.                   *)
Solo ==
  {t \in Tables : \A g, h \in Handlers : TableOf[g] = t /\ TableOf[h] = t => g = h}

FileParses(t) == Parses(Disk(t))

AckedDurable(t) == Parses(Disk(t)) => acked[t] <= Disk(t)

GatewayFresh(t) ==
  /\ gw = "up" /\ gpos = 0 /\ ~hup /\ t \notin behind
  /\ \A h \in Handlers : TableOf[h] = t => pc[h] # "signal"
  => gtab[t] = Disk(t)

Served(t, n) == (acked[t] >= n) ~> (gtab[t] >= n)

(* The file named path always parses, also while a Save is under way: a    *)
(* reload or a restart at any moment finds a complete table                *)
(* (engine.go, registry.go, bucket.go: "writes ... to disk atomically").   *)
EveryFileParses == \A t \in Tables : FileParses(t)
SoloFileParses == \A t \in Solo : FileParses(t)

(* A change a client got a 2xx for is in the file from then on: no later   *)
(* Save, failed Save or restart of the admin process takes it out again.   *)
SoloAckedDurable == \A t \in Solo : AckedDurable(t)

(* An idle gateway with no SIGHUP waiting serves exactly what is on disk,  *)
(* except for a table whose writer has renamed and not signalled yet, or   *)
(* whose signal or read a fault took away: a reload never misses a rename  *)
(* that came after its read although signals coalesce, and a table that    *)
(* does not parse does not keep the others from being reloaded.            *)
SoloGatewayFresh == \A t \in Solo : GatewayFresh(t)

(* Whatever was acknowledged is eventually what the gateway decides with   *)
(* (IMPLEMENTATION_PLAN.md: "admin API sends SIGHUP to gateway after every *)
(* write").                                                                *)
EveryWriteServed == \A t \in Tables : \A n \in 1 .. MaxRev : Served(t, n)

(* For a table with one writer that is so through crashes of both          *)
(* processes, failed saves and races on other tables, too: what keeps the  *)
(* gateway from it is a signal, or a read of the table, that a fault took  *)
(* away, or a signal that ended the gateway while it started, for good; or *)
(* a file of another table that two writers have left torn, with which no  *)
(* gateway starts.                                                         *)
SoloWriteServed ==
  <>[](\A t \in Tables \ Solo : FileParses(t))
  => \A t \in Solo : \A n \in 1 .. MaxRev :
       (acked[t] >= n) ~> (gtab[t] >= n \/ t \in behind \/ gw = "stopped")

(* The abstract view: what is on disk is published, what a running gateway *)
(* holds is served.                                                        *)
Published == INSTANCE PublishedTables WITH
  Tables <- Solo,
  published <- [t \in Solo |-> Disk(t)],
  served <- [t \in Solo |-> IF gw = "up" THEN gtab[t] ELSE 0],
  running <- gw = "up"

(* The detailed protocol implements it: the disk only moves to newer       *)
(* revisions and a reload never takes the gateway back to an older one.    *)
PublishedSpec == Published!Spec
=============================================================================
