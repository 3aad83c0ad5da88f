------------------------------- MODULE OpMode -------------------------------
(***************************************************************************)
(* configure and commit: opmode.Store keeps the staged and the active      *)
(* revision and the commit history in files, each call under one mutex;    *)
(* the commit handler of the admin API then works without the mutex: it    *)
(* reads the state again, runs the operations plan action by action and    *)
(* loads the nftables rules through one shared file.                       *)
(*                                                                         *)
(* A revision is a number, in the order of the configure calls.  The host  *)
(* is a few slots of configuration, each set by one action of a plan; a    *)
(* table of the kernel is the set of revisions whose rules it holds: nft   *)
(* -f adds to the tables that exist.                                       *)
(***************************************************************************)
EXTENDS Naturals, Sequences

CONSTANTS
  Handlers,    \* calls that may be in flight at the same time
  None,
  Garbled,     \* text that is part of a record or ruleset, or a mixture
  Placeholder, \* what a write action puts into any file
  MaxRev,      \* bound: configure calls
  MaxCommits,  \* bound: lines of the history
  Slots,       \* pieces of host configuration
  Files,       \* those that write actions set; commands set the others
  PlanOf,      \* per revision: the pieces its plan's actions set, in order
  WithNat,     \* revisions that have source NAT rules
  OpsModes,    \* ops_mode values the clients send
  NftApplies,  \* values of CLAWGRESS_NFT_APPLY
  Faults,      \* which failures may happen
  MaxFaults    \* bound: how many

Revisions == 1 .. MaxRev
FaultKinds == {"crash", "file", "apply"}
Tables == {"inet", "nat"}

ASSUME OpModeAssumption ==
  /\ MaxRev \in Nat /\ MaxCommits \in Nat /\ Slots \in Nat /\ MaxFaults \in Nat
  /\ None \notin Nat \cup Handlers \cup {Garbled, Placeholder}
  /\ {Garbled, Placeholder} \cap Nat = {}
  /\ Files \subseteq 1 .. Slots /\ WithNat \subseteq Revisions
  /\ PlanOf \in [Revisions -> Seq(1 .. Slots)]
  /\ OpsModes \subseteq {"dry-run", "apply"}
  /\ NftApplies \subseteq BOOLEAN
  /\ Faults \subseteq FaultKinds

VARIABLES
  (* the state directory *)
  staged, active,  \* staged.json and active.json: a revision or None
  commits,         \* commits.jsonl: the revision of each line, or Garbled
  open,            \* its last line has no newline yet
  rulesFile,       \* compiled/nftables-active.nft: the revisions whose text
                   \* is in it, and Garbled for a piece of such a text
  (* the host *)
  slot,            \* whose action set each piece of configuration last
  kernel,          \* per table: the revisions whose rules are loaded
  (* the admin process *)
  nftApply,        \* CLAWGRESS_NFT_APPLY
  mutex,           \* the handler that holds Store.mu, or None
  pc,              \* where each handler is
  got,             \* the revision Commit read from staged.json
  view,            \* the active revision the handler read back
  mode,            \* the ops_mode of its last commit
  pos,             \* operations it has executed
  result,          \* history: the answer of the handler's last call
  (* history *)
  winners,         \* per revision: successful Store.Commit calls
  interrupted,     \* revisions whose commit stopped right after activation
  sole,            \* the handler of the last commit, if no other one was in
                   \* flight with it, or None
  kept,            \* per table: the rules it kept, its deletion having failed
  configured,      \* configure calls so far
  faults

storeVars == <<staged, active, commits, open>>
hostVars  == <<rulesFile, slot, kernel>>
callVars  == <<got, view, mode, pos>>
histVars  == <<winners, interrupted, sole, kept>>
vars == <<staged, active, commits, open, rulesFile, slot, kernel, nftApply,
          mutex, pc, got, view, mode, pos, result,
          winners, interrupted, sole, kept, configured, faults>>

Optional(S) == S \cup {None}

StoreSteps == {"log_configure", "activate", "history", "log_commit", "remove"}
RulesSteps == {"truncate", "rules", "delete_inet", "delete_nat", "load"}
ApplySteps == {"state", "ops"} \cup RulesSteps

NoRules == [t \in Tables |-> {}]

(* What nft -f loads from the text of revision r.                          *)
RulesOf(r) == [t \in Tables |-> IF t = "inet" \/ r \in WithNat THEN {r} ELSE {}]

(* What the action of a plan of revision r leaves in a piece.              *)
Leaves(r, piece) == IF piece \in Files THEN Placeholder ELSE r

Init ==
  /\ staged = None /\ active = None
  /\ commits = <<>> /\ open = FALSE
  /\ rulesFile = {}
  /\ slot = [i \in 1 .. Slots |-> None]
  /\ kernel = NoRules
  /\ nftApply \in NftApplies
  /\ mutex = None
  /\ pc = [h \in Handlers |-> "idle"]
  /\ got = [h \in Handlers |-> None]
  /\ view = [h \in Handlers |-> None]
  /\ mode = [h \in Handlers |-> "dry-run"]
  /\ pos = [h \in Handlers |-> 0]
  /\ result = [h \in Handlers |-> "none"]
  /\ winners = [r \in Revisions |-> 0]
  /\ interrupted = {}
  /\ sole = None
  /\ kept = NoRules
  /\ configured = 0
  /\ faults = 0

Goto(h, s) == pc' = [pc EXCEPT ![h] = s]

Reply(h, status) ==
  /\ result' = [result EXCEPT ![h] = status]
  /\ Goto(h, "idle")

Lock(h) == mutex = None /\ mutex' = h
Unlock(h) == mutex = h /\ mutex' = None

-----------------------------------------------------------------------------
(* Store.Configure *)

(* Mutant: Configure does not take the mutex. *)
ConfigureUnlocked(h) ==
  /\ pc[h] = "idle" /\ configured < MaxRev
  /\ configured' = configured + 1
  /\ staged' = configured + 1
  /\ Reply(h, "staged")
  /\ UNCHANGED <<active, commits, open, faults, mutex>>
  /\ UNCHANGED hostVars /\ UNCHANGED callVars /\ UNCHANGED histVars

(* A new revision replaces staged.json, whatever is in it. *)
Configure(h) ==
  /\ pc[h] = "idle" /\ configured < MaxRev
  /\ Lock(h)
  /\ configured' = configured + 1
  /\ staged' = configured + 1
  /\ result' = [result EXCEPT ![h] = "none"]
  /\ Goto(h, "log_configure")
  /\ UNCHANGED <<active, commits, open, faults>>
  /\ UNCHANGED hostVars /\ UNCHANGED callVars /\ UNCHANGED histVars

LogConfigure(h) ==
  /\ pc[h] = "log_configure"
  /\ Unlock(h)
  /\ Reply(h, "staged")
  /\ UNCHANGED <<configured, faults>>
  /\ UNCHANGED storeVars /\ UNCHANGED hostVars /\ UNCHANGED callVars /\ UNCHANGED histVars

-----------------------------------------------------------------------------
(* Store.Commit *)

Idle == \A h \in Handlers : pc[h] = "idle"

(* The commit starts, alone or beside others, with what was staged.        *)
TakeStaged(h, want, m) ==
  /\ mutex' = h
  /\ got' = [got EXCEPT ![h] = [rev |-> staged, want |-> want]]
  /\ mode' = [mode EXCEPT ![h] = m]
  /\ result' = [result EXCEPT ![h] = "none"]
  /\ Goto(h, "activate")
  /\ sole' = IF Idle THEN h ELSE None
  /\ kept' = NoRules

Refuse(h, status) ==
  /\ Reply(h, status)
  /\ UNCHANGED <<mutex, got, mode, sole, kept>>

(* Mutant: expected_revision_id is not compared. *)
ReadStagedUnchecked(h) ==
  /\ pc[h] = "idle" /\ Len(commits) < MaxCommits
  /\ mutex = None
  /\ \E want \in Optional(Revisions), m \in OpsModes :
       \/ staged = None /\ Refuse(h, "conflict")
       \/ staged # None /\ TakeStaged(h, want, m)
  /\ UNCHANGED <<view, pos, winners, interrupted, configured, faults>>
  /\ UNCHANGED storeVars /\ UNCHANGED hostVars

(* Mutant: a missing staged.json is read as the zero revision. *)
ReadStagedMissing(h) ==
  /\ pc[h] = "idle" /\ Len(commits) < MaxCommits
  /\ mutex = None
  /\ \E m \in OpsModes : TakeStaged(h, None, m)
  /\ UNCHANGED <<view, pos, winners, interrupted, configured, faults>>
  /\ UNCHANGED storeVars /\ UNCHANGED hostVars

(* staged.json is read and compared with the revision the client expects:  *)
(* 409 without one, 412 when it is another one.                            *)
ReadStaged(h) ==
  /\ pc[h] = "idle" /\ Len(commits) < MaxCommits
  /\ mutex = None
  /\ \E want \in Optional(Revisions), m \in OpsModes :
       \/ staged = None /\ Refuse(h, "conflict")
       \/ staged # None /\ want \notin {None, staged} /\ Refuse(h, "mismatch")
       \/ staged # None /\ want \in {None, staged} /\ TakeStaged(h, want, m)
  /\ UNCHANGED <<view, pos, winners, interrupted, configured, faults>>
  /\ UNCHANGED storeVars /\ UNCHANGED hostVars

(* Mutant: the mutex covers reading and activating only. *)
ActivateAndUnlock(h) ==
  /\ pc[h] = "activate"
  /\ Unlock(h)
  /\ active' = got[h].rev
  /\ Goto(h, "history")
  /\ UNCHANGED <<staged, commits, open, result, configured, faults>>
  /\ UNCHANGED hostVars /\ UNCHANGED callVars /\ UNCHANGED histVars

Activate(h) ==
  /\ pc[h] = "activate"
  /\ active' = got[h].rev
  /\ Goto(h, "history")
  /\ UNCHANGED <<staged, commits, open, mutex, result, configured, faults>>
  /\ UNCHANGED hostVars /\ UNCHANGED callVars /\ UNCHANGED histVars

(* O_APPEND: the text goes right behind what is there, so after a line     *)
(* without its newline it becomes part of that line.                       *)
Line(text) ==
  IF open THEN [commits EXCEPT ![Len(commits)] = Garbled] ELSE Append(commits, text)

AppendHistory(h) ==
  /\ pc[h] = "history"
  /\ commits' = Line(got[h].rev)
  /\ open' = FALSE
  /\ interrupted' = interrupted \ {got[h].rev}
  /\ Goto(h, "log_commit")
  /\ UNCHANGED <<staged, active, mutex, result, winners, sole, kept, configured, faults>>
  /\ UNCHANGED hostVars /\ UNCHANGED callVars

(* audit.log is written and read by nobody here.                           *)
LogCommit(h) ==
  /\ pc[h] = "log_commit"
  /\ Goto(h, "remove")
  /\ UNCHANGED <<mutex, result, configured, faults>>
  /\ UNCHANGED storeVars /\ UNCHANGED hostVars /\ UNCHANGED callVars /\ UNCHANGED histVars

(* Mutant: the staged revision is kept. *)
RemoveStagedNot(h) ==
  /\ pc[h] = "remove"
  /\ winners' = [winners EXCEPT ![got[h].rev] = winners[got[h].rev] + 1]
  /\ got' = [got EXCEPT ![h] = None]
  /\ Unlock(h)
  /\ Goto(h, "state")
  /\ UNCHANGED <<staged, active, commits, open>>
  /\ UNCHANGED <<view, mode, pos, result, interrupted, sole, kept, configured, faults>>
  /\ UNCHANGED hostVars

(* os.Remove, and Commit returns without an error. *)
RemoveStaged(h) ==
  /\ pc[h] = "remove"
  /\ staged' = None
  /\ winners' = [winners EXCEPT ![got[h].rev] = winners[got[h].rev] + 1]
  /\ got' = [got EXCEPT ![h] = None]
  /\ Unlock(h)
  /\ Goto(h, "state")
  /\ UNCHANGED <<active, commits, open>>
  /\ UNCHANGED <<view, mode, pos, result, interrupted, sole, kept, configured, faults>>
  /\ UNCHANGED hostVars

-----------------------------------------------------------------------------
(* The commit handler after Store.Commit *)

(* How a call ends: its locals are gone, its answer is out. *)
Finish(h, status) ==
  /\ Reply(h, status)
  /\ got' = [got EXCEPT ![h] = None]
  /\ view' = [view EXCEPT ![h] = None]
  /\ pos' = [pos EXCEPT ![h] = 0]
  /\ UNCHANGED mode

(* A line of the history that does not parse. *)
Torn == \E i \in DOMAIN commits : commits[i] = Garbled

Fault(kind) == kind \in Faults /\ faults < MaxFaults /\ faults' = faults + 1

(* Store.State fails when the history cannot be read or parsed.  A failed  *)
(* read of active.json it does not report: the handler then has no active  *)
(* revision, plans nothing, and answers 200 where nft is off.              *)
ReadState(h) ==
  /\ pc[h] = "state" /\ mutex = None
  /\ \/ Torn /\ Finish(h, "error") /\ UNCHANGED faults
     \/ Fault("file") /\ Finish(h, "error")
     \/ ~Torn /\ Fault("file") /\ Finish(h, IF nftApply THEN "error" ELSE "unplanned")
     \/ /\ ~Torn
        /\ view' = [view EXCEPT ![h] = active]
        /\ Goto(h, "ops")
        /\ UNCHANGED <<got, mode, pos, result, faults>>
  /\ UNCHANGED <<mutex, configured>>
  /\ UNCHANGED storeVars /\ UNCHANGED hostVars /\ UNCHANGED histVars

Acting(h) == pc[h] = "ops" /\ mode[h] = "apply" /\ pos[h] < Len(PlanOf[view[h]])
NextPiece(h) == PlanOf[view[h]][pos[h] + 1]

(* The next action of the plan; a dry run changes nothing. *)
RunAction(h) ==
  /\ Acting(h)
  /\ pos' = [pos EXCEPT ![h] = pos[h] + 1]
  /\ slot' = [slot EXCEPT ![NextPiece(h)] = Leaves(view[h], NextPiece(h))]
  /\ UNCHANGED <<rulesFile, kernel, got, view, mode>>
  /\ UNCHANGED <<mutex, pc, result, configured, faults>>
  /\ UNCHANGED storeVars /\ UNCHANGED histVars

FinishOps(h) ==
  /\ pc[h] = "ops" /\ (mode[h] = "apply" => pos[h] = Len(PlanOf[view[h]]))
  /\ \/ nftApply /\ Goto(h, "truncate") /\ UNCHANGED <<got, view, mode, pos, result>>
     \/ ~nftApply /\ Finish(h, "committed")
  /\ UNCHANGED <<mutex, configured, faults>>
  /\ UNCHANGED storeVars /\ UNCHANGED hostVars /\ UNCHANGED histVars

(* ApplyNftables: os.WriteFile empties the rules file ... *)
TruncateRules(h) ==
  /\ pc[h] = "truncate"
  /\ rulesFile' = {}
  /\ Goto(h, "rules")
  /\ UNCHANGED <<slot, kernel, mutex, result, configured, faults>>
  /\ UNCHANGED storeVars /\ UNCHANGED callVars /\ UNCHANGED histVars

(* ... and fills it from the start: the end of a longer text that another  *)
(* handler has put there meanwhile may stay behind the new one.            *)
WriteRules(h) ==
  /\ pc[h] = "rules"
  /\ rulesFile' = rulesFile \cup {view[h]}
  /\ Goto(h, "delete_inet")
  /\ UNCHANGED <<slot, kernel, mutex, result, configured, faults>>
  /\ UNCHANGED storeVars /\ UNCHANGED callVars /\ UNCHANGED histVars

(* Mutant: the old table is left in the kernel. *)
DeleteTableNot(h, t, next) ==
  /\ Goto(h, next)
  /\ UNCHANGED <<rulesFile, slot, kernel, mutex, result, configured, faults>>
  /\ UNCHANGED storeVars /\ UNCHANGED callVars /\ UNCHANGED histVars

(* Each table is deleted by a command of its own, whose failure nobody     *)
(* looks at ...                                                            *)
DeleteTable(h, t, next) ==
  /\ \/ kernel' = [kernel EXCEPT ![t] = {}] /\ UNCHANGED <<kept, faults>>
     \/ Fault("apply") /\ kept' = [kept EXCEPT ![t] = kernel[t]] /\ UNCHANGED kernel
  /\ Goto(h, next)
  /\ UNCHANGED <<rulesFile, slot, mutex, result, winners, interrupted, sole, configured>>
  /\ UNCHANGED storeVars /\ UNCHANGED callVars

DeleteTables(h) ==
  \/ pc[h] = "delete_inet" /\ DeleteTable(h, "inet", "delete_nat")
  \/ pc[h] = "delete_nat" /\ DeleteTable(h, "nat", "load")

(* ... and nft -f adds what the file holds now.  A text that is not one    *)
(* revision's is refused, or adds those of its rules that still parse.     *)
Whole(texts) == Garbled \notin texts /\ \A r, q \in texts : r = q
Held(t) == UNION {RulesOf(r)[t] : r \in rulesFile \ {Garbled}}

LoadRules(h) ==
  /\ pc[h] = "load"
  /\ \/ /\ Whole(rulesFile)
        /\ kernel' = [t \in Tables |-> kernel[t] \cup Held(t)]
        /\ Finish(h, "committed")
     \/ /\ ~Whole(rulesFile)
        /\ \E some \in [Tables -> SUBSET rulesFile] :
             kernel' = [t \in Tables |-> kernel[t] \cup (some[t] \cap Held(t))]
        /\ Finish(h, "committed")
     \/ ~Whole(rulesFile) /\ Finish(h, "error") /\ UNCHANGED kernel
  /\ UNCHANGED <<rulesFile, slot, mutex, configured, faults>>
  /\ UNCHANGED storeVars /\ UNCHANGED histVars

-----------------------------------------------------------------------------
(* Failures *)

(* What an append of one of the handlers leaves when it does not succeed:  *)
(* nothing, a piece of the record, or the record without its newline.      *)
CutAppend(S) ==
  \/ UNCHANGED <<commits, open>>
  \/ \E h \in S : /\ pc[h] = "history"
                  /\ commits' \in {Line(Garbled), Line(got[h].rev)}
                  /\ open' = TRUE

(* The revisions whose commits, of the handlers in S, stop between         *)
(* active.json and the history.                                            *)
CutOff(S) == {got[g].rev : g \in {f \in S : pc[f] = "history"}}

(* A file operation fails: Configure or Commit returns at once, a 500.     *)
StoreError(h) ==
  /\ Fault("file")
  /\ pc[h] \in StoreSteps
  /\ CutAppend({h})
  /\ interrupted' = interrupted \cup CutOff({h})
  /\ Unlock(h)
  /\ Finish(h, "error")
  /\ UNCHANGED <<staged, active, winners, sole, kept, configured>>
  /\ UNCHANGED hostVars

(* What an action that does not succeed leaves: what was there, or neither *)
(* that nor what it was to set (an emptied file, a stopped service).       *)
CutAction(S) ==
  \/ UNCHANGED slot
  \/ \E h \in S : Acting(h) /\ slot' = [slot EXCEPT ![NextPiece(h)] = None]

(* An action of the plan, the rules file or nft -f fails: a 500, and what  *)
(* was done before stays done.                                             *)
ApplyError(h) ==
  /\ Fault("apply")
  /\ \/ Acting(h) /\ CutAction({h}) /\ UNCHANGED rulesFile
     \/ pc[h] \in {"truncate", "load"} /\ UNCHANGED <<slot, rulesFile>>
     \/ /\ pc[h] = "rules"
        /\ \E text \in {{}, {Garbled}, {view[h]}} : rulesFile' = rulesFile \cup text
        /\ UNCHANGED slot
  /\ Finish(h, "error")
  /\ UNCHANGED <<kernel, mutex, configured>>
  /\ UNCHANGED storeVars /\ UNCHANGED histVars

(* The process dies and is started again: nothing is replayed. *)
Crash ==
  /\ Fault("crash")
  /\ mutex' = None
  /\ CutAppend(Handlers)
  /\ interrupted' = interrupted \cup CutOff(Handlers)
  /\ CutAction(Handlers)
  /\ pc' = [h \in Handlers |-> "idle"]
  /\ got' = [h \in Handlers |-> None]
  /\ view' = [h \in Handlers |-> None]
  /\ pos' = [h \in Handlers |-> 0]
  /\ UNCHANGED mode
  /\ result' = [h \in Handlers |-> "none"]
  /\ sole' = None
  /\ UNCHANGED <<staged, active, winners, kept, configured, rulesFile, kernel>>

-----------------------------------------------------------------------------
StoreCommit(h) ==
  ReadStaged(h) \/ Activate(h) \/ AppendHistory(h) \/ LogCommit(h) \/ RemoveStaged(h)

ApplyStep(h) ==
  \/ ReadState(h) \/ RunAction(h) \/ FinishOps(h)
  \/ TruncateRules(h) \/ WriteRules(h) \/ DeleteTables(h) \/ LoadRules(h)

Next ==
  /\ \/ \E h \in Handlers :
          \/ Configure(h) \/ LogConfigure(h)
          \/ StoreCommit(h) \/ ApplyStep(h)
          \/ StoreError(h) \/ ApplyError(h)
     \/ Crash
  /\ UNCHANGED nftApply

Spec == Init /\ [][Next]_vars

-----------------------------------------------------------------------------
TypeOK ==
  /\ staged \in Optional(Revisions) /\ active \in Optional(Revisions)
  /\ commits \in Seq(Revisions \cup {Garbled})
  /\ open \in BOOLEAN /\ (open => commits # <<>>)
  /\ rulesFile \subseteq Revisions \cup {Garbled}
  /\ slot \in [1 .. Slots -> Revisions \cup {None, Placeholder}]
  /\ kernel \in [Tables -> SUBSET Revisions]
  /\ nftApply \in BOOLEAN
  /\ mutex \in Optional(Handlers)
  /\ pc \in [Handlers -> {"idle"} \cup StoreSteps \cup ApplySteps]
  /\ got \in [Handlers -> Optional([rev : Revisions, want : Optional(Revisions)])]
  /\ view \in [Handlers -> Optional(Revisions)]
  /\ mode \in [Handlers -> {"dry-run", "apply"}]
  /\ pos \in [Handlers -> Nat]
  /\ result \in [Handlers -> {"none", "staged", "conflict", "mismatch", "committed",
                              "unplanned", "error"}]
  /\ winners \in [Revisions -> Nat]
  /\ interrupted \subseteq Revisions
  /\ sole \in Optional(Handlers)
  /\ kept \in [Tables -> SUBSET Revisions]
  /\ configured \in 0 .. MaxRev
  /\ faults \in 0 .. MaxFaults

(* However many commits race and whatever fails between their steps, one   *)
(* revision is the success of at most one Store.Commit call: the staged    *)
(* file is gone before the mutex is released.                              *)
OneWinner == \A r \in Revisions : winners[r] <= 1

(* Whenever Store.State answers, its last_commit is the commit of its      *)
(* active revision, unless that commit has only ever stopped between       *)
(* active.json and the history.  A record that joins a torn line costs     *)
(* State every later answer; it never makes it name another commit.        *)
HistoryNamesActive ==
  mutex = None /\ ~Torn /\ active # None /\ active \notin interrupted
  => commits # <<>> /\ commits[Len(commits)] = active

(* A commit with expected_revision_id never puts another revision in       *)
(* force, although other clients configure and commit all the time.        *)
OnlyTheExpected ==
  [][\A h \in Handlers :
       pc[h] = "activate" /\ active' # active
       => active' = staged /\ got[h].want \in {None, active'}]_vars

(* What the two files mean to a reader: a revision that is staged and      *)
(* active already counts as in force, and waits no longer.                 *)
Promise == INSTANCE Activation WITH
  waiting <- IF staged = active THEN None ELSE staged,
  inForce <- active

(* "commit atomically activates staged revision" (MVPv1.md): through every *)
(* crash and failed step the state files implement the abstract register;  *)
(* no revision disappears between staged.json and active.json.             *)
ActivationSpec == Promise!Spec

(* A commit with no other one in flight that is answered with a 200 and an *)
(* ops_status is what the host runs, whatever raced, crashed or failed     *)
(* before.  With nft on, the tables hold its rules and, beside them, only  *)
(* those of a table whose deletion failed in this very commit, which the   *)
(* 200 does not tell.  When the plan was applied, each of its pieces was   *)
(* set by it: a command took effect, a file holds the placeholder.         *)
AckedIsInForce ==
  \A h \in Handlers :
    sole = h /\ result[h] = "committed" /\ Idle
    => /\ nftApply => kernel = [t \in Tables |-> kept[t] \cup RulesOf(active)[t]]
       /\ mode[h] = "apply" =>
            \A i \in DOMAIN PlanOf[active] :
              slot[PlanOf[active][i]] = Leaves(active, PlanOf[active][i])

(* "commit applies rendered nftables ruleset on gateway hosts" (MVPv1.md): *)
(* once every call is answered and none failed, the rules of the active    *)
(* revision are in the kernel and no others.                               *)
KernelRunsActive ==
  Idle /\ nftApply /\ active # None /\ faults = 0 => kernel = RulesOf(active)
=============================================================================
