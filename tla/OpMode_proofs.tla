---------------------------- MODULE OpMode_proofs ----------------------------
(***************************************************************************)
(* Proofs about OpMode, for any number of handlers, revisions, commits and *)
(* failures: the state files of opmode.Store implement Activation, and     *)
(* each revision is won by one commit.                                     *)
(***************************************************************************)
EXTENDS OpMode, TLAPS

LEMMA Constants ==
  /\ MaxRev \in Nat /\ MaxCommits \in Nat /\ Slots \in Nat /\ MaxFaults \in Nat
  /\ None \notin Nat /\ None \notin Handlers /\ None \notin Revisions
  /\ Revisions \subseteq Nat
  /\ Garbled \notin Revisions
  /\ OpsModes \subseteq {"dry-run", "apply"} /\ NftApplies \subseteq BOOLEAN
BY OpModeAssumption DEF Revisions

LEMMA FaultBound == ASSUME NEW kind, faults \in 0 .. MaxFaults, Fault(kind)
                    PROVE  faults' \in 0 .. MaxFaults
BY Constants DEF Fault

(* The steps of Commit that hold the revision they read.                   *)
CommitSteps == {"activate", "history", "log_commit", "remove"}

Staged == [rev : Revisions, want : Optional(Revisions)]

Answers == {"none", "staged", "conflict", "mismatch", "committed", "unplanned", "error"}

CallTypes ==
  /\ pc \in [Handlers -> {"idle"} \cup StoreSteps \cup ApplySteps]
  /\ got \in [Handlers -> Optional(Staged)]
  /\ view \in [Handlers -> Optional(Revisions)]
  /\ mode \in [Handlers -> {"dry-run", "apply"}]
  /\ pos \in [Handlers -> Nat]
  /\ result \in [Handlers -> Answers]

LEMMA CallTypesOf == TypeOK => CallTypes
BY DEF TypeOK, CallTypes, Staged, Answers

(***************************************************************************)
(* The invariant.  The handler in a step of the store is the one that      *)
(* holds the mutex; the revision a commit read is still the staged one,    *)
(* and from the second file on also the active one.                        *)
(***************************************************************************)
MutexInv == \A h \in Handlers : pc[h] \in StoreSteps <=> mutex = h

CommitInv ==
  \A h \in Handlers : pc[h] \in CommitSteps =>
    /\ got[h] \in Staged
    /\ staged = got[h].rev
    /\ got[h].want \in {None, staged}
    /\ pc[h] # "activate" => active = staged

(* Revisions are configured before they are staged or active, and what is  *)
(* staged has not won yet.                                                 *)
RevisionInv ==
  /\ staged \in Optional(1 .. configured)
  /\ active \in Optional(1 .. configured)
  /\ \A r \in Revisions : r = staged \/ r > configured => winners[r] = 0
  /\ \A r \in Revisions : winners[r] <= 1

HistoryInv ==
  active # None /\ active \notin interrupted /\ (\A h \in Handlers : pc[h] # "history")
  => Torn \/ (commits # <<>> /\ commits[Len(commits)] = active)

StoreInv == MutexInv /\ CommitInv /\ RevisionInv /\ HistoryInv

(* A commit that is over has left an active revision, which the handler    *)
(* reads before it does anything with it.                                  *)
ViewInv ==
  \A h \in Handlers :
    /\ pc[h] = "state" => active \in Revisions
    /\ pc[h] \in {"ops"} \cup RulesSteps => view[h] \in Revisions

-----------------------------------------------------------------------------
(* What an append makes of the history: its last line is the new text, or  *)
(* Garbled behind an open line, and no line is repaired.                   *)
LEMMA LineFacts ==
  ASSUME TypeOK, NEW text \in Revisions \cup {Garbled}
  PROVE  /\ Line(text) \in Seq(Revisions \cup {Garbled}) /\ Line(text) # <<>>
         /\ Line(text)[Len(Line(text))] = IF open THEN Garbled ELSE text
         /\ \A i \in DOMAIN commits :
              /\ i \in DOMAIN Line(text)
              /\ commits[i] = Garbled => Line(text)[i] = Garbled
<1> DEFINE Texts == Revisions \cup {Garbled}
<1>1. commits \in Seq(Texts) /\ text \in Texts /\ Garbled \in Texts
  BY DEF TypeOK
<1>2. CASE open
  <2>1. commits # <<>> /\ Len(commits) \in Nat /\ Len(commits) > 0
    BY <1>1, <1>2 DEF TypeOK
  <2>2. Line(text) = [commits EXCEPT ![Len(commits)] = Garbled]
    BY <1>2 DEF Line
  <2>3. Line(text) \in Seq(Texts) /\ Len(Line(text)) = Len(commits)
    BY <1>1, <2>1, <2>2
  <2> QED
    BY <1>1, <1>2, <2>1, <2>2, <2>3
<1>3. CASE ~open
  <2>1. Line(text) = Append(commits, text)
    BY <1>3 DEF Line
  <2>2. /\ Line(text) \in Seq(Texts) /\ Len(Line(text)) = Len(commits) + 1
        /\ Line(text)[Len(commits) + 1] = text
        /\ \A i \in 1 .. Len(commits) : Line(text)[i] = commits[i]
    BY <1>1, <2>1
  <2>3. Len(commits) \in Nat /\ DOMAIN commits = 1 .. Len(commits)
        /\ DOMAIN Line(text) = 1 .. (Len(commits) + 1)
    BY <1>1, <2>2
  <2> QED
    BY <1>3, <2>2, <2>3
<1> QED
  BY <1>2, <1>3

LEMMA CutAppendTypes ==
  ASSUME TypeOK, CommitInv, NEW S \in SUBSET Handlers, CutAppend(S)
  PROVE  /\ commits' \in Seq(Revisions \cup {Garbled})
         /\ open' \in BOOLEAN /\ (open' => commits' # <<>>)
<1>1. CASE UNCHANGED <<commits, open>>
  BY <1>1 DEF TypeOK
<1>2. ASSUME NEW h \in S, pc[h] = "history", open' = TRUE,
             commits' \in {Line(Garbled), Line(got[h].rev)}
      PROVE  commits' \in Seq(Revisions \cup {Garbled}) /\ commits' # <<>>
  <2>1. got[h].rev \in Revisions
    BY <1>2 DEF CommitInv, CommitSteps, Staged
  <2> QED
    BY <1>2, <2>1, LineFacts
<1> QED
  BY <1>1, <1>2 DEF CutAppend

LEMMA CutActionTypes ==
  ASSUME TypeOK, NEW S \in SUBSET Handlers, CutAction(S)
  PROVE  slot' \in [1 .. Slots -> Revisions \cup {None, Placeholder}]
<1>1. CASE UNCHANGED slot
  BY <1>1 DEF TypeOK
<1>2. ASSUME NEW h \in S, slot' = [slot EXCEPT ![NextPiece(h)] = None]
      PROVE  slot' \in [1 .. Slots -> Revisions \cup {None, Placeholder}]
  BY <1>2 DEF TypeOK
<1> QED
  BY <1>1, <1>2 DEF CutAction

-----------------------------------------------------------------------------
(* Types.  Only the steps of a commit need more than TypeOK: the revision  *)
(* they read is one.                                                       *)
LEMMA FinishTypes ==
  ASSUME NEW h \in Handlers, CallTypes, NEW s \in {"committed", "unplanned", "error"}, Finish(h, s)
  PROVE  CallTypes'
<1> USE DEF CallTypes, Finish, Reply, Goto, Optional, Answers
<1>1. got' \in [Handlers -> Optional(Staged)]
  OBVIOUS
<1>2. view' \in [Handlers -> Optional(Revisions)]
  OBVIOUS
<1>3. pos' \in [Handlers -> Nat] /\ mode' \in [Handlers -> {"dry-run", "apply"}]
  OBVIOUS
<1>4. pc' \in [Handlers -> {"idle"} \cup StoreSteps \cup ApplySteps]
  OBVIOUS
<1>5. result' \in [Handlers -> Answers]
  OBVIOUS
<1> QED
  BY <1>1, <1>2, <1>3, <1>4, <1>5

LEMMA TypeNext == TypeOK /\ CommitInv /\ ViewInv /\ [Next]_vars => TypeOK'
<1> SUFFICES ASSUME TypeOK, CommitInv, ViewInv, [Next]_vars PROVE TypeOK'
  OBVIOUS
<1> USE Constants DEF Optional, StoreSteps, ApplySteps, RulesSteps
<1>0. nftApply' = nftApply
  BY DEF Next, vars
<1>1. ASSUME NEW h \in Handlers, Configure(h) PROVE TypeOK'
  BY <1>0, <1>1 DEF TypeOK, Configure, Lock, Goto, hostVars, callVars, histVars, Revisions
<1>2. ASSUME NEW h \in Handlers, LogConfigure(h) PROVE TypeOK'
  BY <1>0, <1>2 DEF TypeOK, LogConfigure, Unlock, Reply, Goto, storeVars, hostVars, callVars, histVars
<1>3. ASSUME NEW h \in Handlers, ReadStaged(h) PROVE TypeOK'
  <2>1. PICK want \in Optional(Revisions), m \in OpsModes :
          \/ Refuse(h, "conflict")
          \/ Refuse(h, "mismatch")
          \/ staged # None /\ TakeStaged(h, want, m)
    BY <1>3 DEF ReadStaged
  <2>2. CASE staged # None /\ TakeStaged(h, want, m)
    <3>1. [rev |-> staged, want |-> want] \in [rev : Revisions, want : Optional(Revisions)]
      BY <2>2 DEF TypeOK
    <3>2. got' \in [Handlers -> Optional([rev : Revisions, want : Optional(Revisions)])]
      BY <2>2, <3>1 DEF TypeOK, TakeStaged
    <3>3. mode' \in [Handlers -> {"dry-run", "apply"}]
      BY <2>2 DEF TypeOK, TakeStaged
    <3>4. kept' \in [Tables -> SUBSET Revisions] /\ sole' \in Optional(Handlers) /\ mutex' = h
      BY <2>2 DEF TakeStaged, NoRules
    <3>5. /\ pc' \in [Handlers -> {"idle"} \cup StoreSteps \cup ApplySteps]
          /\ result' \in [Handlers -> {"none", "staged", "conflict", "mismatch", "committed",
                                       "unplanned", "error"}]
      BY <2>2 DEF TypeOK, TakeStaged, Goto
    <3>6. UNCHANGED <<view, pos, winners, interrupted, configured, faults, staged, active,
                      commits, open, rulesFile, slot, kernel>>
      BY <1>3 DEF ReadStaged, storeVars, hostVars
    <3> QED
      BY <1>0, <3>2, <3>3, <3>4, <3>5, <3>6 DEF TypeOK
  <2> QED
    BY <1>0, <1>3, <2>1, <2>2 DEF TypeOK, ReadStaged, Refuse, Reply, Goto, storeVars, hostVars
<1>4. ASSUME NEW h \in Handlers, pc[h] \in CommitSteps PROVE got[h].rev \in Revisions
  BY <1>4 DEF CommitInv, Staged
<1>5. ASSUME NEW h \in Handlers, Activate(h) PROVE TypeOK'
  BY <1>0, <1>5, <1>4 DEF TypeOK, Activate, Goto, hostVars, callVars, histVars, CommitSteps
<1>6. ASSUME NEW h \in Handlers, AppendHistory(h) PROVE TypeOK'
  <2>1. commits' \in Seq(Revisions \cup {Garbled})
    BY <1>6, <1>4, LineFacts DEF AppendHistory, CommitSteps
  <2>2. open' = FALSE /\ interrupted' \subseteq Revisions
    BY <1>6 DEF TypeOK, AppendHistory
  <2> QED
    BY <1>0, <1>6, <2>1, <2>2 DEF TypeOK, AppendHistory, Goto, hostVars, callVars
<1>7. ASSUME NEW h \in Handlers, LogCommit(h) PROVE TypeOK'
  BY <1>0, <1>7 DEF TypeOK, LogCommit, Goto, storeVars, hostVars, callVars, histVars
<1>8. ASSUME NEW h \in Handlers, RemoveStaged(h) PROVE TypeOK'
  <2>1. got' \in [Handlers -> Optional([rev : Revisions, want : Optional(Revisions)])]
    BY <1>8 DEF TypeOK, RemoveStaged
  <2>2. winners' \in [Revisions -> Nat]
    <3>1. got[h].rev \in Revisions
      BY <1>8, <1>4 DEF RemoveStaged, CommitSteps
    <3>2. winners' = [winners EXCEPT ![got[h].rev] = winners[got[h].rev] + 1]
      BY <1>8 DEF RemoveStaged
    <3>3. winners \in [Revisions -> Nat]
      BY DEF TypeOK
    <3>4. \A r \in Revisions : [winners EXCEPT ![r] = winners[r] + 1] \in [Revisions -> Nat]
      BY <3>3
    <3> QED
      BY <3>1, <3>2, <3>4
  <2>3. pc' \in [Handlers -> {"idle"} \cup StoreSteps \cup ApplySteps]
    BY <1>8 DEF TypeOK, RemoveStaged, Goto
  <2> QED
    BY <1>0, <1>8, <2>1, <2>2, <2>3 DEF TypeOK, RemoveStaged, Unlock, hostVars
<1>9. CallTypes
  BY CallTypesOf
<1>10. ASSUME NEW h \in Handlers, ReadState(h) PROVE TypeOK'
  <2>1. faults' \in 0 .. MaxFaults
    BY <1>10, FaultBound DEF TypeOK, ReadState
  <2>2. UNCHANGED <<mutex, configured, staged, active, commits, open, rulesFile, slot, kernel,
                    winners, interrupted, sole, kept>>
    BY <1>10 DEF ReadState, storeVars, hostVars, histVars
  <2>3. CallTypes'
    <3>1. CASE Finish(h, "error") \/ Finish(h, "unplanned")
      BY <1>9, <3>1, FinishTypes
    <3>2. CASE view' = [view EXCEPT ![h] = active] /\ Goto(h, "ops") /\ UNCHANGED <<got, mode, pos, result>>
      <4>1. view' \in [Handlers -> Optional(Revisions)]
        BY <3>2 DEF TypeOK
      <4> QED
        BY <1>9, <3>2, <4>1 DEF CallTypes, Goto
    <3> QED
      BY <1>10, <3>1, <3>2 DEF ReadState
  <2> QED
    BY <1>0, <2>1, <2>2, <2>3 DEF TypeOK, CallTypes, Staged, Answers
<1>11. ASSUME NEW h \in Handlers, RunAction(h) PROVE TypeOK'
  <2>1. Leaves(view[h], NextPiece(h)) \in Revisions \cup {None, Placeholder}
    BY DEF TypeOK, Leaves
  <2>2. slot' \in [1 .. Slots -> Revisions \cup {None, Placeholder}]
    BY <1>11, <2>1 DEF TypeOK, RunAction
  <2>3. pos' \in [Handlers -> Nat]
    BY <1>11 DEF TypeOK, RunAction
  <2> QED
    BY <1>0, <1>11, <2>2, <2>3 DEF TypeOK, RunAction, storeVars, histVars
<1>12. ASSUME NEW h \in Handlers, FinishOps(h) PROVE TypeOK'
  <2>1. CASE Finish(h, "committed")
    <3>1. CallTypes'
      BY <1>9, <2>1, FinishTypes
    <3> QED
      BY <1>0, <1>12, <3>1 DEF TypeOK, CallTypes, Staged, Answers, FinishOps, storeVars, hostVars, histVars
  <2>2. CASE Goto(h, "truncate") /\ UNCHANGED <<got, view, mode, pos, result>>
    BY <1>0, <1>12, <2>2 DEF TypeOK, FinishOps, Goto, storeVars, hostVars, histVars
  <2> QED
    BY <1>12, <2>1, <2>2 DEF FinishOps
<1>13. ASSUME NEW h \in Handlers, TruncateRules(h) \/ WriteRules(h) PROVE TypeOK'
  <2>1. rulesFile' \subseteq Revisions \cup {Garbled}
    <3>1. CASE TruncateRules(h)
      BY <3>1 DEF TruncateRules
    <3>2. CASE WriteRules(h)
      <4>1. view[h] \in Revisions /\ rulesFile' = rulesFile \cup {view[h]}
        BY <3>2 DEF WriteRules, ViewInv
      <4> QED
        BY <4>1 DEF TypeOK
    <3> QED
      BY <1>13, <3>1, <3>2
  <2>2. pc' \in [Handlers -> {"idle"} \cup StoreSteps \cup ApplySteps]
    BY <1>13 DEF TypeOK, TruncateRules, WriteRules, Goto
  <2>3. UNCHANGED <<slot, kernel, mutex, result, configured, faults, staged, active, commits, open,
                    got, view, mode, pos, winners, interrupted, sole, kept>>
    BY <1>13 DEF TruncateRules, WriteRules, storeVars, callVars, histVars
  <2> QED
    BY <1>0, <2>1, <2>2, <2>3 DEF TypeOK
<1>14. ASSUME NEW h \in Handlers, DeleteTables(h) PROVE TypeOK'
  <2>1. PICK t \in Tables, next \in {"delete_nat", "load"} : DeleteTable(h, t, next)
    BY <1>14 DEF DeleteTables, Tables
  <2>2. faults' \in 0 .. MaxFaults
    BY <2>1, FaultBound DEF TypeOK, DeleteTable
  <2>3. kernel' \in [Tables -> SUBSET Revisions] /\ kept' \in [Tables -> SUBSET Revisions]
    BY <2>1 DEF TypeOK, DeleteTable
  <2>4. pc' \in [Handlers -> {"idle"} \cup StoreSteps \cup ApplySteps]
    BY <2>1 DEF TypeOK, DeleteTable, Goto
  <2> QED
    BY <1>0, <2>1, <2>2, <2>3, <2>4 DEF TypeOK, DeleteTable, storeVars, callVars
<1>15. ASSUME NEW h \in Handlers, LoadRules(h) PROVE TypeOK'
  <2>1. CallTypes'
    BY <1>9, <1>15, FinishTypes DEF LoadRules
  <2>2. kernel' \in [Tables -> SUBSET Revisions]
    <3>1. \A t \in Tables : Held(t) \subseteq Revisions
      <4>1. \A r \in rulesFile \ {Garbled} : r \in Revisions
        BY DEF TypeOK
      <4>2. \A r, t : t \in Tables => RulesOf(r)[t] \subseteq {r}
        BY DEF RulesOf
      <4> QED
        BY <4>1, <4>2 DEF Held
    <3>2. kernel \in [Tables -> SUBSET Revisions]
      BY DEF TypeOK
    <3>3. CASE kernel' = [t \in Tables |-> kernel[t] \cup Held(t)]
      BY <3>1, <3>2, <3>3
    <3>4. CASE \E some \in [Tables -> SUBSET rulesFile] :
                 kernel' = [t \in Tables |-> kernel[t] \cup (some[t] \cap Held(t))]
      BY <3>1, <3>2, <3>4
    <3> QED
      BY <1>15, <3>2, <3>3, <3>4 DEF LoadRules
  <2> QED
    BY <1>0, <1>15, <2>1, <2>2 DEF TypeOK, CallTypes, Staged, Answers, LoadRules, storeVars, histVars
<1>16. ASSUME NEW h \in Handlers, StoreError(h) PROVE TypeOK'
  <2>1. interrupted' \subseteq Revisions
    <3>1. pc[h] = "history" => got[h].rev \in Revisions
      BY <1>4 DEF CommitSteps
    <3>2. interrupted' = interrupted \cup CutOff({h})
      BY <1>16 DEF StoreError
    <3>3. CutOff({h}) \subseteq Revisions
      BY <3>1 DEF CutOff
    <3> QED
      BY <3>2, <3>3 DEF TypeOK
  <2>2. faults' \in 0 .. MaxFaults
    BY <1>16, FaultBound DEF StoreError, TypeOK
  <2>3. commits' \in Seq(Revisions \cup {Garbled}) /\ open' \in BOOLEAN /\ (open' => commits' # <<>>)
    BY <1>16, CutAppendTypes DEF StoreError
  <2>4. CallTypes'
    BY <1>9, <1>16, FinishTypes DEF StoreError
  <2>5. mutex' = None
    BY <1>16 DEF StoreError, Unlock
  <2>6. UNCHANGED <<staged, active, winners, sole, kept, configured, rulesFile, slot, kernel>>
    BY <1>16 DEF StoreError, hostVars
  <2> QED
    BY <1>0, <2>1, <2>2, <2>3, <2>4, <2>5, <2>6 DEF TypeOK, CallTypes, Staged, Answers
<1>17. ASSUME NEW h \in Handlers, ApplyError(h) PROVE TypeOK'
  <2>1. faults' \in 0 .. MaxFaults
    BY <1>17, FaultBound DEF ApplyError, TypeOK
  <2>2. CallTypes'
    BY <1>9, <1>17, FinishTypes DEF ApplyError
  <2>3. slot' \in [1 .. Slots -> Revisions \cup {None, Placeholder}]
    BY <1>17, CutActionTypes DEF ApplyError, TypeOK
  <2>4. rulesFile' \subseteq Revisions \cup {Garbled}
    BY <1>17 DEF ApplyError, TypeOK, ViewInv
  <2> QED
    BY <1>0, <1>17, <2>1, <2>2, <2>3, <2>4
       DEF TypeOK, CallTypes, Staged, Answers, ApplyError, storeVars, histVars
<1>18. CASE Crash
  <2>1. interrupted' \subseteq Revisions
    <3>1. \A g \in Handlers : pc[g] = "history" => got[g].rev \in Revisions
      BY <1>4 DEF CommitSteps
    <3>2. interrupted' = interrupted \cup CutOff(Handlers)
      BY <1>18 DEF Crash
    <3>3. CutOff(Handlers) \subseteq Revisions
      BY <3>1 DEF CutOff
    <3> QED
      BY <3>2, <3>3 DEF TypeOK
  <2>2. faults' \in 0 .. MaxFaults
    BY <1>18, FaultBound DEF Crash, TypeOK
  <2>3. commits' \in Seq(Revisions \cup {Garbled}) /\ open' \in BOOLEAN /\ (open' => commits' # <<>>)
    BY <1>18, CutAppendTypes DEF Crash
  <2>4. CallTypes'
    <3>1. got' \in [Handlers -> Optional(Staged)] /\ view' \in [Handlers -> Optional(Revisions)]
      BY <1>18 DEF Crash
    <3>2. pos' \in [Handlers -> Nat] /\ pc' \in [Handlers -> {"idle"} \cup StoreSteps \cup ApplySteps]
      BY <1>18 DEF Crash
    <3>3. result' \in [Handlers -> Answers]
      BY <1>18 DEF Crash, Answers
    <3> QED
      BY <1>18, <3>1, <3>2, <3>3, <1>9 DEF Crash, CallTypes
  <2>5. slot' \in [1 .. Slots -> Revisions \cup {None, Placeholder}]
    BY <1>18, CutActionTypes DEF Crash
  <2>6. UNCHANGED <<staged, active, winners, kept, configured, rulesFile, kernel>>
    BY <1>18 DEF Crash
  <2>7. mutex' = None /\ sole' = None
    BY <1>18 DEF Crash
  <2> QED
    BY <1>0, <2>1, <2>2, <2>3, <2>4, <2>5, <2>6, <2>7 DEF TypeOK, CallTypes, Staged, Answers
<1>19. CASE UNCHANGED vars
  BY <1>19 DEF TypeOK, vars
<1> QED
  BY <1>1, <1>2, <1>3, <1>5, <1>6, <1>7, <1>8, <1>10, <1>11, <1>12, <1>13, <1>14,
     <1>15, <1>16, <1>17, <1>18, <1>19 DEF Next, StoreCommit, ApplyStep

-----------------------------------------------------------------------------
(* A handler outside the store's steps, before and after, disturbs nothing *)
(* the invariant speaks of.                                                *)
LEMMA ApplyFrame ==
  ASSUME TypeOK, StoreInv, NEW h \in Handlers,
         pc[h] \notin StoreSteps, pc'[h] \notin StoreSteps,
         \A g \in Handlers \ {h} : pc'[g] = pc[g] /\ got'[g] = got[g],
         UNCHANGED <<mutex, staged, active, commits, interrupted, winners, configured>>
  PROVE  StoreInv'
<1>1. MutexInv'
  BY DEF StoreInv, MutexInv
<1>2. CommitInv'
  BY DEF StoreInv, CommitInv, CommitSteps, StoreSteps
<1>3. RevisionInv'
  BY DEF StoreInv, RevisionInv
<1>4. HistoryInv'
  BY DEF StoreInv, HistoryInv, StoreSteps, Torn
<1> QED
  BY <1>1, <1>2, <1>3, <1>4 DEF StoreInv

(* The shapes in which a handler leaves its place.                         *)
LEMMA GotoFacts ==
  ASSUME TypeOK, NEW h \in Handlers, NEW s, Goto(h, s)
  PROVE  pc'[h] = s /\ \A g \in Handlers \ {h} : pc'[g] = pc[g]
BY DEF TypeOK, Goto

LEMMA FinishFacts ==
  ASSUME TypeOK, NEW h \in Handlers, NEW s, Finish(h, s)
  PROVE  /\ pc'[h] = "idle" /\ got'[h] = None
         /\ \A g \in Handlers \ {h} : pc'[g] = pc[g] /\ got'[g] = got[g]
BY DEF TypeOK, Finish, Reply, Goto

(* A step of a handler after Store.Commit ends the call or goes on to the  *)
(* next such step.                                                         *)
LEMMA ApplyMoves ==
  ASSUME TypeOK, NEW h \in Handlers, ApplyStep(h) \/ ApplyError(h)
  PROVE  /\ pc[h] \in ApplySteps
         /\ \/ Finish(h, "error") \/ Finish(h, "committed") \/ Finish(h, "unplanned")
            \/ /\ UNCHANGED got
               /\ \/ UNCHANGED pc
                  \/ Goto(h, "ops") /\ view' = [view EXCEPT ![h] = active] /\ pc[h] = "state"
                  \/ /\ UNCHANGED view /\ pc[h] # "state"
                     /\ \E s \in RulesSteps : Goto(h, s)
         /\ UNCHANGED <<staged, active, commits, open, mutex, configured,
                        winners, interrupted, sole>>
<1> USE DEF ApplySteps, RulesSteps
<1>1. CASE ReadState(h)
  BY <1>1 DEF ReadState, storeVars, histVars
<1>2. CASE RunAction(h) \/ FinishOps(h)
  BY <1>2 DEF RunAction, Acting, FinishOps, storeVars, histVars
<1>3. CASE TruncateRules(h) \/ WriteRules(h)
  BY <1>3 DEF TruncateRules, WriteRules, storeVars, callVars, histVars
<1>4. CASE DeleteTables(h)
  BY <1>4 DEF DeleteTables, DeleteTable, storeVars, callVars
<1>5. CASE LoadRules(h)
  BY <1>5 DEF LoadRules, storeVars, histVars
<1>6. CASE ApplyError(h)
  BY <1>6 DEF ApplyError, Acting, storeVars, histVars
<1> QED
  BY <1>1, <1>2, <1>3, <1>4, <1>5, <1>6 DEF ApplyStep

LEMMA ApplyKeepsStoreInv ==
  ASSUME TypeOK, StoreInv, NEW h \in Handlers, ApplyStep(h) \/ ApplyError(h)
  PROVE  StoreInv'
<1>1. /\ pc[h] \in ApplySteps
      /\ UNCHANGED <<mutex, staged, active, commits, interrupted, winners, configured>>
  BY ApplyMoves
<1>2. pc[h] \notin StoreSteps
  BY <1>1 DEF ApplySteps, RulesSteps, StoreSteps
<1>3. pc'[h] \notin StoreSteps /\ \A g \in Handlers \ {h} : pc'[g] = pc[g] /\ got'[g] = got[g]
  <2>1. CASE Finish(h, "error") \/ Finish(h, "committed") \/ Finish(h, "unplanned")
    BY <2>1, FinishFacts DEF StoreSteps
  <2>2. CASE UNCHANGED <<got, pc>>
    BY <1>2, <2>2
  <2>3. ASSUME UNCHANGED got, NEW s \in {"ops"} \cup RulesSteps, Goto(h, s)
        PROVE  pc'[h] \notin StoreSteps /\ \A g \in Handlers \ {h} : pc'[g] = pc[g] /\ got'[g] = got[g]
    BY <2>3, GotoFacts DEF RulesSteps, StoreSteps
  <2> QED
    BY <2>1, <2>2, <2>3, ApplyMoves
<1> QED
  BY <1>1, <1>2, <1>3, ApplyFrame

LEMMA ViewNext == TypeOK /\ CommitInv /\ ViewInv /\ [Next]_vars => ViewInv'
<1> SUFFICES ASSUME TypeOK, CommitInv, ViewInv, [Next]_vars PROVE ViewInv'
  OBVIOUS
<1> DEFINE Later == {"ops"} \cup RulesSteps
<1>1. ASSUME NEW h \in Handlers, ApplyStep(h) \/ ApplyError(h) PROVE ViewInv'
  <2>1. active' = active /\ pc[h] \in ApplySteps
    BY <1>1, ApplyMoves
  <2>2. CASE Finish(h, "error") \/ Finish(h, "committed") \/ Finish(h, "unplanned")
    <3>1. pc'[h] = "idle" /\ \A g \in Handlers \ {h} : pc'[g] = pc[g] /\ view'[g] = view[g]
      BY <2>2 DEF TypeOK, Finish, Reply, Goto
    <3> QED
      BY <2>1, <3>1 DEF ViewInv, RulesSteps
  <2>3. CASE UNCHANGED pc
    BY <1>1, <2>1, <2>3 DEF TypeOK, ViewInv, ApplySteps, RulesSteps, ApplyStep, ApplyError, ReadState, RunAction, FinishOps,
       TruncateRules, WriteRules, DeleteTables, DeleteTable, LoadRules, Finish, Reply, Goto, callVars
  <2>4. CASE Goto(h, "ops") /\ view' = [view EXCEPT ![h] = active] /\ pc[h] = "state"
    <3>1. /\ pc'[h] = "ops" /\ view'[h] = active /\ active \in Revisions
          /\ \A g \in Handlers \ {h} : pc'[g] = pc[g] /\ view'[g] = view[g]
      BY <2>4 DEF TypeOK, Goto, ViewInv
    <3> QED
      BY <2>1, <3>1 DEF ViewInv, RulesSteps
  <2>5. CASE UNCHANGED view /\ pc[h] # "state" /\ \E s \in RulesSteps : Goto(h, s)
    <3>1. /\ pc'[h] \in RulesSteps /\ view[h] \in Revisions
          /\ \A g \in Handlers \ {h} : pc'[g] = pc[g]
      BY <2>1, <2>5 DEF TypeOK, Goto, ViewInv, ApplySteps
    <3> QED
      BY <2>1, <2>5, <3>1 DEF ViewInv, RulesSteps
  <2> QED
    BY <1>1, <2>2, <2>3, <2>4, <2>5, ApplyMoves
<1>2. ASSUME NEW h \in Handlers, RemoveStaged(h) PROVE ViewInv'
  <2>1. /\ pc'[h] = "state" /\ active \in Revisions /\ UNCHANGED <<active, view>>
        /\ \A g \in Handlers \ {h} : pc'[g] = pc[g]
    BY <1>2 DEF TypeOK, RemoveStaged, Goto, CommitInv, CommitSteps, Staged
  <2> QED
    BY <2>1 DEF ViewInv, RulesSteps
<1>3. ASSUME NEW h \in Handlers, Activate(h) PROVE ViewInv'
  <2>1. /\ pc'[h] = "history" /\ active' \in Revisions /\ view' = view
        /\ \A g \in Handlers \ {h} : pc'[g] = pc[g]
    BY <1>3 DEF TypeOK, Activate, Goto, callVars, CommitInv, CommitSteps, Staged
  <2> QED
    BY <2>1 DEF ViewInv, RulesSteps
<1>4. ASSUME NEW h \in Handlers,
             \/ Configure(h) \/ LogConfigure(h) \/ ReadStaged(h) \/ AppendHistory(h)
             \/ LogCommit(h) \/ StoreError(h)
      PROVE  ViewInv'
  <2>1. active' = active
    BY <1>4 DEF Configure, LogConfigure, ReadStaged, AppendHistory, LogCommit, StoreError, storeVars
  <2>2. \A g \in Handlers \ {h} : pc'[g] = pc[g] /\ view'[g] = view[g]
    BY <1>4 DEF TypeOK, Configure, LogConfigure, ReadStaged, TakeStaged, Refuse, AppendHistory, LogCommit,
       StoreError, Finish, Reply, Goto, callVars
  <2>3. pc'[h] \in {"idle"} \cup StoreSteps
    BY <1>4 DEF TypeOK, Configure, LogConfigure, ReadStaged, TakeStaged, Refuse, AppendHistory, LogCommit,
       StoreError, Finish, Reply, Goto, StoreSteps
  <2> QED
    BY <2>1, <2>2, <2>3 DEF ViewInv, StoreSteps, RulesSteps
<1>5. CASE Crash
  BY <1>5 DEF Crash, ViewInv, RulesSteps
<1>6. CASE UNCHANGED vars
  BY <1>6 DEF vars, ViewInv
<1> QED
  BY <1>1, <1>2, <1>3, <1>4, <1>5, <1>6 DEF Next, StoreCommit

-----------------------------------------------------------------------------
(* The holder of the mutex is alone among the store's steps.               *)
LEMMA Alone ==
  ASSUME MutexInv, NEW h \in Handlers, pc[h] \in StoreSteps
  PROVE  mutex = h /\ \A g \in Handlers \ {h} : pc[g] \notin StoreSteps
BY DEF MutexInv

LEMMA ConfigureKeepsStoreInv ==
  ASSUME TypeOK, StoreInv, NEW h \in Handlers, Configure(h) \/ LogConfigure(h)
  PROVE  StoreInv'
<1> USE Constants DEF StoreSteps, CommitSteps
<1>1. CASE Configure(h)
  <2>1. \A g \in Handlers : pc[g] \notin StoreSteps
    BY <1>1 DEF StoreInv, MutexInv, Configure, Lock
  <2>2. pc'[h] = "log_configure" /\ \A g \in Handlers \ {h} : pc'[g] = pc[g]
    BY <1>1, GotoFacts DEF Configure
  <2>3. MutexInv'
    BY <1>1, <2>1, <2>2 DEF MutexInv, Configure, Lock
  <2>4. CommitInv'
    BY <2>1, <2>2 DEF CommitInv
  <2>5. RevisionInv'
    <3>1. configured \in Nat /\ configured' = configured + 1 /\ staged' = configured + 1
      BY <1>1 DEF TypeOK, Configure
    <3>2. UNCHANGED <<active, winners>>
      BY <1>1 DEF Configure, histVars
    <3> QED
      BY <3>1, <3>2 DEF StoreInv, RevisionInv, Optional, Revisions
  <2>6. HistoryInv'
    BY <1>1, <2>1, <2>2 DEF StoreInv, HistoryInv, Torn, Configure, histVars
  <2> QED
    BY <2>3, <2>4, <2>5, <2>6 DEF StoreInv
<1>2. CASE LogConfigure(h)
  <2>1. mutex = h /\ mutex' = None /\ \A g \in Handlers \ {h} : pc[g] \notin StoreSteps
    BY <1>2, Alone DEF StoreInv, LogConfigure, Unlock
  <2>2. pc'[h] = "idle" /\ \A g \in Handlers \ {h} : pc'[g] = pc[g]
    BY <1>2, GotoFacts DEF LogConfigure, Reply
  <2>3. MutexInv'
    BY <2>1, <2>2 DEF MutexInv
  <2>4. CommitInv'
    BY <2>1, <2>2 DEF CommitInv
  <2>5. RevisionInv'
    BY <1>2 DEF StoreInv, RevisionInv, LogConfigure, storeVars, histVars
  <2>6. HistoryInv'
    BY <1>2, <2>1 DEF StoreInv, HistoryInv, Torn, LogConfigure, storeVars, histVars
  <2> QED
    BY <2>3, <2>4, <2>5, <2>6 DEF StoreInv
<1> QED
  BY <1>1, <1>2

LEMMA ReadStagedKeepsStoreInv ==
  ASSUME TypeOK, StoreInv, NEW h \in Handlers, ReadStaged(h)
  PROVE  StoreInv'
<1> USE Constants DEF StoreSteps, CommitSteps
<1>1. /\ mutex = None
      /\ UNCHANGED <<staged, active, commits, interrupted, winners, configured>>
  BY DEF ReadStaged, storeVars
<1>2. \A g \in Handlers : pc[g] \notin StoreSteps
  BY <1>1 DEF StoreInv, MutexInv
<1>3. PICK want \in Optional(Revisions) :
        \/ /\ Reply(h, "conflict") \/ Reply(h, "mismatch")
           /\ UNCHANGED <<mutex, got>>
        \/ /\ staged # None /\ want \in {None, staged}
           /\ mutex' = h
           /\ got' = [got EXCEPT ![h] = [rev |-> staged, want |-> want]]
           /\ Goto(h, "activate")
  BY DEF ReadStaged, Refuse, TakeStaged
<1>4. CASE (Reply(h, "conflict") \/ Reply(h, "mismatch")) /\ UNCHANGED <<mutex, got>>
  <2>1. pc'[h] = "idle" /\ \A g \in Handlers \ {h} : pc'[g] = pc[g]
    BY <1>4, GotoFacts DEF Reply
  <2> QED
    BY <1>1, <1>2, <1>4, <2>1, ApplyFrame
<1>5. CASE /\ staged # None /\ want \in {None, staged}
           /\ mutex' = h
           /\ got' = [got EXCEPT ![h] = [rev |-> staged, want |-> want]]
           /\ Goto(h, "activate")
  <2>1. pc'[h] = "activate" /\ \A g \in Handlers \ {h} : pc'[g] = pc[g]
    BY <1>5, GotoFacts
  <2>2. staged \in Revisions
    BY <1>5 DEF TypeOK, Optional
  <2>3. got'[h] = [rev |-> staged, want |-> want]
    BY <1>5 DEF TypeOK
  <2>4. got'[h] \in Staged /\ got'[h].rev = staged /\ got'[h].want = want
    BY <2>2, <2>3 DEF Staged
  <2>5. MutexInv'
    BY <1>2, <1>5, <2>1 DEF MutexInv
  <2>6. CommitInv'
    BY <1>1, <1>2, <1>5, <2>1, <2>4 DEF CommitInv
  <2>7. RevisionInv'
    BY <1>1 DEF StoreInv, RevisionInv
  <2>8. HistoryInv'
    BY <1>1, <1>2, <2>1 DEF StoreInv, HistoryInv, Torn
  <2> QED
    BY <2>5, <2>6, <2>7, <2>8 DEF StoreInv
<1> QED
  BY <1>3, <1>4, <1>5

-----------------------------------------------------------------------------
(* The steps of a commit: the handler is alone, and what it read is still  *)
(* what is staged.                                                         *)
LEMMA CommitKeepsStoreInv ==
  ASSUME TypeOK, StoreInv, NEW h \in Handlers,
         Activate(h) \/ AppendHistory(h) \/ LogCommit(h) \/ RemoveStaged(h)
  PROVE  StoreInv'
<1> USE Constants DEF StoreSteps, CommitSteps
<1>1. pc[h] \in CommitSteps
  BY DEF Activate, AppendHistory, LogCommit, RemoveStaged
<1>2. mutex = h /\ \A g \in Handlers \ {h} : pc[g] \notin StoreSteps
  BY <1>1, Alone DEF StoreInv
<1>3. /\ got[h] \in Staged /\ staged = got[h].rev /\ got[h].want \in {None, staged}
      /\ pc[h] # "activate" => active = staged
  BY <1>1 DEF StoreInv, CommitInv
<1>4. staged \in Revisions /\ staged # None /\ staged \in 1 .. configured
  BY <1>3 DEF Staged, StoreInv, RevisionInv, Optional
<1>5. CASE Activate(h)
  <2>1. pc'[h] = "history" /\ \A g \in Handlers \ {h} : pc'[g] = pc[g]
    BY <1>5, GotoFacts DEF Activate
  <2>2. active' = staged /\ UNCHANGED <<staged, got, mutex, winners, configured>>
    BY <1>3, <1>5 DEF Activate, callVars, histVars
  <2>3. MutexInv'
    BY <1>2, <2>1, <2>2 DEF MutexInv
  <2>4. CommitInv'
    BY <1>2, <1>3, <2>1, <2>2 DEF CommitInv
  <2>5. RevisionInv'
    BY <1>4, <2>2 DEF StoreInv, RevisionInv, Optional
  <2>6. HistoryInv'
    BY <2>1 DEF HistoryInv
  <2> QED
    BY <2>3, <2>4, <2>5, <2>6 DEF StoreInv
<1>6. CASE AppendHistory(h)
  <2>1. pc'[h] = "log_commit" /\ \A g \in Handlers \ {h} : pc'[g] = pc[g]
    BY <1>6, GotoFacts DEF AppendHistory
  <2>2. commits' = Line(staged) /\ UNCHANGED <<staged, active, got, mutex, winners, configured>>
    BY <1>3, <1>6 DEF AppendHistory, callVars
  <2>3. active = staged
    BY <1>3, <1>6 DEF AppendHistory
  <2>4. MutexInv'
    BY <1>2, <2>1, <2>2 DEF MutexInv
  <2>5. CommitInv'
    BY <1>2, <1>3, <2>1, <2>2, <2>3 DEF CommitInv
  <2>6. RevisionInv'
    BY <2>2 DEF StoreInv, RevisionInv
  <2>7. Torn' \/ (commits' # <<>> /\ commits'[Len(commits')] = staged)
    <3>1. commits' # <<>> /\ commits'[Len(commits')] \in {Garbled, staged}
      BY <1>4, <2>2, LineFacts
    <3>2. commits' \in Seq(Revisions \cup {Garbled})
      BY <1>4, <2>2, LineFacts
    <3>3. Len(commits') \in DOMAIN commits'
      BY <3>1, <3>2
    <3> QED
      BY <3>1, <3>3 DEF Torn
  <2>8. HistoryInv'
    BY <2>2, <2>3, <2>7 DEF HistoryInv
  <2> QED
    BY <2>4, <2>5, <2>6, <2>8 DEF StoreInv
<1>7. CASE LogCommit(h)
  <2>1. pc'[h] = "remove" /\ \A g \in Handlers \ {h} : pc'[g] = pc[g]
    BY <1>7, GotoFacts DEF LogCommit
  <2>2. UNCHANGED <<staged, active, commits, interrupted, got, mutex, winners, configured>>
    BY <1>7 DEF LogCommit, storeVars, callVars, histVars
  <2>3. active = staged /\ pc[h] = "log_commit"
    BY <1>3, <1>7 DEF LogCommit
  <2>4. MutexInv'
    BY <1>2, <2>1, <2>2 DEF MutexInv
  <2>5. CommitInv'
    BY <1>2, <1>3, <2>1, <2>2, <2>3 DEF CommitInv
  <2>6. RevisionInv'
    BY <2>2 DEF StoreInv, RevisionInv
  <2>7. HistoryInv'
    BY <1>2, <2>1, <2>2, <2>3 DEF StoreInv, HistoryInv, Torn
  <2> QED
    BY <2>4, <2>5, <2>6, <2>7 DEF StoreInv
<1>8. CASE RemoveStaged(h)
  <2>1. pc'[h] = "state" /\ \A g \in Handlers \ {h} : pc'[g] = pc[g]
    BY <1>8, GotoFacts DEF RemoveStaged
  <2>2. /\ staged' = None /\ mutex' = None
        /\ UNCHANGED <<active, commits, interrupted, configured>>
    BY <1>8 DEF RemoveStaged, Unlock
  <2>3. pc[h] = "remove"
    BY <1>8 DEF RemoveStaged
  <2>4. MutexInv'
    BY <1>2, <2>1, <2>2 DEF MutexInv
  <2>5. CommitInv'
    BY <1>2, <2>1 DEF CommitInv
  <2>6. RevisionInv'
    <3>1. winners' = [winners EXCEPT ![staged] = winners[staged] + 1]
      BY <1>3, <1>8 DEF RemoveStaged
    <3>2. winners \in [Revisions -> Nat] /\ winners[staged] = 0
      BY <1>4 DEF TypeOK, StoreInv, RevisionInv
    <3>3. winners'[staged] = 1 /\ \A r \in Revisions \ {staged} : winners'[r] = winners[r]
      BY <1>4, <3>1, <3>2
    <3>4. \A r \in Revisions : r > configured => winners'[r] = 0
      BY <1>4, <3>3 DEF StoreInv, RevisionInv, TypeOK
    <3> QED
      BY <1>4, <2>2, <3>3, <3>4 DEF StoreInv, RevisionInv, Optional
  <2>7. HistoryInv'
    BY <1>2, <2>2, <2>3 DEF StoreInv, HistoryInv, Torn
  <2> QED
    BY <2>4, <2>5, <2>6, <2>7 DEF StoreInv
<1> QED
  BY <1>5, <1>6, <1>7, <1>8

(* An error or a crash stops a commit anywhere: between the two files, the *)
(* revision it activated is one of those whose commit was interrupted.     *)
LEMMA FailureKeepsStoreInv ==
  ASSUME TypeOK, StoreInv, (\E h \in Handlers : StoreError(h)) \/ Crash
  PROVE  StoreInv'
<1> USE Constants DEF StoreSteps, CommitSteps
<1>1. /\ mutex' = None
      /\ UNCHANGED <<staged, active, winners, configured>>
  BY DEF StoreError, Crash, Unlock
<1>2. \A g \in Handlers : pc'[g] \notin StoreSteps
  <2>1. ASSUME NEW h \in Handlers, StoreError(h) PROVE \A g \in Handlers : pc'[g] \notin StoreSteps
    <3>1. pc[h] \in StoreSteps /\ Finish(h, "error")
      BY <2>1 DEF StoreError
    <3>2. \A g \in Handlers \ {h} : pc[g] \notin StoreSteps
      BY <3>1, Alone DEF StoreInv
    <3>3. pc'[h] = "idle" /\ \A g \in Handlers \ {h} : pc'[g] = pc[g]
      BY <3>1, FinishFacts
    <3> QED
      BY <3>2, <3>3
  <2>2. CASE Crash
    BY <2>2 DEF Crash
  <2> QED
    BY <2>1, <2>2
<1>3. /\ interrupted \subseteq interrupted'
      /\ \A g \in Handlers : pc[g] = "history" => active \in interrupted'
      /\ (\A g \in Handlers : pc[g] # "history") => commits' = commits
  <2>1. \A g \in Handlers : pc[g] = "history" => got[g].rev = active /\ mutex = g
    BY DEF StoreInv, CommitInv, MutexInv
  <2>2. ASSUME NEW h \in Handlers, StoreError(h)
        PROVE  /\ interrupted \subseteq interrupted'
               /\ \A g \in Handlers : pc[g] = "history" => active \in interrupted'
               /\ (\A g \in Handlers : pc[g] # "history") => commits' = commits
    <3>1. mutex = h
      BY <2>2 DEF StoreError, Unlock
    <3>2. interrupted' = interrupted \cup {got[g].rev : g \in {f \in {h} : pc[f] = "history"}}
      BY <2>2 DEF StoreError, CutOff
    <3>3. pc[h] = "history" => got[h].rev \in interrupted'
      BY <3>2
    <3>4. (\A g \in Handlers : pc[g] # "history") => commits' = commits
      BY <2>2 DEF StoreError, CutAppend
    <3> QED
      BY <2>1, <3>1, <3>2, <3>3, <3>4
  <2>3. CASE Crash
    <3>1. interrupted' = interrupted \cup {got[g].rev : g \in {f \in Handlers : pc[f] = "history"}}
      BY <2>3 DEF Crash, CutOff
    <3>2. \A g \in Handlers : pc[g] = "history" => got[g].rev \in interrupted'
      BY <3>1
    <3>3. (\A g \in Handlers : pc[g] # "history") => commits' = commits
      BY <2>3 DEF Crash, CutAppend
    <3> QED
      BY <2>1, <3>1, <3>2, <3>3
  <2> QED
    BY <2>2, <2>3
<1>4. MutexInv'
  BY <1>1, <1>2 DEF MutexInv
<1>5. CommitInv'
  BY <1>2 DEF CommitInv
<1>6. RevisionInv'
  BY <1>1 DEF StoreInv, RevisionInv
<1>7. HistoryInv'
  BY <1>1, <1>3 DEF StoreInv, HistoryInv, Torn
<1> QED
  BY <1>4, <1>5, <1>6, <1>7 DEF StoreInv

-----------------------------------------------------------------------------
LEMMA InitHolds == Init => TypeOK /\ StoreInv /\ ViewInv
<1> SUFFICES ASSUME Init PROVE TypeOK /\ StoreInv /\ ViewInv
  OBVIOUS
<1> USE Constants DEF Init
<1>1. TypeOK
  <2>1. got \in [Handlers -> Optional(Staged)] /\ view \in [Handlers -> Optional(Revisions)]
    BY DEF Optional
  <2>2. pc \in [Handlers -> {"idle"} \cup StoreSteps \cup ApplySteps] /\ pos \in [Handlers -> Nat]
    OBVIOUS
  <2>3. commits \in Seq(Revisions \cup {Garbled}) /\ winners \in [Revisions -> Nat]
    OBVIOUS
  <2>4. /\ slot \in [1 .. Slots -> Revisions \cup {None, Placeholder}]
        /\ kernel \in [Tables -> SUBSET Revisions] /\ kept \in [Tables -> SUBSET Revisions]
    BY DEF NoRules
  <2>5. configured \in 0 .. MaxRev /\ faults \in 0 .. MaxFaults
    OBVIOUS
  <2>6. /\ mode \in [Handlers -> {"dry-run", "apply"}]
        /\ result \in [Handlers -> Answers]
    BY DEF Answers
  <2>7. nftApply \in BOOLEAN
    OBVIOUS
  <2> QED
    BY <2>1, <2>2, <2>3, <2>4, <2>5, <2>6, <2>7 DEF TypeOK, Optional, Staged, Answers
<1>2. MutexInv /\ CommitInv
  BY DEF MutexInv, CommitInv, StoreSteps, CommitSteps
<1>3. RevisionInv /\ HistoryInv /\ ViewInv
  BY DEF RevisionInv, HistoryInv, Optional, ViewInv, RulesSteps
<1> QED
  BY <1>1, <1>2, <1>3 DEF StoreInv

LEMMA StoreNext == TypeOK /\ StoreInv /\ [Next]_vars => StoreInv'
<1> SUFFICES ASSUME TypeOK, StoreInv, [Next]_vars PROVE StoreInv'
  OBVIOUS
<1>1. CASE UNCHANGED vars
  BY <1>1 DEF StoreInv, MutexInv, CommitInv, RevisionInv, HistoryInv, Torn, vars
<1> QED
  BY <1>1, ConfigureKeepsStoreInv, ReadStagedKeepsStoreInv, CommitKeepsStoreInv,
     ApplyKeepsStoreInv, FailureKeepsStoreInv DEF Next, StoreCommit

LEMMA Invariant == Spec => [](TypeOK /\ StoreInv /\ ViewInv)
<1>1. TypeOK /\ StoreInv /\ ViewInv /\ [Next]_vars => (TypeOK /\ StoreInv /\ ViewInv)'
  BY TypeNext, StoreNext, ViewNext DEF StoreInv
<1> QED
  BY <1>1, InitHolds, PTL DEF Spec

(* Every variable keeps its type: no step reads the revision of a commit   *)
(* that read none, and no counter leaves its bounds.                       *)
THEOREM TypeCorrect == Spec => []TypeOK
BY Invariant, PTL

(* One revision is the success of at most one Store.Commit call, whatever  *)
(* races and fails between its steps.                                      *)
THEOREM OneCommitWins == Spec => []OneWinner
<1>1. StoreInv => OneWinner
  BY DEF StoreInv, RevisionInv, OneWinner
<1> QED
  BY <1>1, Invariant, PTL

(* Whenever Store.State answers, the last line of commits.jsonl it reports *)
(* is the commit of the active revision it reports, but for a commit that  *)
(* has only ever been cut off between the two files (Store.Commit,         *)
(* appendJSONLine, readCommitHistory).                                     *)
THEOREM HistoryIsCurrent == Spec => []HistoryNamesActive
<1>1. StoreInv => HistoryNamesActive
  BY Constants DEF StoreInv, MutexInv, HistoryInv, HistoryNamesActive, StoreSteps
<1> QED
  BY <1>1, Invariant, PTL

LEMMA OtherStepsKeepActive ==
  ASSUME NEW h \in Handlers,
         \/ Configure(h) \/ LogConfigure(h) \/ ReadStaged(h) \/ AppendHistory(h) \/ LogCommit(h)
         \/ RemoveStaged(h) \/ ApplyStep(h) \/ StoreError(h) \/ ApplyError(h)
  PROVE  UNCHANGED active
BY DEF Configure, LogConfigure, ReadStaged, AppendHistory, LogCommit, RemoveStaged, ApplyStep,
       ReadState, RunAction, FinishOps, TruncateRules, WriteRules, DeleteTables, DeleteTable,
       LoadRules, StoreError, ApplyError, storeVars

(* A commit with expected_revision_id puts no other revision in force.     *)
THEOREM CommitsWhatIsExpected == Spec => OnlyTheExpected
<1>1. TypeOK /\ StoreInv /\ [Next]_vars
      => [\A h \in Handlers : pc[h] = "activate" /\ active' # active
            => active' = staged /\ got[h].want \in {None, active'}]_vars
  <2> SUFFICES ASSUME TypeOK, StoreInv, [Next]_vars,
                      NEW h \in Handlers, pc[h] = "activate", active' # active
               PROVE  active' = staged /\ got[h].want \in {None, active'}
    OBVIOUS
  <2>1. PICK g \in Handlers : Activate(g)
    BY OtherStepsKeepActive DEF Next, vars, StoreCommit, Crash
  <2>2. g = h
    BY <2>1, Alone DEF StoreInv, Activate, StoreSteps
  <2> QED
    BY <2>1, <2>2 DEF StoreInv, CommitInv, CommitSteps, Activate
<1> QED
  BY <1>1, Invariant, PTL DEF Spec, OnlyTheExpected

-----------------------------------------------------------------------------
(* The mapping to Activation: what waits is the staged revision, unless it *)
(* is in force already.                                                    *)
Waiting == IF staged = active THEN None ELSE staged

LEMMA OtherStepsStutter ==
  ASSUME NEW h \in Handlers,
         \/ LogConfigure(h) \/ ReadStaged(h) \/ AppendHistory(h) \/ LogCommit(h)
         \/ ApplyStep(h) \/ StoreError(h) \/ ApplyError(h)
  PROVE  UNCHANGED <<staged, active>>
BY DEF LogConfigure, ReadStaged, AppendHistory, LogCommit, ApplyStep, ReadState, RunAction,
       FinishOps, TruncateRules, WriteRules, DeleteTables, DeleteTable, LoadRules, StoreError,
       ApplyError, storeVars

LEMMA StepImplements ==
  ASSUME TypeOK, StoreInv, [Next]_vars
  PROVE  \/ \E r \in Revisions : Waiting' = r /\ UNCHANGED active
         \/ Waiting # None /\ active' = Waiting /\ Waiting' = None
         \/ UNCHANGED <<Waiting, active>>
<1> USE Constants DEF Waiting
<1>1. ASSUME NEW h \in Handlers, Configure(h)
      PROVE  \E r \in Revisions : Waiting' = r /\ UNCHANGED active
  <2>1. configured + 1 \in Revisions /\ staged' = configured + 1 /\ active' = active
    BY <1>1 DEF TypeOK, Configure, Revisions
  <2>2. active # configured + 1
    BY <2>1 DEF StoreInv, RevisionInv, Optional, TypeOK
  <2> QED
    BY <2>1, <2>2
<1>2. ASSUME NEW h \in Handlers, Activate(h)
      PROVE  \/ Waiting # None /\ active' = Waiting /\ Waiting' = None
             \/ UNCHANGED <<Waiting, active>>
  <2>1. staged = got[h].rev /\ staged # None
    BY <1>2 DEF StoreInv, CommitInv, CommitSteps, Activate, Staged
  <2>2. active' = staged /\ staged' = staged
    BY <1>2, <2>1 DEF Activate
  <2> QED
    BY <2>1, <2>2
<1>3. ASSUME NEW h \in Handlers, RemoveStaged(h) PROVE UNCHANGED <<Waiting, active>>
  <2>1. staged = active
    BY <1>3 DEF StoreInv, CommitInv, CommitSteps, RemoveStaged
  <2>2. staged' = None /\ active' = active
    BY <1>3 DEF RemoveStaged
  <2> QED
    BY <2>1, <2>2
<1>4. CASE Crash \/ UNCHANGED vars
  BY <1>4 DEF Crash, vars
<1> QED
  BY <1>1, <1>2, <1>3, <1>4, OtherStepsStutter DEF Next, StoreCommit

(* The state files implement the abstract register of configure and        *)
(* commit: every step stages a revision, puts the waiting one in force or  *)
(* is invisible to a reader of the two files, crashes included.            *)
THEOREM ImplementsActivation == Spec => ActivationSpec
<1>1. Init => Promise!Init
  BY DEF Init, Promise!Init
<1>2. TypeOK /\ StoreInv /\ [Next]_vars => [Promise!Next]_<<Waiting, active>>
  BY StepImplements DEF Promise!Next, Promise!Stage, Promise!Activate, Waiting
<1> QED
  BY <1>1, <1>2, Invariant, PTL DEF Spec, ActivationSpec, Promise!Spec, Waiting

-----------------------------------------------------------------------------
(* What the handler of a commit that had no other one beside it has done.  *)

Beside(h) == \A g \in Handlers \ {h} : pc[g] \in {"idle", "log_configure"}

(* It plans for what it activated, since nobody else activates anything.   *)
PlansActive(h) ==
  pc[h] \in ApplySteps => active \in Revisions /\ (pc[h] # "state" => view[h] = active)

SetBy(r, i) == slot[PlanOf[r][i]] = Leaves(r, PlanOf[r][i])

PlanIsOut(h) == mode[h] = "apply" => \A i \in DOMAIN PlanOf[active] : SetBy(active, i)

(* The plan is out as far as the position says, and out before the rules.  *)
CarriesOut(h) ==
  /\ pc[h] = "ops" /\ mode[h] = "apply" =>
       /\ pos[h] <= Len(PlanOf[active])
       /\ \A i \in 1 .. pos[h] : SetBy(active, i)
  /\ pc[h] \in RulesSteps => PlanIsOut(h)

(* Its rules go from the shared file into tables that are empty, or kept.  *)
Clears(h) ==
  /\ pc[h] \in CommitSteps \cup (ApplySteps \ {"delete_nat", "load"}) => kept = NoRules
  /\ pc[h] = "delete_nat" => kept["nat"] = {}
  /\ pc[h] \in {"delete_nat", "load"} => kernel["inet"] = kept["inet"]
  /\ pc[h] = "load" => kernel["nat"] = kept["nat"]

LoadsRules(h) ==
  /\ pc[h] = "rules" => rulesFile = {}
  /\ pc[h] \in {"delete_inet", "delete_nat", "load"} => rulesFile = {active}

RulesAreIn == kernel = [t \in Tables |-> kept[t] \cup RulesOf(active)[t]]

InForce(h) ==
  result[h] = "committed" => pc[h] = "idle" /\ (nftApply => RulesAreIn) /\ PlanIsOut(h)

Sole(h) ==
  /\ Beside(h) /\ PlansActive(h) /\ CarriesOut(h)
  /\ Clears(h) /\ LoadsRules(h) /\ InForce(h)

SoleInv == \A h \in Handlers : sole = h => Sole(h)

(* A plan is started from its first action.                                *)
FromStart == \A h \in Handlers : pc[h] \in {"idle", "state"} \cup StoreSteps => pos[h] = 0

ApplyInv == SoleInv /\ FromStart

LEMMA PlanSlots ==
  ASSUME NEW r \in Revisions
  PROVE  /\ Len(PlanOf[r]) \in Nat /\ DOMAIN PlanOf[r] = 1 .. Len(PlanOf[r])
         /\ \A i \in 1 .. Len(PlanOf[r]) : PlanOf[r][i] \in 1 .. Slots
BY OpModeAssumption

LEMMA ApplyInit == Init => ApplyInv
BY Constants DEF Init, ApplyInv, SoleInv, FromStart

(* A step beside it, of a configure call, changes nothing for it.          *)
LEMMA BesideKeepsSole ==
  ASSUME NEW h \in Handlers, Sole(h), Beside(h)',
         UNCHANGED <<active, slot, kernel, rulesFile, kept, nftApply>>,
         pc'[h] = pc[h], view'[h] = view[h], mode'[h] = mode[h], pos'[h] = pos[h],
         result'[h] = result[h]
  PROVE  Sole(h)'
<1>1. PlansActive(h)' /\ Clears(h)' /\ LoadsRules(h)'
  BY DEF Sole, PlansActive, Clears, LoadsRules
<1>2. PlanIsOut(h) => PlanIsOut(h)'
  BY DEF PlanIsOut, SetBy
<1>3. RulesAreIn => RulesAreIn'
  BY DEF RulesAreIn
<1>4. CarriesOut(h)'
  BY <1>2 DEF Sole, CarriesOut, SetBy
<1>5. InForce(h)'
  BY <1>2, <1>3 DEF Sole, InForce
<1> QED BY <1>1, <1>4, <1>5 DEF Sole

(* In the store's steps, and after a call without success, nothing is      *)
(* promised but that it is alone and has no table to answer for.           *)
LEMMA NothingPromised ==
  ASSUME NEW h \in Handlers, Beside(h)', pc'[h] \notin ApplySteps, result'[h] # "committed",
         pc'[h] \in CommitSteps => kept' = NoRules
  PROVE  Sole(h)'
BY DEF Sole, PlansActive, CarriesOut, Clears, LoadsRules, InForce, ApplySteps, RulesSteps

(* What a step does to the places and answers of the handlers.             *)
LEMMA FinishAnswers ==
  ASSUME TypeOK, NEW h \in Handlers, NEW s, Finish(h, s)
  PROVE  /\ result'[h] = s /\ pos'[h] = 0 /\ mode' = mode
         /\ \A g \in Handlers \ {h} :
              view'[g] = view[g] /\ pos'[g] = pos[g] /\ result'[g] = result[g]
BY DEF TypeOK, Finish, Reply

(* A step of h, with no handler but h moved, keeps a sole h or a sole      *)
(* other one.                                                              *)
LEMMA StepOf ==
  ASSUME TypeOK, SoleInv, NEW h \in Handlers, sole' = sole, nftApply' = nftApply,
         \A g \in Handlers \ {h} :
           /\ pc'[g] = pc[g] /\ view'[g] = view[g] /\ mode'[g] = mode[g]
           /\ pos'[g] = pos[g] /\ result'[g] = result[g],
         pc[h] \in {"idle", "log_configure"}
         => /\ pc'[h] \in {"idle", "log_configure"}
            /\ UNCHANGED <<active, slot, kernel, rulesFile, kept>>,
         sole = h /\ Sole(h) /\ Beside(h)' => Sole(h)'
  PROVE  SoleInv'
<1> SUFFICES ASSUME NEW g \in Handlers, sole = g PROVE Sole(g)'
  BY DEF SoleInv
<1>1. Sole(g) /\ Beside(g)
  BY DEF SoleInv, Sole
<1>2. CASE g = h
  <2>1. Beside(h)'
    BY <1>1, <1>2 DEF Beside
  <2> QED BY <1>1, <1>2, <2>1
<1>3. CASE g # h
  <2>1. pc[h] \in {"idle", "log_configure"}
    BY <1>1, <1>3 DEF Beside
  <2>2. Beside(g)'
    BY <1>1, <1>3, <2>1 DEF Beside
  <2> QED BY <1>1, <1>3, <2>1, <2>2, BesideKeepsSole
<1> QED BY <1>2, <1>3

LEMMA ConfigureKeepsApply ==
  ASSUME TypeOK, ApplyInv, nftApply' = nftApply,
         NEW h \in Handlers, Configure(h) \/ LogConfigure(h)
  PROVE  ApplyInv'
<1>1. /\ UNCHANGED <<active, slot, kernel, rulesFile, kept, view, mode, pos, sole>>
      /\ pc'[h] \in {"idle", "log_configure"} /\ result'[h] \in {"none", "staged"}
      /\ pc[h] \in {"idle", "log_configure"}
      /\ \A g \in Handlers \ {h} : pc'[g] = pc[g] /\ result'[g] = result[g]
  BY DEF TypeOK, Configure, LogConfigure, Reply, Goto, hostVars, callVars, histVars, storeVars
<1>2. Beside(h)' => Sole(h)'
  BY <1>1, NothingPromised DEF ApplySteps, RulesSteps, CommitSteps
<1>3. SoleInv'
  BY <1>1, <1>2, StepOf DEF ApplyInv
<1>4. FromStart'
  BY <1>1 DEF ApplyInv, FromStart, StoreSteps
<1> QED BY <1>3, <1>4 DEF ApplyInv

(* A commit that begins takes over, alone or not. *)
LEMMA BeginKeepsApply ==
  ASSUME TypeOK, ApplyInv, nftApply' = nftApply, NEW h \in Handlers, ReadStaged(h)
  PROVE  ApplyInv'
<1>1. /\ UNCHANGED <<active, slot, kernel, rulesFile, view, pos>> /\ pc[h] = "idle"
      /\ pc'[h] \in {"idle", "activate"} /\ result'[h] \in {"none", "conflict", "mismatch"}
      /\ \A g \in Handlers \ {h} : /\ pc'[g] = pc[g] /\ result'[g] = result[g]
                                  /\ mode'[g] = mode[g]
      /\ \/ pc'[h] = "idle" /\ UNCHANGED <<sole, kept>>
         \/ kept' = NoRules /\ sole' = IF Idle THEN h ELSE None
  BY DEF TypeOK, ReadStaged, TakeStaged, Refuse, Reply, Goto, hostVars, storeVars
<1>2. Beside(h)' => Sole(h)'
  BY <1>1, NothingPromised DEF ApplySteps, RulesSteps, CommitSteps
<1>3. ASSUME pc'[h] = "idle", UNCHANGED <<sole, kept>> PROVE SoleInv'
  <2>1. \A g \in Handlers \ {h} :
          /\ pc'[g] = pc[g] /\ view'[g] = view[g] /\ mode'[g] = mode[g]
          /\ pos'[g] = pos[g] /\ result'[g] = result[g]
    BY <1>1
  <2> QED BY <1>1, <1>2, <1>3, <2>1, StepOf DEF ApplyInv
<1>4. ASSUME sole' = IF Idle THEN h ELSE None PROVE SoleInv'
  <2> SUFFICES ASSUME NEW g \in Handlers, sole' = g PROVE Sole(g)'
    BY DEF SoleInv
  <2>1. g = h /\ Idle
    BY <1>4, Constants
  <2>2. Beside(h)'
    BY <1>1, <2>1 DEF Beside, Idle
  <2> QED BY <1>2, <2>1, <2>2
<1>5. SoleInv'
  BY <1>1, <1>3, <1>4
<1>6. FromStart'
  BY <1>1 DEF ApplyInv, FromStart, StoreSteps
<1> QED BY <1>5, <1>6 DEF ApplyInv

LEMMA CommitKeepsApply ==
  ASSUME TypeOK, StoreInv, ApplyInv, nftApply' = nftApply, NEW h \in Handlers,
         Activate(h) \/ AppendHistory(h) \/ LogCommit(h) \/ RemoveStaged(h)
  PROVE  ApplyInv'
<1>1. /\ UNCHANGED <<slot, kernel, rulesFile, view, mode, pos, result, sole, kept>>
      /\ pc[h] \in CommitSteps /\ pc'[h] \in CommitSteps \cup {"state"}
      /\ \A g \in Handlers \ {h} : pc'[g] = pc[g]
      /\ pc'[h] = "state" => pc[h] = "remove" /\ active' = active
  BY DEF TypeOK, Activate, AppendHistory, LogCommit, RemoveStaged, Goto, storeVars, hostVars, callVars,
         histVars, CommitSteps
<1>2. pc'[h] = "state" => active' \in Revisions
  BY <1>1 DEF StoreInv, CommitInv, CommitSteps, Staged
<1>3. ASSUME sole = h, Sole(h), Beside(h)' PROVE Sole(h)'
  <2>1. result'[h] # "committed" /\ kept' = NoRules
    BY <1>1, <1>3 DEF Sole, InForce, Clears, CommitSteps
  <2>2. CASE pc'[h] = "state"
    BY <1>1, <1>2, <1>3, <2>1, <2>2
       DEF Sole, PlansActive, CarriesOut, Clears, LoadsRules, InForce, RulesSteps
  <2>3. CASE pc'[h] # "state"
    BY <1>1, <1>3, <2>1, <2>3, NothingPromised DEF ApplySteps, RulesSteps, CommitSteps
  <2> QED BY <2>2, <2>3
<1>4. SoleInv'
  BY <1>1, <1>3, StepOf DEF ApplyInv, CommitSteps
<1>5. FromStart'
  BY <1>1 DEF ApplyInv, FromStart, CommitSteps, StoreSteps
<1> QED BY <1>4, <1>5 DEF ApplyInv

(* The handler's steps after the store's: what its own do for it. *)
LEMMA ReadKeepsSole ==
  ASSUME TypeOK, NEW h \in Handlers, FromStart, Sole(h), Beside(h)', ReadState(h)
  PROVE  Sole(h)'
<1>1. UNCHANGED <<active, slot, kernel, rulesFile, kept>>
  BY DEF ReadState, storeVars, hostVars, histVars
<1>2. CASE Finish(h, "error") \/ Finish(h, "unplanned")
  BY <1>2, FinishFacts, FinishAnswers, NothingPromised DEF ApplySteps, RulesSteps, CommitSteps
<1>3. CASE view' = [view EXCEPT ![h] = active] /\ Goto(h, "ops") /\ UNCHANGED <<got, mode, pos, result>>
  <2>1. /\ pc[h] = "state" /\ pc'[h] = "ops" /\ view'[h] = active
        /\ pos'[h] = pos[h] /\ result'[h] = result[h] /\ mode' = mode
    BY <1>3 DEF TypeOK, ReadState, Goto
  <2>2. pos[h] = 0 /\ active \in Revisions /\ result[h] # "committed" /\ kept = NoRules
    BY <2>1 DEF Sole, FromStart, PlansActive, ApplySteps, InForce, Clears
  <2>3. CarriesOut(h)'
    BY <1>1, <2>1, <2>2, PlanSlots DEF CarriesOut, RulesSteps
  <2> QED BY <1>1, <2>1, <2>2, <2>3 DEF Sole, PlansActive, Clears, LoadsRules, InForce
<1> QED BY <1>2, <1>3 DEF ReadState

LEMMA ActionKeepsSole ==
  ASSUME TypeOK, NEW h \in Handlers, Sole(h), Beside(h)', RunAction(h)
  PROVE  Sole(h)'
<1>1. /\ UNCHANGED <<active, kernel, rulesFile, mode, kept>>
      /\ pc[h] = "ops" /\ pc'[h] = "ops" /\ mode[h] = "apply" /\ view'[h] = view[h]
      /\ result'[h] = result[h] /\ pos[h] < Len(PlanOf[view[h]]) /\ pos'[h] = pos[h] + 1
      /\ slot' = [slot EXCEPT ![NextPiece(h)] = Leaves(view[h], NextPiece(h))]
  BY DEF TypeOK, RunAction, Acting, storeVars, histVars
<1>2. /\ active \in Revisions /\ view[h] = active /\ result[h] # "committed" /\ kept = NoRules
      /\ \A i \in 1 .. pos[h] : SetBy(active, i)
  BY <1>1 DEF Sole, PlansActive, CarriesOut, InForce, Clears, ApplySteps
<1>3. pos[h] \in Nat /\ slot \in [1 .. Slots -> Revisions \cup {None, Placeholder}]
  BY DEF TypeOK
<1>4. /\ pos[h] + 1 <= Len(PlanOf[active])
      /\ \A i \in 1 .. pos[h] + 1 : PlanOf[active][i] \in 1 .. Slots
  BY <1>1, <1>2, <1>3, PlanSlots
<1>5. NextPiece(h) = PlanOf[active][pos[h] + 1] /\ NextPiece(h) \in 1 .. Slots
  BY <1>2, <1>3, <1>4 DEF NextPiece
<1>6. \A p \in 1 .. Slots : slot'[p] = IF p = NextPiece(h) THEN Leaves(active, p) ELSE slot[p]
  BY <1>1, <1>2, <1>3, <1>5
<1>7. \A i \in 1 .. pos[h] + 1 : slot'[PlanOf[active][i]] = Leaves(active, PlanOf[active][i])
  BY <1>2, <1>3, <1>4, <1>5, <1>6 DEF SetBy
<1>8. CarriesOut(h)'
  BY <1>1, <1>4, <1>7 DEF CarriesOut, SetBy, RulesSteps
<1> QED BY <1>1, <1>2, <1>8 DEF Sole, PlansActive, Clears, LoadsRules, InForce

LEMMA OpsKeepSole ==
  ASSUME TypeOK, NEW h \in Handlers, Sole(h), Beside(h)', nftApply' = nftApply, FinishOps(h)
  PROVE  Sole(h)'
<1>1. /\ pc[h] = "ops" /\ UNCHANGED <<active, slot, kernel, rulesFile, kept, mode>>
      /\ mode[h] = "apply" => pos[h] = Len(PlanOf[view[h]])
  BY DEF FinishOps, Finish, storeVars, hostVars, histVars
<1>2. active \in Revisions /\ view[h] = active /\ result[h] # "committed" /\ kept = NoRules
  BY <1>1 DEF Sole, PlansActive, InForce, Clears, ApplySteps
<1>3. PlanIsOut(h)
  BY <1>1, <1>2, PlanSlots DEF Sole, CarriesOut, PlanIsOut
<1>4. PlanIsOut(h)'
  BY <1>1, <1>3 DEF PlanIsOut, SetBy
<1>5. CASE Goto(h, "truncate") /\ UNCHANGED <<got, view, mode, pos, result>>
  <2>1. pc'[h] = "truncate"
    BY <1>5, GotoFacts
  <2> QED BY <1>1, <1>2, <1>4, <1>5, <2>1
          DEF Sole, PlansActive, CarriesOut, Clears, LoadsRules, InForce
<1>6. CASE ~nftApply /\ Finish(h, "committed")
  <2>1. pc'[h] = "idle" /\ ~nftApply'
    BY <1>6, FinishFacts
  <2> QED BY <1>4, <2>1
          DEF Sole, PlansActive, CarriesOut, Clears, LoadsRules, InForce, ApplySteps, RulesSteps,
              CommitSteps
<1> QED BY <1>5, <1>6 DEF FinishOps

(* The file, the two tables and the load.                                  *)
LEMMA FileKeepsSole ==
  ASSUME TypeOK, NEW h \in Handlers, Sole(h), Beside(h)', TruncateRules(h) \/ WriteRules(h)
  PROVE  Sole(h)'
<1>1. /\ UNCHANGED <<active, slot, kernel, mode, kept, result, view>>
      /\ \/ pc[h] = "truncate" /\ pc'[h] = "rules" /\ rulesFile' = {}
         \/ pc[h] = "rules" /\ pc'[h] = "delete_inet" /\ rulesFile' = rulesFile \cup {view[h]}
  BY GotoFacts DEF TruncateRules, WriteRules, storeVars, callVars, histVars
<1>2. /\ PlanIsOut(h) /\ kept = NoRules /\ result[h] # "committed"
      /\ active \in Revisions /\ view[h] = active
      /\ pc[h] = "rules" => rulesFile = {}
  BY <1>1 DEF Sole, PlansActive, CarriesOut, Clears, LoadsRules, InForce, ApplySteps, RulesSteps
<1>3. PlanIsOut(h)'
  BY <1>1, <1>2 DEF PlanIsOut, SetBy
<1> QED BY <1>1, <1>2, <1>3
        DEF Sole, PlansActive, CarriesOut, Clears, LoadsRules, InForce, ApplySteps, RulesSteps

LEMMA DeleteKeepsSole ==
  ASSUME TypeOK, NEW h \in Handlers, Sole(h), Beside(h)', DeleteTables(h)
  PROVE  Sole(h)'
<1>1. /\ UNCHANGED <<active, slot, mode, result, view, rulesFile>>
      /\ kernel \in [Tables -> SUBSET Revisions] /\ kept \in [Tables -> SUBSET Revisions]
  BY DEF DeleteTables, DeleteTable, storeVars, callVars, TypeOK
<1>2. CASE pc[h] = "delete_inet" /\ DeleteTable(h, "inet", "delete_nat")
  <2>1. pc'[h] = "delete_nat"
    BY <1>2, GotoFacts DEF DeleteTable
  <2>2. kept = NoRules
    BY <1>2 DEF Sole, Clears, ApplySteps, RulesSteps
  <2>3. kernel'["inet"] = kept'["inet"] /\ kept'["nat"] = {}
    BY <1>1, <1>2, <2>2 DEF DeleteTable, NoRules, Tables
  <2>4. PlanIsOut(h) /\ rulesFile = {active} /\ result[h] # "committed"
        /\ active \in Revisions /\ view[h] = active
    BY <1>2 DEF Sole, PlansActive, CarriesOut, LoadsRules, InForce, ApplySteps, RulesSteps
  <2>5. PlanIsOut(h)'
    BY <1>1, <2>4 DEF PlanIsOut, SetBy
  <2> QED BY <1>1, <2>1, <2>3, <2>4, <2>5
          DEF Sole, PlansActive, CarriesOut, Clears, LoadsRules, InForce, CommitSteps
<1>3. CASE pc[h] = "delete_nat" /\ DeleteTable(h, "nat", "load")
  <2>1. pc'[h] = "load"
    BY <1>3, GotoFacts DEF DeleteTable
  <2>2. kept["nat"] = {} /\ kernel["inet"] = kept["inet"]
    BY <1>3 DEF Sole, Clears
  <2>3. kernel'["inet"] = kept'["inet"] /\ kernel'["nat"] = kept'["nat"]
    BY <1>1, <1>3, <2>2 DEF DeleteTable, Tables
  <2>4. PlanIsOut(h) /\ rulesFile = {active} /\ result[h] # "committed"
        /\ active \in Revisions /\ view[h] = active
    BY <1>3 DEF Sole, PlansActive, CarriesOut, LoadsRules, InForce, ApplySteps, RulesSteps
  <2>5. PlanIsOut(h)'
    BY <1>1, <2>4 DEF PlanIsOut, SetBy
  <2> QED BY <1>1, <2>1, <2>3, <2>4, <2>5
          DEF Sole, PlansActive, CarriesOut, Clears, LoadsRules, InForce, CommitSteps
<1> QED BY <1>2, <1>3 DEF DeleteTables

LEMMA LoadKeepsSole ==
  ASSUME TypeOK, NEW h \in Handlers, Sole(h), Beside(h)', LoadRules(h)
  PROVE  Sole(h)'
<1>1. UNCHANGED <<active, slot, mode, kept>> /\ pc[h] = "load"
  BY DEF LoadRules, Finish, storeVars, histVars
<1>2. /\ PlanIsOut(h) /\ rulesFile = {active} /\ active \in Revisions
      /\ kernel["inet"] = kept["inet"] /\ kernel["nat"] = kept["nat"]
  BY <1>1 DEF Sole, PlansActive, CarriesOut, Clears, LoadsRules, ApplySteps, RulesSteps
<1>3. Whole(rulesFile)
  BY <1>2, Constants DEF Whole
<1>4. \A t \in Tables : Held(t) = RulesOf(active)[t]
  <2>1. rulesFile \ {Garbled} = {active}
    BY <1>2, Constants
  <2> QED BY <2>1 DEF Held
<1>5. kernel' = [t \in Tables |-> kernel[t] \cup Held(t)] /\ Finish(h, "committed")
  BY <1>3 DEF LoadRules
<1>6. RulesAreIn'
  <2>1. \A t \in Tables : kernel[t] \cup Held(t) = kept[t] \cup RulesOf(active)[t]
    BY <1>2, <1>4 DEF Tables
  <2> QED BY <1>1, <1>5, <2>1 DEF RulesAreIn, RulesOf
<1>7. PlanIsOut(h)'
  BY <1>1, <1>2 DEF PlanIsOut, SetBy
<1>8. pc'[h] = "idle"
  BY <1>5, FinishFacts
<1> QED BY <1>6, <1>7, <1>8
        DEF Sole, PlansActive, CarriesOut, Clears, LoadsRules, InForce, ApplySteps, RulesSteps,
            CommitSteps

LEMMA ApplyKeepsApply ==
  ASSUME TypeOK, ApplyInv, nftApply' = nftApply, NEW h \in Handlers, ApplyStep(h)
  PROVE  ApplyInv'
<1>1. sole' = sole /\ pc[h] \in ApplySteps
  BY ApplyMoves
<1>2. \A g \in Handlers \ {h} :
        /\ pc'[g] = pc[g] /\ view'[g] = view[g] /\ mode'[g] = mode[g]
        /\ pos'[g] = pos[g] /\ result'[g] = result[g]
  <2>1. CASE ReadState(h)
    BY <2>1 DEF TypeOK, ReadState, Finish, Reply, Goto
  <2>2. CASE RunAction(h) \/ FinishOps(h)
    BY <2>2 DEF TypeOK, RunAction, FinishOps, Finish, Reply, Goto
  <2>3. CASE TruncateRules(h) \/ WriteRules(h) \/ DeleteTables(h)
    BY <2>3 DEF TypeOK, TruncateRules, WriteRules, DeleteTables, DeleteTable, Goto, callVars
  <2>4. CASE LoadRules(h)
    BY <2>4 DEF TypeOK, LoadRules, Finish, Reply, Goto
  <2> QED BY <2>1, <2>2, <2>3, <2>4 DEF ApplyStep
<1>3. pc'[h] \in {"idle", "state"} \cup StoreSteps => pos'[h] = 0
  <2>1. CASE Finish(h, "error") \/ Finish(h, "committed") \/ Finish(h, "unplanned")
    BY <2>1, FinishAnswers
  <2>2. CASE UNCHANGED pc
    BY <2>1, <2>2 DEF TypeOK, ApplySteps, RulesSteps, StoreSteps, ApplyStep, ReadState, RunAction,
       Acting, FinishOps, TruncateRules, WriteRules, DeleteTables, DeleteTable, LoadRules, Goto
  <2>3. ASSUME NEW s \in {"ops"} \cup RulesSteps, Goto(h, s) PROVE pc'[h] \notin {"idle", "state"} \cup StoreSteps
    BY <2>3, GotoFacts DEF RulesSteps, StoreSteps
  <2> QED BY <2>1, <2>2, <2>3, ApplyMoves
<1>4. ASSUME Sole(h), Beside(h)' PROVE Sole(h)'
  BY <1>4, ReadKeepsSole, ActionKeepsSole, OpsKeepSole, FileKeepsSole, DeleteKeepsSole,
     LoadKeepsSole DEF ApplyStep, ApplyInv
<1>5. SoleInv'
  BY <1>1, <1>2, <1>4, StepOf DEF ApplyInv, ApplySteps, RulesSteps
<1>6. FromStart'
  BY <1>2, <1>3 DEF ApplyInv, FromStart
<1> QED BY <1>5, <1>6 DEF ApplyInv

LEMMA FailureKeepsApply ==
  ASSUME TypeOK, ApplyInv, nftApply' = nftApply, NEW h \in Handlers, StoreError(h) \/ ApplyError(h)
  PROVE  ApplyInv'
<1>1. /\ Finish(h, "error") /\ sole' = sole /\ UNCHANGED <<active, kept>>
      /\ pc[h] \in {"idle", "log_configure"} => UNCHANGED <<slot, kernel, rulesFile>>
  BY DEF StoreError, ApplyError, Acting, storeVars, hostVars, histVars
<1>2. /\ pc'[h] = "idle" /\ result'[h] = "error" /\ pos'[h] = 0 /\ mode' = mode
      /\ \A g \in Handlers \ {h} : /\ pc'[g] = pc[g] /\ view'[g] = view[g]
                                  /\ pos'[g] = pos[g] /\ result'[g] = result[g]
  BY <1>1, FinishFacts, FinishAnswers
<1>3. Beside(h)' => Sole(h)'
  BY <1>2, NothingPromised DEF ApplySteps, RulesSteps, CommitSteps
<1>4. SoleInv'
  BY <1>1, <1>2, <1>3, StepOf DEF ApplyInv
<1>5. FromStart'
  BY <1>2 DEF ApplyInv, FromStart
<1> QED BY <1>4, <1>5 DEF ApplyInv

LEMMA ApplyNext == TypeOK /\ StoreInv /\ ApplyInv /\ [Next]_vars => ApplyInv'
<1> SUFFICES ASSUME TypeOK, StoreInv, ApplyInv, [Next]_vars PROVE ApplyInv'
  OBVIOUS
<1>0. nftApply' = nftApply
  BY DEF Next, vars
<1>1. CASE Crash
  BY <1>1, Constants DEF Crash, ApplyInv, SoleInv, FromStart
<1>2. CASE UNCHANGED vars
  <2>1. FromStart'
    BY <1>2 DEF vars, ApplyInv, FromStart
  <2>2. \A h \in Handlers : Beside(h) => Beside(h)'
    BY <1>2 DEF vars, Beside
  <2>3. \A h \in Handlers : Sole(h) => Sole(h)'
    BY <1>2, <2>2, BesideKeepsSole DEF vars, Sole
  <2> QED BY <1>2, <2>1, <2>3 DEF vars, ApplyInv, SoleInv
<1> QED
  BY <1>0, <1>1, <1>2, ConfigureKeepsApply, BeginKeepsApply, CommitKeepsApply, ApplyKeepsApply,
     FailureKeepsApply DEF Next, StoreCommit

(* A commit with no other one in flight whose 200 has an ops_status is     *)
(* what the host runs, whatever raced, crashed or failed before it: its    *)
(* rules, beside those of a table it failed to delete, and each piece of   *)
(* its plan (the commit handler, ExecuteOpsPlan and ApplyNftables).        *)
THEOREM AckedCommitsRun == Spec => []AckedIsInForce
<1>1. TypeOK /\ ApplyInv => AckedIsInForce
  BY DEF ApplyInv, SoleInv, Sole, InForce, RulesAreIn, PlanIsOut, SetBy, AckedIsInForce
<1> QED
  BY <1>1, Invariant, ApplyInit, ApplyNext, PTL DEF Spec
=============================================================================
