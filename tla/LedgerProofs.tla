----------------------------- MODULE LedgerProofs -----------------------------
(***************************************************************************)
(* The machine-checked proof that a sandbox directory whose run ids are     *)
(* fresh implements EvidenceLedger: every write of SandboxRun is one step   *)
(* of the ledger or none.                                                   *)
(***************************************************************************)
EXTENDS FreshRunProofs

abstract == <<standing, evidence, subject>>

\* The directory starts as an empty ledger.
LEMMA LedgerInits == Init => Ledger!LedgerInit
<1>. SUFFICES ASSUME Init PROVE Ledger!LedgerInit
  OBVIOUS
<1>1. \A r \in RunIds : runFile[r].status = "absent"
  BY DEF Init, NoRecord
<1>2. standing = [r \in RunIds |-> "none"] /\ subject = [r \in RunIds |-> NoTree]
  BY <1>1 DEF standing, StandingOf, subject
<1>3. \A r \in RunIds : {d \in Cases : Sealed(r, d)} = {}
  BY DEF Init, NoReceipts, NoReceipt, Sealed
<1>4. evidence = [r \in RunIds |-> [c \in {} |-> NoTree]]
  BY <1>3 DEF evidence
<1>. QED BY <1>2, <1>4 DEF Ledger!LedgerInit

-----------------------------------------------------------------------------
(* What a change of one file means for the ledger.                          *)

\* A step that leaves records and receipts alone leaves the ledger alone.
LEMMA NothingWritten ==
  ASSUME UNCHANGED <<runFile, receipts>>
  PROVE  UNCHANGED abstract
BY DEF abstract, standing, evidence, subject, Sealed

\* Writing the record of r changes at most the standing and subject of r.
LEMMA RecordWritten ==
  ASSUME NEW r \in RunIds, NEW record,
         runFile \in [RunIds -> RunRecord],
         runFile' = [runFile EXCEPT ![r] = record], receipts' = receipts,
         record.status \in {"torn", "running", "completed", "failed"}
  PROVE  /\ standing' = [standing EXCEPT ![r] = StandingOf(record.status)]
         /\ subject' = [subject EXCEPT ![r] =
                          IF record.status = "completed" THEN record.before ELSE NoTree]
         /\ evidence' = evidence
<1>1. runFile'[r] = record /\ \A s \in RunIds : s # r => runFile'[s] = runFile[s]
  OBVIOUS
<1>2. standing' = [standing EXCEPT ![r] = StandingOf(record.status)]
  <2>1. standing'[r] = StandingOf(record.status)
    BY <1>1 DEF standing
  <2>2. \A s \in RunIds : s # r => standing'[s] = standing[s]
    BY <1>1 DEF standing
  <2>3. /\ standing = [s \in RunIds |-> standing[s]]
        /\ standing' = [s \in RunIds |-> standing'[s]]
    BY DEF standing
  <2>. QED BY <2>1, <2>2, <2>3
<1>3. subject' = [subject EXCEPT ![r] =
                    IF record.status = "completed" THEN record.before ELSE NoTree]
  BY <1>1 DEF subject
<1>4. evidence' = evidence
  BY DEF evidence, Sealed
<1>. QED BY <1>2, <1>3, <1>4

\* A record that is not final stays not final: no step of the ledger.
LEMMA RecordOpen ==
  ASSUME NEW r \in RunIds, NEW record,
         runFile \in [RunIds -> RunRecord],
         runFile' = [runFile EXCEPT ![r] = record], receipts' = receipts,
         runFile[r].status \in {"torn", "running"}, record.status \in {"torn", "running"}
  PROVE  UNCHANGED abstract
<1>1. standing[r] = "open" /\ subject[r] = NoTree
  BY DEF standing, StandingOf, subject
<1>2. standing' = [standing EXCEPT ![r] = "open"] /\ subject' = [subject EXCEPT ![r] = NoTree]
        /\ evidence' = evidence
  BY RecordWritten DEF StandingOf
<1>3. standing \in [RunIds -> {standing[s] : s \in RunIds}]
        /\ subject \in [RunIds -> {subject[s] : s \in RunIds}]
  BY DEF standing, subject
<1>. QED BY <1>1, <1>2, <1>3 DEF abstract

-----------------------------------------------------------------------------
(* The steps of the ledger.                                                 *)

\* The first write of the record opens the run.
LEMMA OpenStep ==
  ASSUME FreshInv, NEW p \in Procs, OpenRunning(p)
  PROVE  Ledger!Open(proc[p].run) \/ UNCHANGED abstract
<1>. DEFINE r == proc[p].run
<1>1. /\ r \in RunIds /\ runFile \in [RunIds -> RunRecord]
      /\ runFile[r].status \notin {"completed", "failed"}
  BY DEF OpenRunning, At, FreshInv, FilesInv, OwnFiles, TypeOK
<1>. DEFINE record == TornRecord
<1>2. /\ runFile' = [runFile EXCEPT ![r] = record] /\ receipts' = receipts
      /\ record.status = "torn"
  BY DEF OpenRunning, TruncateRecord, TornRecord, NoRecord
<1>. HIDE DEF record
<1>3. CASE runFile[r].status = "absent"
  <2>1. standing[r] = "none" /\ subject[r] = NoTree
    BY <1>1, <1>3 DEF standing, StandingOf, subject
  <2>2. /\ standing' = [standing EXCEPT ![r] = "open"]
        /\ subject' = [subject EXCEPT ![r] = NoTree]
        /\ evidence' = evidence
    <3>1. StandingOf(record.status) = "open"
      BY <1>2 DEF StandingOf
    <3>. QED BY <1>1, <1>2, <3>1, RecordWritten
  <2>3. subject \in [RunIds -> {subject[s] : s \in RunIds}]
    BY DEF subject
  <2>4. subject' = subject
    BY <2>1, <2>2, <2>3
  <2>. QED BY <2>1, <2>2, <2>4 DEF Ledger!Open
<1>4. CASE runFile[r].status \in {"torn", "running"}
  BY <1>1, <1>2, <1>4, RecordOpen
<1>. QED BY <1>1, <1>3, <1>4 DEF RunRecord

\* Truncating a record that is not final, and the running record.
LEMMA StayOpen ==
  ASSUME FreshInv, NEW p \in Procs, WriteRunning(p) \/ OpenFailed(p) \/ OpenCompleted(p)
  PROVE  UNCHANGED abstract
<1>. DEFINE r == proc[p].run
<1>1. /\ r \in RunIds /\ runFile \in [RunIds -> RunRecord]
      /\ runFile[r].status \in {"torn", "running"}
  BY DEF WriteRunning, OpenFailed, OpenCompleted, At, FreshInv, OrderInv, InOrder, TypeOK
<1>2. CASE WriteRunning(p)
  BY <1>1, <1>2, RecordOpen DEF WriteRunning, WriteRecord
<1>3. CASE OpenFailed(p) \/ OpenCompleted(p)
  BY <1>1, <1>3, RecordOpen DEF OpenFailed, OpenCompleted, TruncateRecord, TornRecord, NoRecord
<1>. QED BY <1>2, <1>3

\* The failed record refuses the run, which has no evidence.
LEMMA RefuseStep ==
  ASSUME FreshInv, NEW p \in Procs, WriteFailed(p)
  PROVE  Ledger!Refuse(proc[p].run)
<1>. DEFINE r == proc[p].run
<1>1. /\ r \in RunIds /\ runFile \in [RunIds -> RunRecord]
      /\ runFile[r].status \in {"torn", "running"} /\ receipts[r] = NoReceipts
  BY DEF WriteFailed, At, FreshInv, OrderInv, InOrder, FailInv, NoReceiptsYet, TypeOK
<1>2. standing[r] = "open" /\ subject[r] = NoTree
  BY <1>1 DEF standing, StandingOf, subject
<1>3. {d \in Cases : Sealed(r, d)} = {}
  BY <1>1 DEF Sealed, NoReceipts, NoReceipt
<1>4. DOMAIN evidence[r] = {}
  BY <1>1, <1>3 DEF evidence
<1>. DEFINE record == [status |-> "failed", attempt |-> proc[p].attempt,
                       plan |-> proc[p].plan, before |-> proc[p].before]
<1>5. /\ runFile' = [runFile EXCEPT ![r] = record] /\ receipts' = receipts
      /\ record.status = "failed"
  BY DEF WriteFailed, WriteRecord
<1>. HIDE DEF record
<1>6. /\ standing' = [standing EXCEPT ![r] = "refused"]
      /\ subject' = [subject EXCEPT ![r] = NoTree]
      /\ evidence' = evidence
  BY <1>1, <1>5, RecordWritten DEF StandingOf
<1>7. subject \in [RunIds -> {subject[s] : s \in RunIds}]
  BY DEF subject
<1>8. subject' = subject
  BY <1>2, <1>6, <1>7
<1>. QED BY <1>2, <1>4, <1>6, <1>8 DEF Ledger!Refuse

\* The completed record publishes the tree all of the evidence is about.
LEMMA PublishStep ==
  ASSUME FreshInv, TreeInv, NEW p \in Procs, WriteCompleted(p)
  PROVE  Ledger!Publish(proc[p].run)
<1>. DEFINE r == proc[p].run
            t == proc[p].before
            record == [status |-> "completed", attempt |-> proc[p].attempt,
                       plan |-> proc[p].plan, before |-> t]
<1>1. /\ r \in RunIds /\ runFile \in [RunIds -> RunRecord] /\ proc[p] \in Process
      /\ proc[p].pc = "write_completed" /\ runFile[r].status \in {"torn", "running"}
  BY DEF WriteCompleted, At, FreshInv, OrderInv, InOrder, TypeOK
<1>2. standing[r] = "open" /\ t \in Tree
  BY <1>1 DEF standing, StandingOf, Process
<1>3. ASSUME NEW c \in Cases, Sealed(r, c) PROVE receipts[r][c].seen = t
  <2>1. c \in proc[p].plan
    BY <1>1, <1>3 DEF FreshInv, FilesInv, OwnFiles, Sealed, NoReceipt
  <2>. QED BY <1>1, <2>1 DEF TreeInv, Sandwiched
<1>4. \A c \in DOMAIN evidence[r] : evidence[r][c] = t
  BY <1>1, <1>3 DEF evidence
<1>5. /\ runFile' = [runFile EXCEPT ![r] = record] /\ receipts' = receipts
      /\ record.status = "completed" /\ record.before = t
  BY DEF WriteCompleted, WriteRecord
<1>. HIDE DEF record
<1>6. /\ standing' = [standing EXCEPT ![r] = "published"]
      /\ subject' = [subject EXCEPT ![r] = t]
      /\ evidence' = evidence
  BY <1>1, <1>5, RecordWritten DEF StandingOf
<1>. QED BY <1>2, <1>4, <1>6 DEF Ledger!Publish

\* A torn receipt is no evidence, and there was none where it is opened.
LEMMA TornStep ==
  ASSUME FreshInv, NEW p \in Procs, OpenReceipt(p)
  PROVE  UNCHANGED abstract
<1>. DEFINE r == proc[p].run
<1>1. PICK c \in proc[p].plan \ proc[p].done : receipts' = [receipts EXCEPT ![r][c] = TornReceipt]
  BY DEF OpenReceipt
<1>2. /\ r \in RunIds /\ receipts \in [RunIds -> Receipts] /\ c \in Cases
      /\ runFile' = runFile /\ proc[p].pc = "seal" /\ proc[p].cur = {}
  BY DEF OpenReceipt, At, FreshInv, TypeOK, Process
<1>3. ~Sealed(r, c)
  BY <1>2 DEF FreshInv, FilesInv, OwnFiles, Sealed, NoReceipt
<1>4. /\ receipts'[r][c] = TornReceipt /\ \A d \in Cases : d # c => receipts'[r][d] = receipts[r][d]
      /\ \A s \in RunIds : s # r => receipts'[s] = receipts[s]
  BY <1>1, <1>2 DEF Receipts
<1>5. \A s \in RunIds, d \in Cases : /\ Sealed(s, d)' <=> Sealed(s, d)
                                     /\ Sealed(s, d) => receipts'[s][d] = receipts[s][d]
  BY <1>3, <1>4 DEF Sealed, TornReceipt, NoReceipt
<1>6. ASSUME NEW s \in RunIds PROVE evidence'[s] = evidence[s]
  <2>1. {d \in Cases : Sealed(s, d)}' = {d \in Cases : Sealed(s, d)}
    BY <1>5
  <2>. QED BY <1>5, <2>1 DEF evidence
<1>7. evidence = [s \in RunIds |-> evidence[s]] /\ evidence' = [s \in RunIds |-> evidence'[s]]
  BY DEF evidence
<1>8. evidence' = evidence
  BY <1>6, <1>7
<1>. QED BY <1>2, <1>8 DEF abstract, standing, subject

\* A sealed receipt is one more piece of evidence of an open run.
LEMMA SealStep ==
  ASSUME FreshInv, NEW p \in Procs, SealReceipt(p)
  PROVE  \E c \in Cases : Ledger!AddEvidence(proc[p].run, c)
<1>. DEFINE r == proc[p].run
<1>0. /\ r \in RunIds /\ receipts \in [RunIds -> Receipts] /\ proc[p] \in Process
      /\ runFile' = runFile /\ proc[p].pc = "seal"
  BY DEF SealReceipt, At, FreshInv, TypeOK
<1>1. PICK c \in proc[p].cur :
        receipts' = [receipts EXCEPT ![r][c] =
                       [state |-> "sealed", attempt |-> proc[p].attempt,
                        seen |-> proc[p].seen[c]]]
  BY DEF SealReceipt
<1>. DEFINE t == proc[p].seen[c]
            kept == {d \in Cases : Sealed(r, d)}
<1>2. c \in Cases /\ t \in Tree
  BY <1>0 DEF Process
<1>3. c \notin kept /\ standing[r] = "open"
  BY <1>0 DEF FreshInv, FilesInv, OwnFiles, Sealed, TornReceipt, NoReceipt, OrderInv, InOrder,
     standing, StandingOf
<1>4. /\ receipts'[r][c].state = "sealed" /\ receipts'[r][c].seen = t
      /\ \A d \in Cases : d # c => receipts'[r][d] = receipts[r][d]
      /\ \A s \in RunIds : s # r => receipts'[s] = receipts[s]
  BY <1>0, <1>1, <1>2 DEF Receipts
<1>5. {d \in Cases : receipts'[r][d].state = "sealed"} = kept \cup {c}
  BY <1>2, <1>4 DEF Sealed
<1>6. evidence'[r] = [d \in kept \cup {c} |-> IF d = c THEN t ELSE evidence[r][d]]
  <2>1. evidence'[r] = [d \in kept \cup {c} |-> receipts'[r][d].seen]
    BY <1>0, <1>5 DEF evidence, Sealed
  <2>2. \A d \in kept : evidence[r][d] = receipts[r][d].seen
    BY <1>0 DEF evidence
  <2>. QED BY <1>3, <1>4, <2>1, <2>2
<1>7. DOMAIN evidence[r] = kept
  BY <1>0 DEF evidence
<1>8. \A s \in RunIds : s # r => evidence'[s] = evidence[s]
  BY <1>4 DEF evidence, Sealed
<1>9. evidence = [s \in RunIds |-> evidence[s]] /\ evidence' = [s \in RunIds |-> evidence'[s]]
  BY DEF evidence
<1>10. evidence' = [evidence EXCEPT ![r] = [d \in DOMAIN evidence[r] \cup {c} |->
                                              IF d = c THEN t ELSE evidence[r][d]]]
  BY <1>0, <1>6, <1>7, <1>8, <1>9
<1>11. UNCHANGED <<standing, subject>>
  BY <1>0 DEF standing, subject
<1>. QED BY <1>2, <1>3, <1>7, <1>10, <1>11 DEF Ledger!AddEvidence

-----------------------------------------------------------------------------
\* Every step of the directory is a step of the ledger or none.
LEMMA LedgerStep ==
  ASSUME FreshInv, TreeInv, [Next]_vars
  PROVE  [Ledger!LedgerNext]_abstract
<1>1. CASE UNCHANGED <<runFile, receipts>>
  BY <1>1, NothingWritten
<1>2. ASSUME NEW p \in Procs, Step(p) PROVE [Ledger!LedgerNext]_abstract
  <2>1. proc[p].run \in RunIds
    BY <1>2, Frame DEF FreshInv
  <2>2. CASE OpenRunning(p)
    BY <2>1, <2>2, OpenStep DEF Ledger!LedgerNext
  <2>3. CASE WriteRunning(p) \/ OpenFailed(p) \/ OpenCompleted(p)
    BY <2>3, StayOpen
  <2>4. CASE WriteFailed(p)
    BY <2>1, <2>4, RefuseStep DEF Ledger!LedgerNext
  <2>5. CASE WriteCompleted(p)
    BY <2>1, <2>5, PublishStep DEF Ledger!LedgerNext
  <2>6. CASE OpenReceipt(p)
    BY <2>6, TornStep
  <2>7. CASE SealReceipt(p)
    BY <2>1, <2>7, SealStep DEF Ledger!LedgerNext
  <2>. QED BY <1>1, <1>2, <2>2, <2>3, <2>4, <2>5, <2>6, <2>7
           DEF Step, disk, HashBefore, PreflightFails, ClearWorkspace, CopyFile, Attack,
               AttackUnsupported, AttacksDone, HashAfter, WriteExit5, Accept, WriteExit0,
               LoadFails, LoadReceipts, OpenReport, WriteReport
<1>3. ASSUME NEW p \in Procs, Die(p) \/ \E r \in RunIds, plan \in Plans : Start(p, r, plan)
      PROVE  UNCHANGED <<runFile, receipts>>
  BY <1>3 DEF Die, Start, disk
<1>4. CASE Edit \/ UNCHANGED vars
  BY <1>1, <1>4 DEF Edit, vars, disk
<1>. QED BY <1>1, <1>2, <1>3, <1>4 DEF Next

(***************************************************************************)
(* A directory whose run ids are never used twice implements EvidenceLedger *)
(* when no edit restores an earlier version: its files, read as a ledger,   *)
(* behave as one, whatever crashes, edits and interleavings happen.         *)
(***************************************************************************)
THEOREM Implements ==
  ASSUME Reuse = "fresh", ~Restores
  PROVE  Spec => ImplementsLedger
<1>1. Init => FreshInv /\ TreeInv
  BY FreshInit, TreeInit DEF FreshInv
<1>2. FreshInv /\ TreeInv /\ [Next]_vars => (FreshInv /\ TreeInv)'
  BY FreshNext, TreeNext DEF FreshInv, NotShared
<1>3. FreshInv /\ TreeInv /\ [Next]_vars => [Ledger!LedgerNext]_abstract
  BY LedgerStep
<1>. QED BY <1>1, <1>2, <1>3, LedgerInits, PTL
         DEF Spec, ImplementsLedger, Ledger!LedgerSpec, Ledger!ledger, abstract

-----------------------------------------------------------------------------
\* A step of the ledger concerns one run that is not over yet.
LEMMA LedgerStepStays ==
  ASSUME Ledger!LedgerNext, NEW r \in RunIds, standing[r] \in {"published", "refused"}
  PROVE  standing'[r] = standing[r] /\ evidence'[r] = evidence[r] /\ subject'[r] = subject[r]
<1>1. PICK s \in RunIds : \/ Ledger!Open(s)
                          \/ \E c \in Cases : Ledger!AddEvidence(s, c)
                          \/ Ledger!Publish(s)
                          \/ Ledger!Refuse(s)
  BY DEF Ledger!LedgerNext
<1>2. standing[s] \in {"none", "open"}
  BY <1>1 DEF Ledger!Open, Ledger!AddEvidence, Ledger!Publish, Ledger!Refuse
<1>3. s # r
  BY <1>2
<1>4. DOMAIN standing = RunIds /\ DOMAIN evidence = RunIds /\ DOMAIN subject = RunIds
  BY DEF standing, evidence, subject
<1>. QED BY <1>1, <1>3, <1>4 DEF Ledger!Open, Ledger!AddEvidence, Ledger!Publish, Ledger!Refuse

(***************************************************************************)
(* A run whose record is final keeps it, with the receipts sealed under it  *)
(* and the tree it vouches for, whatever is started, edited or killed       *)
(* afterwards; no receipt is sealed under a run that has ended.             *)
(***************************************************************************)
THEOREM FinalRunsStay ==
  ASSUME Reuse = "fresh", ~Restores
  PROVE  Spec => Ledger!EndedRunsStay
<1>. DEFINE Stays == \A r \in RunIds : standing[r] \in {"published", "refused"} =>
                       standing'[r] = standing[r] /\ evidence'[r] = evidence[r] /\ subject'[r] = subject[r]
<1>1. Ledger!LedgerNext => Stays
  BY LedgerStepStays
<1>2. Spec => Ledger!LedgerSpec
  BY Implements DEF ImplementsLedger
<1>. HIDE DEF Stays
<1>3. Ledger!LedgerSpec => [][Stays]_abstract
  BY <1>1, PTL DEF Ledger!LedgerSpec, Ledger!ledger, abstract
<1>4. [][Stays]_abstract => Ledger!EndedRunsStay
  BY DEF Stays, abstract, Ledger!EndedRunsStay, Ledger!ledger
<1>. QED BY <1>2, <1>3, <1>4
=============================================================================
