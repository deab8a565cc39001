--------------------------- MODULE SandboxRunProofs ---------------------------
(***************************************************************************)
(* Machine-checked proofs about SandboxRun, for every set of processes, run *)
(* ids, files and cases and every bound.                                    *)
(***************************************************************************)
EXTENDS SandboxRun, TLAPS

-----------------------------------------------------------------------------
(* The inductive invariants.                                                *)

\* Two invocations that are under way never have the same run id, and their
\* run ids are counted as used.
OneWriter ==
  \A p \in Procs : proc[p].pc # "idle" =>
    /\ proc[p].run \in used
    /\ \A q \in Procs : q # p /\ proc[q].pc # "idle" => proc[p].run # proc[q].run

SealedBy(p, c) ==
  /\ Sealed(proc[p].run, c)
  /\ receipts[proc[p].run][c].attempt = proc[p].attempt

\* From the first write of the record to the last one no reader sees a final
\* record, and the receipts the loop is finished with are sealed.
InOrder(p) ==
  /\ proc[p].pc \in {"write_running", "attack", "hash_after", "refuse", "write_failed",
                     "seal", "complete", "write_completed"}
       => runFile[proc[p].run].status \in {"torn", "running"}
  /\ At(p, "seal") => \A c \in proc[p].done : SealedBy(p, c)
  /\ proc[p].pc \in {"complete", "write_completed"} => \A c \in proc[p].plan : SealedBy(p, c)

OrderInv ==
  /\ OneWriter
  /\ \A p \in Procs : InOrder(p)
  /\ CompletedRunHasItsEvidence

\* Versions only grow, so what is read later is never older: the tree hashed
\* first, the copy, the tree hashed last and the source as it now is.
Sandwiched(p) ==
  LET P == proc[p]
      copy == workspace[P.run]
  IN
  /\ \A f \in Files : P.before[f] <= source[f]
  /\ P.pc = "copy" => \A f \in Files \ P.todo : P.before[f] <= copy[f] /\ copy[f] <= source[f]
  /\ P.pc \in {"write_running", "attack", "hash_after"}
       => \A f \in Files : P.before[f] <= copy[f] /\ copy[f] <= source[f]
  /\ P.pc = "attack" => \A c \in P.done : P.seen[c] = copy
  /\ P.pc = "hash_after" => /\ \A c \in P.plan : P.seen[c] = copy
                            /\ \A f \in Files \ P.todo : copy[f] <= P.after[f]
  /\ P.pc # "seal" => P.cur = {}
  /\ P.pc \in {"hash_before", "copy", "write_running"} => P.done = {}
  /\ P.pc = "seal" => /\ \A c \in P.plan : P.seen[c] = P.before
                      /\ P.cur \subseteq P.plan
                      /\ \A c \in P.done : receipts[P.run][c].seen = P.before
  /\ P.pc \in {"complete", "write_completed"}
       => \A c \in P.plan : receipts[P.run][c].seen = P.before

TreeInv ==
  /\ \A f \in Files : source[f] <= edits
  /\ \A p \in Procs : Sandwiched(p)
  /\ EvidenceFromRecordedSource

\* A run id nobody was given has no files, and a run has no receipt before
\* its second hash was found equal to the first.
NoReceiptsYet(p) ==
  proc[p].pc \notin {"idle", "seal", "complete", "write_completed", "load", "report", "write_report"}
    => receipts[proc[p].run] = NoReceipts

FailInv ==
  /\ \A r \in RunIds \ used : receipts[r] = NoReceipts
  /\ \A p \in Procs : NoReceiptsYet(p)
  /\ FailClosed
-----------------------------------------------------------------------------
(* Types.                                                                   *)

\* The initial values and the values a file is reset to have their types.
LEMMA ConstantTypes ==
  /\ NoTree \in Tree
  /\ NoReceipt \in Receipt /\ TornReceipt \in Receipt
  /\ NoReceipts \in Receipts
  /\ NoRecord \in RunRecord /\ TornRecord \in RunRecord
  /\ NoReport \in Report /\ TornReport \in Report
  /\ Idle \in Process
<1>1. NoTree \in Tree
  BY DEF NoTree, Tree
<1>2. NoReceipt \in Receipt /\ TornReceipt \in Receipt
  BY <1>1 DEF NoReceipt, TornReceipt, Receipt
<1>3. NoReceipts \in Receipts
  BY <1>2 DEF NoReceipts, Receipts
<1>4. NoRecord \in RunRecord /\ TornRecord \in RunRecord
  BY <1>1 DEF NoRecord, TornRecord, RunRecord
<1>5. NoReport \in Report /\ TornReport \in Report
  BY <1>3 DEF NoReport, TornReport, Report
<1>6. Idle \in Process
  BY <1>1, <1>3 DEF Idle, Process, ControlPoints
<1>. QED BY <1>1, <1>2, <1>3, <1>4, <1>5, <1>6

\* The part of the type invariant that is about processes.
ProcsTypeOK ==
  /\ proc \in [Procs -> Process]
  /\ \A p \in Procs : proc[p].pc # "idle" => proc[p].run \in RunIds

\* A step of p gives p its new state and leaves every other process alone.
LEMMA BecomeType ==
  ASSUME TypeOK, NEW p \in Procs, NEW P \in Process, Become(p, P),
         P.pc # "idle" => P.run \in RunIds
  PROVE  ProcsTypeOK'
<1>1. proc' \in [Procs -> Process] /\ proc'[p] = P /\ \A q \in Procs : q # p => proc'[q] = proc[q]
  BY DEF TypeOK, Become
<1>. QED BY <1>1 DEF TypeOK, ProcsTypeOK

\* Only the process that steps changes (each process has its own memory).
LEMMA BecomeOnly ==
  ASSUME TypeOK, NEW p \in Procs, NEW P, Become(p, P)
  PROVE  proc'[p] = P /\ \A q \in Procs : q # p => proc'[q] = proc[q]
BY DEF TypeOK, Become

\* Leaving the command with a status keeps the processes well typed.
LEMMA ExitType ==
  ASSUME TypeOK, NEW p \in Procs, NEW code \in {0, 1, 5}, Exit(p, code)
  PROVE  ProcsTypeOK'
<1>. DEFINE P == [Idle EXCEPT !.run = proc[p].run, !.exit = code]
<1>1. proc[p].run \in RunIds \cup {NoRun}
  BY DEF TypeOK, Process
<1>2. P \in Process /\ P.pc = "idle"
  BY <1>1, ConstantTypes DEF Process, Idle
<1>. HIDE DEF P
<1>3. Become(p, P)
  BY DEF Exit, P
<1>. QED BY <1>2, <1>3, BecomeType

\* An empty sandbox directory with no process in it is well typed.
THEOREM TypeInit == Init => TypeOK
BY ConstantTypes, ConstantsAssumption DEF Init, TypeOK, Version, Idle

\* One line per action that only moves the process.
LEMMA TypeMove ==
  ASSUME TypeOK, NEW p \in Procs,
         HashBefore(p) \/ Attack(p) \/ AttacksDone(p) \/ HashAfter(p) \/ Accept(p)
           \/ LoadReceipts(p)
  PROVE  TypeOK'
<1>. DEFINE r == proc[p].run
<1>1. SUFFICES ProcsTypeOK'
  BY DEF TypeOK, ProcsTypeOK, HashBefore, Attack, AttacksDone, HashAfter, Accept,
         LoadReceipts, environment, disk
<1>2. proc[p] \in Process /\ (proc[p].pc # "idle" => r \in RunIds)
  BY DEF TypeOK
<1>3. CASE HashBefore(p)
  <2>1. PICK f \in proc[p].todo :
          Become(p, [proc[p] EXCEPT !.before = [@ EXCEPT ![f] = source[f]], !.todo = @ \ {f}])
    BY <1>3 DEF HashBefore
  <2>2. [proc[p] EXCEPT !.before = [@ EXCEPT ![f] = source[f]], !.todo = @ \ {f}] \in Process
    BY <1>2 DEF TypeOK, Process, Tree
  <2>. QED BY <2>1, <2>2, <1>2, <1>3, BecomeType DEF HashBefore, At, Process
<1>4. CASE HashAfter(p)
  <2>1. PICK f \in proc[p].todo :
          Become(p, [proc[p] EXCEPT !.after = [@ EXCEPT ![f] = source[f]], !.todo = @ \ {f}])
    BY <1>4 DEF HashAfter
  <2>2. [proc[p] EXCEPT !.after = [@ EXCEPT ![f] = source[f]], !.todo = @ \ {f}] \in Process
    BY <1>2 DEF TypeOK, Process, Tree
  <2>. QED BY <2>1, <2>2, <1>2, <1>4, BecomeType DEF HashAfter, At, Process
<1>5. CASE Attack(p)
  <2>1. PICK c \in proc[p].plan :
          Become(p, [proc[p] EXCEPT !.seen = [@ EXCEPT ![c] = workspace[r]],
                                    !.done = @ \cup {c}])
    BY <1>5 DEF Attack
  <2>2. workspace[r] \in Tree
    BY <1>2, <1>5 DEF TypeOK, Attack, At
  <2>3. [proc[p] EXCEPT !.seen = [@ EXCEPT ![c] = workspace[r]], !.done = @ \cup {c}] \in Process
    BY <1>2, <2>2 DEF Process
  <2>. QED BY <2>1, <2>3, <1>2, <1>5, BecomeType DEF Attack, At, Process
<1>6. CASE AttacksDone(p)
  <2>1. [proc[p] EXCEPT !.pc = "hash_after", !.todo = Files] \in Process
    BY <1>2 DEF Process, ControlPoints
  <2>. QED BY <2>1, <1>2, <1>6, BecomeType DEF AttacksDone, At, Process
<1>7. CASE Accept(p)
  <2>1. [proc[p] EXCEPT !.pc = "seal", !.done = {}] \in Process
    BY <1>2 DEF Process, ControlPoints
  <2>. QED BY <2>1, <1>2, <1>7, BecomeType DEF Accept, Hashed, At, Process
<1>8. CASE LoadReceipts(p)
  <2>1. receipts[r] \in Receipts
    BY <1>2, <1>8 DEF TypeOK, LoadReceipts, At
  <2>2. [proc[p] EXCEPT !.pc = "report", !.found = receipts[r]] \in Process
    BY <1>2, <2>1 DEF Process, ControlPoints
  <2>. QED BY <2>2, <1>2, <1>8, BecomeType DEF LoadReceipts, At, Process
<1>. QED BY <1>3, <1>4, <1>5, <1>6, <1>7, <1>8

\* The actions that end the invocation.
LEMMA TypeExit ==
  ASSUME TypeOK, NEW p \in Procs,
         PreflightFails(p) \/ AttackUnsupported(p) \/ LoadFails(p) \/ WriteFailed(p)
           \/ WriteReport(p) \/ Die(p)
  PROVE  TypeOK'
<1>. DEFINE r == proc[p].run
<1>1. proc[p] \in Process /\ (proc[p].pc # "idle" => r \in RunIds)
  BY DEF TypeOK
<1>2. PICK code \in {0, 1, 5} : Exit(p, code)
  BY DEF PreflightFails, AttackUnsupported, LoadFails, WriteFailed, WriteReport, Die
<1>3. ProcsTypeOK'
  BY <1>2, ExitType
<1>4. CASE PreflightFails(p) \/ AttackUnsupported(p) \/ LoadFails(p)
  BY <1>3, <1>4 DEF TypeOK, ProcsTypeOK, PreflightFails, AttackUnsupported, LoadFails,
     environment, disk
<1>5. CASE WriteFailed(p)
  <2>1. runFile' \in [RunIds -> RunRecord]
    BY <1>1, <1>5 DEF WriteFailed, WriteRecord, TypeOK, RunRecord, Process
  <2>. QED BY <2>1, <1>3, <1>5 DEF TypeOK, ProcsTypeOK, WriteFailed, environment
<1>6. CASE WriteReport(p)
  <2>1. report' \in [RunIds -> Report]
    BY <1>1, <1>6 DEF WriteReport, TypeOK, Report, Process
  <2>. QED BY <2>1, <1>3, <1>6 DEF TypeOK, ProcsTypeOK, WriteReport, environment
<1>7. CASE Die(p)
  BY <1>3, <1>7 DEF TypeOK, ProcsTypeOK, Die, disk
<1>. QED BY <1>4, <1>5, <1>6, <1>7

\* The actions that write a file and go on.
LEMMA TypeWrite ==
  ASSUME TypeOK, NEW p \in Procs,
         ClearWorkspace(p) \/ CopyFile(p) \/ OpenRunning(p) \/ WriteRunning(p) \/ WriteExit5(p)
           \/ OpenFailed(p) \/ OpenReceipt(p) \/ SealReceipt(p) \/ WriteExit0(p)
           \/ OpenCompleted(p) \/ WriteCompleted(p) \/ OpenReport(p)
  PROVE  TypeOK'
<1>. DEFINE r == proc[p].run
<1>1. proc[p] \in Process /\ (proc[p].pc # "idle" => r \in RunIds)
  BY DEF TypeOK
<1>. USE DEF At
<1>2. ASSUME NEW pc \in ControlPoints, Become(p, [proc[p] EXCEPT !.pc = pc]),
             proc[p].pc # "idle"
      PROVE  ProcsTypeOK'
  <2>1. [proc[p] EXCEPT !.pc = pc] \in Process
    BY <1>1 DEF Process
  <2>. QED BY <2>1, <1>1, <1>2, BecomeType DEF Process
<1>3. CASE ClearWorkspace(p)
  <2>1. [proc[p] EXCEPT !.pc = "copy", !.todo = Files] \in Process
    BY <1>1 DEF Process, ControlPoints
  <2>2. ProcsTypeOK'
    BY <2>1, <1>1, <1>3, BecomeType DEF ClearWorkspace, Process
  <2>3. workspace' \in [RunIds -> Tree]
    BY <1>1, <1>3, ConstantTypes DEF ClearWorkspace, TypeOK
  <2>. QED BY <2>2, <2>3, <1>3 DEF TypeOK, ProcsTypeOK, ClearWorkspace, environment
<1>4. CASE CopyFile(p)
  <2>1. PICK f \in proc[p].todo :
          /\ workspace' = [workspace EXCEPT ![r][f] = source[f]]
          /\ Become(p, [proc[p] EXCEPT !.todo = @ \ {f}])
    BY <1>4 DEF CopyFile
  <2>2. f \in Files /\ r \in RunIds
    BY <1>1, <1>4 DEF Process, CopyFile
  <2>3. [proc[p] EXCEPT !.todo = @ \ {f}] \in Process
    BY <1>1 DEF Process
  <2>4. ProcsTypeOK'
    BY <2>1, <2>2, <2>3, <1>1, BecomeType DEF Process
  <2>5. workspace' \in [RunIds -> Tree]
    BY <2>1, <2>2 DEF TypeOK, Tree
  <2>. QED BY <2>4, <2>5, <1>4 DEF TypeOK, ProcsTypeOK, CopyFile, environment
<1>5. CASE OpenRunning(p) \/ OpenFailed(p) \/ OpenCompleted(p)
  <2>1. ProcsTypeOK'
    BY <1>2, <1>5 DEF OpenRunning, OpenFailed, OpenCompleted, ControlPoints
  <2>2. runFile' \in [RunIds -> RunRecord]
    BY <1>5, ConstantTypes DEF TypeOK, OpenRunning, OpenFailed, OpenCompleted, TruncateRecord
  <2>. QED BY <2>1, <2>2, <1>5 DEF TypeOK, ProcsTypeOK, OpenRunning, OpenFailed,
              OpenCompleted, environment
<1>6. CASE WriteRunning(p) \/ WriteCompleted(p)
  <2>1. ProcsTypeOK'
    BY <1>2, <1>6 DEF WriteRunning, WriteCompleted, ControlPoints
  <2>2. PICK status \in {"running", "completed"} : WriteRecord(p, status)
    BY <1>6 DEF WriteRunning, WriteCompleted
  <2>3. [status |-> status, attempt |-> proc[p].attempt, plan |-> proc[p].plan,
         before |-> proc[p].before] \in RunRecord
    BY <1>1 DEF RunRecord, Process
  <2>4. runFile' \in [RunIds -> RunRecord]
    BY <2>2, <2>3 DEF TypeOK, WriteRecord
  <2>. QED BY <2>1, <2>4, <1>6 DEF TypeOK, ProcsTypeOK, WriteRunning, WriteCompleted,
              environment
<1>7. CASE WriteExit5(p) \/ WriteExit0(p)
  <2>1. ProcsTypeOK'
    BY <1>2, <1>7 DEF WriteExit5, WriteExit0, Hashed, ControlPoints
  <2>. QED BY <2>1, <1>7 DEF TypeOK, ProcsTypeOK, WriteExit5, WriteExit0, environment
<1>8. CASE OpenReceipt(p)
  <2>1. PICK c \in proc[p].plan :
          /\ receipts' = [receipts EXCEPT ![r][c] = TornReceipt]
          /\ Become(p, [proc[p] EXCEPT !.cur = {c}])
    BY <1>8 DEF OpenReceipt
  <2>2. c \in Cases /\ r \in RunIds
    BY <1>1, <1>8 DEF Process, OpenReceipt
  <2>3. [proc[p] EXCEPT !.cur = {c}] \in Process
    BY <1>1, <2>2 DEF Process
  <2>4. ProcsTypeOK'
    BY <2>1, <2>2, <2>3, <1>1, BecomeType DEF Process
  <2>5. receipts' \in [RunIds -> Receipts]
    BY <2>1, <2>2, ConstantTypes DEF TypeOK, Receipts
  <2>. QED BY <2>4, <2>5, <1>8 DEF TypeOK, ProcsTypeOK, OpenReceipt, environment
<1>9. CASE SealReceipt(p)
  <2>. DEFINE sealed(c) == [state |-> "sealed", attempt |-> proc[p].attempt,
                            seen |-> proc[p].seen[c]]
  <2>1. PICK c \in proc[p].cur :
          /\ receipts' = [receipts EXCEPT ![r][c] = sealed(c)]
          /\ Become(p, [proc[p] EXCEPT !.cur = {}, !.done = @ \cup {c}])
    BY <1>9 DEF SealReceipt
  <2>2. c \in Cases /\ r \in RunIds /\ sealed(c) \in Receipt
    BY <1>1, <1>9 DEF Process, SealReceipt, Receipt
  <2>3. [proc[p] EXCEPT !.cur = {}, !.done = @ \cup {c}] \in Process
    BY <1>1, <2>2 DEF Process
  <2>4. ProcsTypeOK'
    BY <2>1, <2>2, <2>3, <1>1, BecomeType DEF Process
  <2>5. receipts' \in [RunIds -> Receipts]
    BY <2>1, <2>2 DEF TypeOK, Receipts
  <2>. QED BY <2>4, <2>5, <1>9 DEF TypeOK, ProcsTypeOK, SealReceipt, environment
<1>10. CASE OpenReport(p)
  <2>1. "write_report" \in ControlPoints
    BY DEF ControlPoints
  <2>2. ProcsTypeOK'
    BY <2>1, <1>2, <1>10 DEF OpenReport
  <2>3. report' \in [RunIds -> Report]
    BY <1>1, <1>10, ConstantTypes DEF OpenReport, TypeOK
  <2>. QED BY <2>2, <2>3, <1>10 DEF TypeOK, ProcsTypeOK, OpenReport, environment
<1>. QED BY <1>3, <1>4, <1>5, <1>6, <1>7, <1>8, <1>9, <1>10

\* Giving a process a run id and a plan keeps the types.
LEMMA TypeStart ==
  ASSUME TypeOK, NEW p \in Procs, NEW r \in RunIds, NEW plan \in Plans, Start(p, r, plan)
  PROVE  TypeOK'
<1>. DEFINE P == [Idle EXCEPT !.pc = "hash_before", !.run = r, !.plan = plan,
                              !.attempt = attempts + 1, !.todo = Files]
<1>1. P \in Process /\ P.run = r
  <2>1. plan \in SUBSET Cases /\ attempts + 1 \in Nat /\ "hash_before" \in ControlPoints
    BY ConstantsAssumption DEF TypeOK, ControlPoints
  <2>. QED BY <2>1, ConstantTypes DEF Process
<1>2. Become(p, P)
  BY DEF Start
<1>. HIDE DEF P
<1>3. ProcsTypeOK'
  BY <1>1, <1>2, BecomeType
<1>. QED BY <1>3 DEF TypeOK, ProcsTypeOK, Start, disk

\* An edit of the source gives a file a version within the bound.
LEMMA TypeEdit == TypeOK /\ Edit => TypeOK'
<1>. SUFFICES ASSUME TypeOK, Edit PROVE TypeOK'
  OBVIOUS
<1>0. edits \in Nat /\ edits + 1 \in 0..(edits + 1)
  BY ConstantsAssumption DEF TypeOK, Version
<1>1. PICK f \in Files, v \in 0..(edits + 1) : source' = [source EXCEPT ![f] = v]
  <2>1. CASE Restores
    BY <2>1 DEF Edit
  <2>2. CASE ~Restores
    BY <1>0, <2>2 DEF Edit
  <2>. QED BY <2>1, <2>2
<1>2. v \in Version
  BY ConstantsAssumption DEF Edit, TypeOK, Version
<1>. QED BY <1>1, <1>2, ConstantsAssumption DEF TypeOK, Edit, Version, disk

\* Every step keeps the types.
LEMMA TypeNext == TypeOK /\ [Next]_vars => TypeOK'
<1>. SUFFICES ASSUME TypeOK, [Next]_vars PROVE TypeOK'
  OBVIOUS
<1>1. ASSUME NEW p \in Procs, Step(p) PROVE TypeOK'
  BY <1>1, TypeMove, TypeExit, TypeWrite DEF Step
<1>2. CASE UNCHANGED vars
  BY <1>2 DEF TypeOK, vars, environment, disk
<1>. QED BY <1>1, <1>2, TypeEdit, TypeStart, TypeExit DEF Next

(***************************************************************************)
(* Every variable, and every field of every process, file and record, keeps *)
(* its type in every reachable state.                                       *)
(***************************************************************************)
THEOREM TypeCorrect == Spec => []TypeOK
BY TypeInit, TypeNext, PTL DEF Spec

-----------------------------------------------------------------------------
(* What a step of one process leaves alone.                                 *)

\* The process that ends keeps only its run id and exit status.
LEMMA ExitIdle ==
  ASSUME TypeOK, NEW p \in Procs, NEW code, Exit(p, code)
  PROVE  /\ proc'[p].pc = "idle" /\ proc'[p].run = proc[p].run
         /\ proc'[p].before = NoTree /\ proc'[p].cur = {}
<1>. DEFINE P == [Idle EXCEPT !.run = proc[p].run, !.exit = code]
<1>1. P.pc = "idle" /\ P.run = proc[p].run /\ P.before = NoTree /\ P.cur = {}
  BY DEF Idle
<1>2. Become(p, P)
  BY DEF Exit
<1>. HIDE DEF P
<1>. QED BY <1>1, <1>2, BecomeOnly

Exits(p) ==
  PreflightFails(p) \/ AttackUnsupported(p) \/ LoadFails(p) \/ WriteFailed(p)
    \/ WriteReport(p) \/ Die(p)

\* A step of a process touches that process and the files of its run id.
LEMMA Frame ==
  ASSUME TypeOK, NEW p \in Procs, Step(p) \/ Die(p)
  PROVE  /\ proc[p].pc # "idle" /\ proc[p].run \in RunIds /\ proc'[p].run = proc[p].run
         /\ \A q \in Procs : q # p => proc'[q] = proc[q]
         /\ \A r \in RunIds : r # proc[p].run =>
              runFile'[r] = runFile[r] /\ receipts'[r] = receipts[r] /\ workspace'[r] = workspace[r]
         /\ source' = source /\ edits' = edits /\ used' = used
<1>1. proc[p].pc # "idle"
  BY DEF Step, Die, At, Hashed, HashBefore, PreflightFails, ClearWorkspace, CopyFile,
     OpenRunning, WriteRunning, Attack, AttackUnsupported, AttacksDone, HashAfter,
     WriteExit5, OpenFailed, WriteFailed, Accept, OpenReceipt, SealReceipt, WriteExit0,
     OpenCompleted, WriteCompleted, LoadFails, LoadReceipts, OpenReport, WriteReport
<1>2. proc[p].run \in RunIds /\ proc[p] \in Process
  BY <1>1 DEF TypeOK
<1>3. proc'[p].run = proc[p].run
  <2>1. CASE Exits(p)
    BY <2>1, ExitIdle DEF Exits, PreflightFails, AttackUnsupported, LoadFails, WriteFailed,
       WriteReport, Die
  <2>2. CASE HashBefore(p)
    BY <2>2, <1>2 DEF HashBefore, TypeOK, Become, Process
  <2>3. CASE HashAfter(p)
    BY <2>3, <1>2 DEF HashAfter, TypeOK, Become, Process
  <2>4. CASE Attack(p)
    BY <2>4, <1>2 DEF Attack, TypeOK, Become, Process
  <2>5. CASE CopyFile(p)
    BY <2>5, <1>2 DEF CopyFile, TypeOK, Become, Process
  <2>6. CASE OpenReceipt(p)
    BY <2>6, <1>2 DEF OpenReceipt, TypeOK, Become, Process
  <2>7. CASE SealReceipt(p)
    BY <2>7, <1>2 DEF SealReceipt, TypeOK, Become, Process
  <2>8. CASE ClearWorkspace(p)
    BY <2>8, <1>2 DEF ClearWorkspace, TypeOK, Become, Process
  <2>9. CASE AttacksDone(p)
    BY <2>9, <1>2 DEF AttacksDone, TypeOK, Become, Process
  <2>10. CASE Accept(p)
    BY <2>10, <1>2 DEF Accept, TypeOK, Become, Process
  <2>11. CASE LoadReceipts(p)
    BY <2>11, <1>2 DEF LoadReceipts, TypeOK, Become, Process
  <2>12. CASE OpenRunning(p)
    BY <2>12, <1>2 DEF OpenRunning, TypeOK, Become, Process
  <2>13. CASE WriteRunning(p)
    BY <2>13, <1>2 DEF WriteRunning, TypeOK, Become, Process
  <2>14. CASE WriteExit5(p)
    BY <2>14, <1>2 DEF WriteExit5, TypeOK, Become, Process
  <2>15. CASE OpenFailed(p)
    BY <2>15, <1>2 DEF OpenFailed, TypeOK, Become, Process
  <2>16. CASE WriteExit0(p)
    BY <2>16, <1>2 DEF WriteExit0, TypeOK, Become, Process
  <2>17. CASE OpenCompleted(p)
    BY <2>17, <1>2 DEF OpenCompleted, TypeOK, Become, Process
  <2>18. CASE WriteCompleted(p)
    BY <2>18, <1>2 DEF WriteCompleted, TypeOK, Become, Process
  <2>19. CASE OpenReport(p)
    BY <2>19, <1>2 DEF OpenReport, TypeOK, Become, Process
  <2>. QED BY <2>1, <2>2, <2>3, <2>4, <2>5, <2>6, <2>7, <2>8, <2>9, <2>10, <2>11, <2>12, <2>13, <2>14, <2>15, <2>16, <2>17, <2>18, <2>19 DEF Step, Exits
<1>4. \A r \in RunIds : r # proc[p].run =>
        runFile'[r] = runFile[r] /\ receipts'[r] = receipts[r] /\ workspace'[r] = workspace[r]
  BY DEF TypeOK, Step, Die, disk, HashBefore, PreflightFails, ClearWorkspace, CopyFile,
     OpenRunning, WriteRunning, Attack, AttackUnsupported, AttacksDone, HashAfter,
     WriteExit5, OpenFailed, WriteFailed, Accept, OpenReceipt, SealReceipt, WriteExit0,
     OpenCompleted, WriteCompleted, LoadFails, LoadReceipts, OpenReport, WriteReport,
     TruncateRecord, WriteRecord
<1>5. source' = source /\ edits' = edits /\ used' = used
  BY DEF Step, Die, environment, HashBefore, PreflightFails, ClearWorkspace, CopyFile,
     OpenRunning, WriteRunning, Attack, AttackUnsupported, AttacksDone, HashAfter,
     WriteExit5, OpenFailed, WriteFailed, Accept, OpenReceipt, SealReceipt, WriteExit0,
     OpenCompleted, WriteCompleted, LoadFails, LoadReceipts, OpenReport, WriteReport
<1>6. \A q \in Procs : q # p => proc'[q] = proc[q]
  BY DEF TypeOK, Become, Exit, Step, Die, HashBefore, PreflightFails, ClearWorkspace,
     CopyFile, OpenRunning, WriteRunning, Attack, AttackUnsupported, AttacksDone, HashAfter,
     WriteExit5, OpenFailed, WriteFailed, Accept, OpenReceipt, SealReceipt, WriteExit0,
     OpenCompleted, WriteCompleted, LoadFails, LoadReceipts, OpenReport, WriteReport
<1>. QED BY <1>1, <1>2, <1>3, <1>4, <1>5, <1>6

-----------------------------------------------------------------------------
(* The order of the writes.                                                 *)

\* Run ids are not shared by two invocations at the same time.
NotShared == Reuse # "shared"

\* Without shared run ids no step brings two invocations to one run id: an
\* invocation starts with an id that no live one has and keeps it.
LEMMA OneWriterNext ==
  ASSUME NotShared, TypeOK, OneWriter, [Next]_vars
  PROVE  OneWriter'
<1>1. ASSUME NEW p \in Procs, Step(p) \/ Die(p) PROVE OneWriter'
  BY <1>1, Frame DEF OneWriter
<1>2. ASSUME NEW p \in Procs, NEW r \in RunIds, NEW plan \in Plans, Start(p, r, plan)
      PROVE  OneWriter'
  <2>. DEFINE P == [Idle EXCEPT !.pc = "hash_before", !.run = r, !.plan = plan,
                                !.attempt = attempts + 1, !.todo = Files]
  <2>1. P.run = r
    BY DEF Idle
  <2>2. Become(p, P)
    BY <1>2 DEF Start
  <2>. HIDE DEF P
  <2>3. proc'[p].run = r /\ \A q \in Procs : q # p => proc'[q] = proc[q]
    BY <2>1, <2>2, BecomeOnly
  <2>4. used' = used \cup {r}
    BY <1>2 DEF Start
  <2>5. \A q \in Procs : proc[q].pc # "idle" => proc[q].run # r
    BY <1>2 DEF Start, MayUse, Live, NotShared, OneWriter
  <2>. QED BY <2>3, <2>4, <2>5 DEF OneWriter
<1>3. CASE Edit \/ UNCHANGED vars
  BY <1>3 DEF OneWriter, Edit, vars, environment
<1>. QED BY <1>1, <1>2, <1>3 DEF Next

CompletedHasEvidence(r) ==
  runFile[r].status = "completed" =>
    \A c \in Plan(r) : Sealed(r, c) /\ receipts[r][c].attempt = runFile[r].attempt

\* The process that takes the step, and the run id it works on.
LEMMA OwnOrder ==
  ASSUME TypeOK, NEW p \in Procs, InOrder(p), CompletedHasEvidence(proc[p].run),
         Step(p) \/ Die(p)
  PROVE  InOrder(p)' /\ CompletedHasEvidence(proc[p].run)'
<1>. DEFINE r == proc[p].run
<1>0. proc[p] \in Process /\ r \in RunIds /\ proc'[p].run = r
  BY Frame DEF TypeOK
<1>1. CASE PreflightFails(p) \/ AttackUnsupported(p) \/ LoadFails(p) \/ WriteReport(p) \/ Die(p)
  <2>1. proc'[p].pc = "idle"
    BY <1>1, ExitIdle DEF PreflightFails, AttackUnsupported, LoadFails, WriteReport, Die
  <2>2. UNCHANGED <<runFile, receipts>>
    BY <1>1 DEF PreflightFails, AttackUnsupported, LoadFails, WriteReport, Die, disk
  <2>. QED BY <2>1, <2>2, <1>0 DEF InOrder, At, CompletedHasEvidence, Plan, Sealed
<1>2. CASE WriteFailed(p)
  <2>1. proc'[p].pc = "idle"
    BY <1>2, ExitIdle DEF WriteFailed
  <2>2. runFile'[r].status = "failed"
    BY <1>0, <1>2 DEF WriteFailed, WriteRecord, TypeOK
  <2>. QED BY <2>1, <2>2, <1>0 DEF InOrder, At, CompletedHasEvidence
<1>3. CASE HashBefore(p)
  BY <1>0, <1>3 DEF HashBefore, TypeOK, Become, Process, At, disk, InOrder,
     CompletedHasEvidence, Plan, Sealed
<1>4. CASE ClearWorkspace(p)
  BY <1>0, <1>4 DEF ClearWorkspace, TypeOK, Become, Process, At, InOrder,
     CompletedHasEvidence, Plan, Sealed
<1>5. CASE CopyFile(p)
  BY <1>0, <1>5 DEF CopyFile, TypeOK, Become, Process, At, InOrder,
     CompletedHasEvidence, Plan, Sealed
<1>6. CASE OpenRunning(p)
  BY <1>0, <1>6 DEF OpenRunning, TruncateRecord, TornRecord, NoRecord, TypeOK, Become,
     Process, At, InOrder, CompletedHasEvidence
<1>7. CASE WriteRunning(p)
  BY <1>0, <1>7 DEF WriteRunning, WriteRecord, TypeOK, Become, Process, At, InOrder,
     CompletedHasEvidence
<1>8. CASE Attack(p)
  BY <1>0, <1>8 DEF Attack, TypeOK, Become, Process, At, disk, InOrder,
     CompletedHasEvidence
<1>9. CASE AttacksDone(p)
  BY <1>0, <1>9 DEF AttacksDone, TypeOK, Become, Process, At, disk, InOrder,
     CompletedHasEvidence
<1>10. CASE HashAfter(p)
  BY <1>0, <1>10 DEF HashAfter, TypeOK, Become, Process, At, disk, InOrder,
     CompletedHasEvidence
<1>11. CASE WriteExit5(p)
  BY <1>0, <1>11 DEF WriteExit5, Hashed, TypeOK, Become, Process, At, InOrder,
     CompletedHasEvidence
<1>12. CASE OpenFailed(p)
  BY <1>0, <1>12 DEF OpenFailed, TruncateRecord, TornRecord, NoRecord, TypeOK, Become,
     Process, At, InOrder, CompletedHasEvidence
<1>13. CASE Accept(p)
  BY <1>0, <1>13 DEF Accept, Hashed, TypeOK, Become, Process, At, disk, InOrder,
     CompletedHasEvidence
<1>14. CASE OpenReceipt(p)
  <2>1. PICK c \in proc[p].plan \ proc[p].done :
          /\ receipts' = [receipts EXCEPT ![r][c] = TornReceipt]
          /\ Become(p, [proc[p] EXCEPT !.cur = {c}])
    BY <1>14 DEF OpenReceipt
  <2>2. proc'[p].pc = "seal" /\ proc'[p].done = proc[p].done
          /\ proc'[p].attempt = proc[p].attempt /\ runFile' = runFile
    BY <1>0, <1>14, <2>1 DEF OpenReceipt, TypeOK, Become, Process, At
  <2>3. \A d \in proc[p].done : receipts'[r][d] = receipts[r][d]
    BY <1>0, <2>1 DEF TypeOK, Process, Receipts
  <2>. QED BY <1>0, <1>14, <2>2, <2>3 DEF InOrder, SealedBy, Sealed, At, OpenReceipt,
              CompletedHasEvidence
<1>15. CASE SealReceipt(p)
  <2>1. PICK c \in proc[p].cur :
          /\ receipts' = [receipts EXCEPT ![r][c] =
                            [state |-> "sealed", attempt |-> proc[p].attempt,
                             seen |-> proc[p].seen[c]]]
          /\ Become(p, [proc[p] EXCEPT !.cur = {}, !.done = @ \cup {c}])
    BY <1>15 DEF SealReceipt
  <2>2. proc'[p].pc = "seal" /\ proc'[p].done = proc[p].done \cup {c}
          /\ proc'[p].attempt = proc[p].attempt /\ runFile' = runFile
    BY <1>0, <1>15, <2>1 DEF SealReceipt, TypeOK, Become, Process, At
  <2>3. /\ \A d \in proc[p].done : d # c => receipts'[r][d] = receipts[r][d]
        /\ receipts'[r][c].state = "sealed" /\ receipts'[r][c].attempt = proc[p].attempt
    BY <1>0, <2>1 DEF TypeOK, Process, Receipts
  <2>. QED BY <1>0, <1>15, <2>2, <2>3 DEF InOrder, SealedBy, Sealed, At, SealReceipt,
              CompletedHasEvidence
<1>16. CASE WriteExit0(p)
  BY <1>0, <1>16 DEF WriteExit0, TypeOK, Become, Process, At, InOrder, SealedBy, Sealed,
     CompletedHasEvidence
<1>17. CASE OpenCompleted(p)
  BY <1>0, <1>17 DEF OpenCompleted, TruncateRecord, TornRecord, NoRecord, TypeOK, Become,
     Process, At, InOrder, SealedBy, Sealed, CompletedHasEvidence
<1>18. CASE WriteCompleted(p)
  BY <1>0, <1>18 DEF WriteCompleted, WriteRecord, TypeOK, Become, Process, At, InOrder,
     SealedBy, Sealed, CompletedHasEvidence, Plan
<1>19. CASE LoadReceipts(p)
  BY <1>0, <1>19 DEF LoadReceipts, TypeOK, Become, Process, At, disk, InOrder,
     CompletedHasEvidence, Plan, Sealed
<1>20. CASE OpenReport(p)
  BY <1>0, <1>20 DEF OpenReport, TypeOK, Become, Process, At, InOrder,
     CompletedHasEvidence, Plan, Sealed
<1>. QED BY <1>1, <1>2, <1>3, <1>4, <1>5, <1>6, <1>7, <1>8, <1>9, <1>10, <1>11, <1>12,
            <1>13, <1>14, <1>15, <1>16, <1>17, <1>18, <1>19, <1>20 DEF Step

\* What an invocation starts with, and what it leaves as it was.
LEMMA StartState ==
  ASSUME TypeOK, NEW p \in Procs, NEW r \in RunIds, NEW plan \in Plans, Start(p, r, plan)
  PROVE  /\ proc'[p].pc = "hash_before" /\ proc'[p].run = r
         /\ proc'[p].before = NoTree /\ proc'[p].cur = {} /\ proc'[p].done = {}
         /\ \A q \in Procs : q # p => proc'[q] = proc[q]
<1>. DEFINE P == [Idle EXCEPT !.pc = "hash_before", !.run = r, !.plan = plan,
                              !.attempt = attempts + 1, !.todo = Files]
<1>1. P.pc = "hash_before" /\ P.run = r /\ P.before = NoTree /\ P.cur = {} /\ P.done = {}
  BY DEF Idle
<1>2. Become(p, P)
  BY DEF Start
<1>. HIDE DEF P
<1>. QED BY <1>1, <1>2, BecomeOnly

\* The empty directory satisfies the ordering invariant.
LEMMA OrderInit == Init => OrderInv
BY DEF Init, Idle, OrderInv, OneWriter, InOrder, At, CompletedRunHasItsEvidence, NoRecord

\* Every step keeps the order of the writes: the record first made not final,
\* then the receipts, and the final record last.
LEMMA OrderNext ==
  ASSUME NotShared, TypeOK, OrderInv, [Next]_vars
  PROVE  OrderInv'
<1>1. OneWriter'
  BY OneWriterNext DEF OrderInv
<1>2. ASSUME NEW p \in Procs, Step(p) \/ Die(p)
      PROVE  (\A q \in Procs : InOrder(q)') /\ CompletedRunHasItsEvidence'
  <2>. DEFINE r == proc[p].run
  <2>1. InOrder(p)' /\ CompletedHasEvidence(r)'
    <3>1. CompletedHasEvidence(r) /\ InOrder(p)
      BY <1>2, Frame DEF OrderInv, CompletedRunHasItsEvidence, CompletedHasEvidence
    <3>. QED BY <1>2, <3>1, OwnOrder
  <2>2. ASSUME NEW q \in Procs, q # p PROVE InOrder(q)'
    <3>1. proc'[q] = proc[q]
      BY <1>2, <2>2, Frame
    <3>2. CASE proc[q].pc = "idle"
      BY <3>1, <3>2 DEF InOrder, At
    <3>3. CASE proc[q].pc # "idle"
      <4>1. proc[q].run \in RunIds /\ proc[q].run # r
        BY <1>2, <2>2, <3>3, Frame DEF OrderInv, OneWriter, TypeOK
      <4>2. runFile'[proc[q].run] = runFile[proc[q].run]
              /\ receipts'[proc[q].run] = receipts[proc[q].run]
        BY <1>2, <4>1, Frame
      <4>. QED BY <3>1, <4>2 DEF OrderInv, InOrder, SealedBy, Sealed, At
    <3>. QED BY <3>2, <3>3
  <2>3. ASSUME NEW s \in RunIds PROVE CompletedHasEvidence(s)'
    <3>1. CASE s = r
      BY <2>1, <3>1, Frame, <1>2 DEF CompletedHasEvidence
    <3>2. CASE s # r
      <4>1. runFile'[s] = runFile[s] /\ receipts'[s] = receipts[s]
        BY <1>2, <3>2, Frame
      <4>. QED BY <4>1 DEF OrderInv, CompletedRunHasItsEvidence, CompletedHasEvidence,
                  Plan, Sealed
    <3>. QED BY <3>1, <3>2
  <2>. QED BY <2>1, <2>2, <2>3 DEF CompletedRunHasItsEvidence, CompletedHasEvidence
<1>3. ASSUME NEW p \in Procs, NEW r \in RunIds, NEW plan \in Plans, Start(p, r, plan)
      PROVE  (\A q \in Procs : InOrder(q)') /\ CompletedRunHasItsEvidence'
  <2>1. UNCHANGED <<runFile, receipts>>
    BY <1>3 DEF Start, disk
  <2>2. proc'[p].pc = "hash_before" /\ \A q \in Procs : q # p => proc'[q] = proc[q]
    BY <1>3, StartState
  <2>. QED BY <2>1, <2>2 DEF OrderInv, InOrder, At, SealedBy, Sealed, Plan,
              CompletedRunHasItsEvidence
<1>4. CASE Edit \/ UNCHANGED vars
  <2>1. UNCHANGED <<runFile, receipts, proc>>
    BY <1>4 DEF Edit, vars, disk
  <2>. QED BY <1>1, <2>1 DEF OrderInv, InOrder, At, SealedBy, Sealed, Plan,
              CompletedRunHasItsEvidence
<1>. QED BY <1>1, <1>2, <1>3, <1>4 DEF Next, OrderInv

(***************************************************************************)
(* Whoever reads a completed record finds every receipt it counts, sealed   *)
(* by that very attempt, whatever crashed before and however often the run  *)
(* id was used, unless two invocations use it at the same time.             *)
(***************************************************************************)
THEOREM CompletedEvidence ==
  ASSUME NotShared
  PROVE  Spec => []CompletedRunHasItsEvidence
<1>1. Init => TypeOK /\ OrderInv
  BY TypeInit, OrderInit
<1>2. TypeOK /\ OrderInv /\ [Next]_vars => (TypeOK /\ OrderInv)'
  BY TypeNext, OrderNext
<1>3. OrderInv => CompletedRunHasItsEvidence
  BY DEF OrderInv
<1>. QED BY <1>1, <1>2, <1>3, PTL DEF Spec

-----------------------------------------------------------------------------
(* The tree the evidence is about.                                          *)

ObservedOnRecordedTree(r) ==
  runFile[r].status = "completed" => \A c \in Plan(r) : receipts[r][c].seen = runFile[r].before

\* An equal second hash squeezes the copy between two equal trees.
LEMMA Squeeze ==
  ASSUME NEW before \in Tree, NEW copy \in Tree,
         \A f \in Files : before[f] <= copy[f] /\ copy[f] <= before[f]
  PROVE  copy = before
BY ConstantsAssumption DEF Tree, Version, Gone

\* The step of a process keeps the squeeze between its two hashes for the
\* process itself and for the run it works on.
LEMMA OwnTree ==
  ASSUME TypeOK, NEW p \in Procs, InOrder(p), Sandwiched(p),
         ObservedOnRecordedTree(proc[p].run), Step(p) \/ Die(p)
  PROVE  Sandwiched(p)' /\ ObservedOnRecordedTree(proc[p].run)'
<1>. DEFINE r == proc[p].run
<1>0. proc[p] \in Process /\ r \in RunIds /\ proc'[p].run = r /\ source' = source
  BY Frame DEF TypeOK
<1>a. \A f \in Files : source[f] \in Nat /\ Gone <= source[f] /\ NoTree[f] = Gone
  BY ConstantsAssumption DEF TypeOK, Version, Gone, NoTree
<1>. USE DEF Sandwiched, ObservedOnRecordedTree
<1>1. CASE PreflightFails(p) \/ AttackUnsupported(p) \/ LoadFails(p) \/ WriteReport(p) \/ Die(p)
  <2>1. proc'[p].pc = "idle" /\ proc'[p].before = NoTree /\ proc'[p].cur = {}
    BY <1>1, ExitIdle DEF PreflightFails, AttackUnsupported, LoadFails, WriteReport, Die
  <2>2. UNCHANGED <<runFile, receipts>>
    BY <1>1 DEF PreflightFails, AttackUnsupported, LoadFails, WriteReport, Die, disk
  <2>. QED BY <2>1, <2>2, <1>0, <1>a DEF Plan
<1>2. CASE WriteFailed(p)
  <2>1. proc'[p].pc = "idle" /\ proc'[p].before = NoTree /\ proc'[p].cur = {}
    BY <1>2, ExitIdle DEF WriteFailed
  <2>2. runFile'[r].status = "failed"
    BY <1>0, <1>2 DEF WriteFailed, WriteRecord, TypeOK
  <2>. QED BY <2>1, <2>2, <1>0, <1>a
<1>3. CASE HashBefore(p)
  <2>1. PICK f \in proc[p].todo :
          Become(p, [proc[p] EXCEPT !.before = [@ EXCEPT ![f] = source[f]], !.todo = @ \ {f}])
    BY <1>3 DEF HashBefore
  <2>2. /\ proc'[p].pc = "hash_before" /\ proc'[p].cur = proc[p].cur /\ proc'[p].done = proc[p].done
        /\ proc'[p].before = [proc[p].before EXCEPT ![f] = source[f]]
    BY <1>0, <1>3, <2>1 DEF HashBefore, TypeOK, Become, Process, At
  <2>3. \A g \in Files : proc'[p].before[g] <= source[g]
    BY <1>0, <1>a, <2>2 DEF Process, Tree
  <2>4. UNCHANGED <<runFile, receipts>>
    BY <1>3 DEF HashBefore, disk
  <2>. QED BY <1>0, <1>3, <2>2, <2>3, <2>4 DEF HashBefore, At, Plan
<1>4. CASE ClearWorkspace(p)
  <2>1. /\ proc'[p].pc = "copy" /\ proc'[p].todo = Files /\ proc'[p].cur = proc[p].cur /\ proc'[p].done = proc[p].done
        /\ proc'[p].before = proc[p].before
    BY <1>0, <1>4 DEF ClearWorkspace, TypeOK, Become, Process, At
  <2>. QED BY <1>0, <1>4, <2>1 DEF ClearWorkspace, At, Plan
<1>5. CASE CopyFile(p)
  <2>1. PICK f \in proc[p].todo :
          /\ workspace' = [workspace EXCEPT ![r][f] = source[f]]
          /\ Become(p, [proc[p] EXCEPT !.todo = @ \ {f}])
    BY <1>5 DEF CopyFile
  <2>2. /\ proc'[p].pc = "copy" /\ proc'[p].todo = proc[p].todo \ {f}
        /\ proc'[p].cur = proc[p].cur /\ proc'[p].done = proc[p].done
        /\ proc'[p].before = proc[p].before
    BY <1>0, <1>5, <2>1 DEF CopyFile, TypeOK, Become, Process, At
  <2>3. \A g \in Files : workspace'[r][g] = IF g = f THEN source[g] ELSE workspace[r][g]
    BY <1>0, <2>1 DEF TypeOK, Tree
  <2>4. \A g \in Files \ proc'[p].todo :
          proc'[p].before[g] <= workspace'[r][g] /\ workspace'[r][g] <= source[g]
    BY <1>0, <1>5, <1>a, <2>2, <2>3 DEF CopyFile, At
  <2>. QED BY <1>0, <1>5, <2>2, <2>4 DEF CopyFile, At, Plan
<1>6. CASE OpenRunning(p)
  BY <1>0, <1>6 DEF OpenRunning, TruncateRecord, TornRecord, NoRecord, TypeOK, Become,
     Process, At
<1>7. CASE WriteRunning(p)
  BY <1>0, <1>7 DEF WriteRunning, WriteRecord, TypeOK, Become, Process, At
<1>8. CASE Attack(p)
  <2>1. PICK c \in proc[p].plan :
          Become(p, [proc[p] EXCEPT !.seen = [@ EXCEPT ![c] = workspace[r]], !.done = @ \cup {c}])
    BY <1>8 DEF Attack
  <2>2. /\ proc'[p].pc = "attack" /\ proc'[p].cur = proc[p].cur
        /\ proc'[p].before = proc[p].before /\ proc'[p].done = proc[p].done \cup {c}
        /\ proc'[p].seen = [proc[p].seen EXCEPT ![c] = workspace[r]]
        /\ UNCHANGED <<workspace, runFile>>
    BY <1>0, <1>8, <2>1 DEF Attack, TypeOK, Become, Process, At, disk
  <2>3. \A d \in proc'[p].done : proc'[p].seen[d] = workspace[r]
    BY <1>0, <1>8, <2>2 DEF Attack, At, Process
  <2>. QED BY <1>0, <1>8, <2>2, <2>3 DEF Attack, At, InOrder
<1>9. CASE AttacksDone(p)
  BY <1>0, <1>9 DEF AttacksDone, TypeOK, Become, Process, At, disk, InOrder
<1>10. CASE HashAfter(p)
  <2>1. PICK f \in proc[p].todo :
          Become(p, [proc[p] EXCEPT !.after = [@ EXCEPT ![f] = source[f]], !.todo = @ \ {f}])
    BY <1>10 DEF HashAfter
  <2>2. /\ proc'[p].pc = "hash_after" /\ proc'[p].cur = proc[p].cur
        /\ proc'[p].before = proc[p].before /\ proc'[p].todo = proc[p].todo \ {f}
        /\ proc'[p].plan = proc[p].plan /\ proc'[p].seen = proc[p].seen
        /\ proc'[p].after = [proc[p].after EXCEPT ![f] = source[f]]
        /\ UNCHANGED <<workspace, runFile>>
    BY <1>0, <1>10, <2>1 DEF HashAfter, TypeOK, Become, Process, At, disk
  <2>3. \A g \in Files \ proc'[p].todo : workspace[r][g] <= proc'[p].after[g]
    BY <1>0, <1>10, <2>2 DEF HashAfter, At, Process, Tree
  <2>. QED BY <1>0, <1>10, <2>2, <2>3 DEF HashAfter, At, InOrder
<1>11. CASE WriteExit5(p)
  BY <1>0, <1>11 DEF WriteExit5, Hashed, TypeOK, Become, Process, At, InOrder
<1>12. CASE OpenFailed(p)
  BY <1>0, <1>12 DEF OpenFailed, TruncateRecord, TornRecord, NoRecord, TypeOK, Become,
     Process, At
<1>13. CASE Accept(p)
  <2>1. workspace[r] = proc[p].before
    BY <1>0, <1>13, Squeeze DEF Accept, Hashed, Mutated, At, TypeOK, Process
  <2>. QED BY <1>0, <1>13, <2>1 DEF Accept, Hashed, TypeOK, Become, Process, At, disk, InOrder
<1>14. CASE OpenReceipt(p)
  <2>1. PICK c \in proc[p].plan \ proc[p].done :
          /\ receipts' = [receipts EXCEPT ![r][c] = TornReceipt]
          /\ Become(p, [proc[p] EXCEPT !.cur = {c}])
    BY <1>14 DEF OpenReceipt
  <2>2. /\ proc'[p].pc = "seal" /\ proc'[p].done = proc[p].done /\ proc'[p].cur = {c}
        /\ proc'[p].before = proc[p].before /\ proc'[p].seen = proc[p].seen
        /\ proc'[p].plan = proc[p].plan /\ runFile' = runFile
    BY <1>0, <1>14, <2>1 DEF OpenReceipt, TypeOK, Become, Process, At
  <2>3. \A d \in proc[p].done : receipts'[r][d] = receipts[r][d]
    BY <1>0, <2>1 DEF TypeOK, Process, Receipts
  <2>. QED BY <1>0, <1>14, <2>1, <2>2, <2>3 DEF InOrder, At, OpenReceipt
<1>15. CASE SealReceipt(p)
  <2>1. PICK c \in proc[p].cur :
          /\ receipts' = [receipts EXCEPT ![r][c] =
                            [state |-> "sealed", attempt |-> proc[p].attempt,
                             seen |-> proc[p].seen[c]]]
          /\ Become(p, [proc[p] EXCEPT !.cur = {}, !.done = @ \cup {c}])
    BY <1>15 DEF SealReceipt
  <2>2. /\ proc'[p].pc = "seal" /\ proc'[p].done = proc[p].done \cup {c} /\ proc'[p].cur = {}
        /\ proc'[p].before = proc[p].before /\ proc'[p].seen = proc[p].seen
        /\ proc'[p].plan = proc[p].plan /\ runFile' = runFile
    BY <1>0, <1>15, <2>1 DEF SealReceipt, TypeOK, Become, Process, At
  <2>3. /\ \A d \in proc[p].done : d # c => receipts'[r][d] = receipts[r][d]
        /\ receipts'[r][c].seen = proc[p].seen[c]
    BY <1>0, <2>1 DEF TypeOK, Process, Receipts
  <2>4. proc[p].seen[c] = proc[p].before
    BY <1>15, <2>1 DEF SealReceipt, At
  <2>. QED BY <1>0, <1>15, <2>2, <2>3, <2>4 DEF InOrder, At, SealReceipt
<1>16. CASE WriteExit0(p)
  BY <1>0, <1>16 DEF WriteExit0, TypeOK, Become, Process, At, InOrder
<1>17. CASE OpenCompleted(p)
  BY <1>0, <1>17 DEF OpenCompleted, TruncateRecord, TornRecord, NoRecord, TypeOK, Become,
     Process, At
<1>18. CASE WriteCompleted(p)
  BY <1>0, <1>18 DEF WriteCompleted, WriteRecord, TypeOK, Become, Process, At, Plan
<1>19. CASE LoadReceipts(p)
  BY <1>0, <1>19 DEF LoadReceipts, TypeOK, Become, Process, At, disk, Plan
<1>20. CASE OpenReport(p)
  BY <1>0, <1>20 DEF OpenReport, TypeOK, Become, Process, At, Plan
<1>. QED BY <1>1, <1>2, <1>3, <1>4, <1>5, <1>6, <1>7, <1>8, <1>9, <1>10, <1>11, <1>12,
            <1>13, <1>14, <1>15, <1>16, <1>17, <1>18, <1>19, <1>20 DEF Step

\* The empty directory satisfies the squeeze.
LEMMA TreeInit == TypeOK /\ Init => TreeInv
BY ConstantsAssumption DEF Init, Idle, TreeInv, Sandwiched, EvidenceFromRecordedSource,
   NoRecord, NoTree, Gone

\* Every step, an edit between two file reads included, keeps the squeeze.
LEMMA TreeNext ==
  ASSUME NotShared, ~Restores, TypeOK, OrderInv, TreeInv, [Next]_vars
  PROVE  TreeInv'
<1>0. \A f \in Files : source[f] \in Nat /\ edits \in Nat /\ NoTree[f] <= source[f]
  BY ConstantsAssumption DEF TypeOK, Version, NoTree, Gone
<1>1. ASSUME NEW p \in Procs, Step(p) \/ Die(p)
      PROVE  TreeInv'
  <2>. DEFINE r == proc[p].run
  <2>1. Sandwiched(p)' /\ ObservedOnRecordedTree(r)'
    <3>1. ObservedOnRecordedTree(r) /\ Sandwiched(p) /\ InOrder(p)
      BY <1>1, Frame DEF OrderInv, TreeInv, EvidenceFromRecordedSource, ObservedOnRecordedTree
    <3>. QED BY <1>1, <3>1, OwnTree
  <2>2. ASSUME NEW q \in Procs, q # p PROVE Sandwiched(q)'
    <3>1. proc'[q] = proc[q] /\ source' = source
      BY <1>1, <2>2, Frame
    <3>2. CASE proc[q].pc = "idle"
      BY <3>1, <3>2 DEF TreeInv, Sandwiched
    <3>3. CASE proc[q].pc # "idle"
      <4>1. proc[q].run \in RunIds /\ proc[q].run # r
        BY <1>1, <2>2, <3>3, Frame DEF OrderInv, OneWriter, TypeOK
      <4>2. workspace'[proc[q].run] = workspace[proc[q].run]
              /\ receipts'[proc[q].run] = receipts[proc[q].run]
        BY <1>1, <4>1, Frame
      <4>. QED BY <3>1, <4>2 DEF TreeInv, Sandwiched
    <3>. QED BY <3>2, <3>3
  <2>3. ASSUME NEW s \in RunIds PROVE ObservedOnRecordedTree(s)'
    <3>1. CASE s = r
      BY <2>1, <3>1, Frame, <1>1 DEF ObservedOnRecordedTree
    <3>2. CASE s # r
      <4>1. runFile'[s] = runFile[s] /\ receipts'[s] = receipts[s]
        BY <1>1, <3>2, Frame
      <4>. QED BY <4>1 DEF TreeInv, EvidenceFromRecordedSource, ObservedOnRecordedTree, Plan
    <3>. QED BY <3>1, <3>2
  <2>4. source' = source /\ edits' = edits
    BY <1>1, Frame
  <2>. QED BY <2>1, <2>2, <2>3, <2>4
           DEF TreeInv, EvidenceFromRecordedSource, ObservedOnRecordedTree
<1>2. ASSUME NEW p \in Procs, NEW r \in RunIds, NEW plan \in Plans, Start(p, r, plan)
      PROVE  TreeInv'
  <2>1. UNCHANGED <<runFile, receipts, workspace, source, edits>>
    BY <1>2 DEF Start, disk
  <2>2. /\ proc'[p].pc = "hash_before" /\ proc'[p].before = NoTree
        /\ proc'[p].cur = {} /\ proc'[p].done = {}
        /\ \A q \in Procs : q # p => proc'[q] = proc[q]
    BY <1>2, StartState
  <2>. QED BY <1>0, <2>1, <2>2 DEF TreeInv, Sandwiched, Plan, EvidenceFromRecordedSource
<1>3. CASE Edit
  <2>1. PICK f \in Files : source' = [source EXCEPT ![f] = edits + 1]
    BY <1>3 DEF Edit
  <2>2. /\ edits' = edits + 1
        /\ UNCHANGED <<runFile, receipts, workspace, proc>>
    BY <1>3 DEF Edit, disk
  <2>3. \A g \in Files : source'[g] \in Nat /\ source[g] <= source'[g] /\ source'[g] <= edits'
    BY <1>0, <2>1, <2>2 DEF TypeOK, TreeInv
  <2>4. ASSUME NEW p \in Procs PROVE Sandwiched(p)'
    <3>1. \A g \in Files : proc[p].before[g] \in Int
      BY ConstantsAssumption DEF TypeOK, Process, Tree, Version, Gone
    <3>2. proc[p].pc # "idle" => \A g \in Files : workspace[proc[p].run][g] \in Int
      BY ConstantsAssumption DEF TypeOK, Tree, Version, Gone
    <3>3. Sandwiched(p)
      BY DEF TreeInv
    <3>. QED BY <1>0, <2>2, <2>3, <3>1, <3>2, <3>3 DEF Sandwiched
  <2>. QED BY <2>2, <2>3, <2>4 DEF TreeInv, Plan, EvidenceFromRecordedSource
<1>4. CASE UNCHANGED vars
  BY <1>4 DEF TreeInv, Sandwiched, Plan, EvidenceFromRecordedSource, vars, environment, disk
<1>. QED BY <1>1, <1>2, <1>3, <1>4 DEF Next

(***************************************************************************)
(* The receipts of a completed run were observed on the very tree its       *)
(* record names, however the edits fall between the file reads of the two   *)
(* hash passes and of the copy, provided that no edit restores an earlier   *)
(* version and no two invocations share a run id at the same time.          *)
(***************************************************************************)
THEOREM EvidenceTree ==
  ASSUME NotShared, ~Restores
  PROVE  Spec => []EvidenceFromRecordedSource
<1>1. Init => TypeOK /\ OrderInv /\ TreeInv
  BY TypeInit, OrderInit, TreeInit
<1>2. TypeOK /\ OrderInv /\ TreeInv /\ [Next]_vars => (TypeOK /\ OrderInv /\ TreeInv)'
  BY TypeNext, OrderNext, TreeNext
<1>3. TreeInv => EvidenceFromRecordedSource
  BY DEF TreeInv
<1>. QED BY <1>1, <1>2, <1>3, PTL DEF Spec

-----------------------------------------------------------------------------
(* Failing closed.                                                          *)

\* Outside its sealing loop a process touches no receipt.
LEMMA ReceiptsKept ==
  ASSUME TypeOK, NEW p \in Procs, Step(p) \/ Die(p), proc[p].pc # "seal"
  PROVE  receipts' = receipts
BY DEF Step, Die, disk, At, HashBefore, PreflightFails, ClearWorkspace, CopyFile,
   OpenRunning, WriteRunning, Attack, AttackUnsupported, AttacksDone, HashAfter,
   WriteExit5, OpenFailed, WriteFailed, Accept, OpenReceipt, SealReceipt, WriteExit0,
   OpenCompleted, WriteCompleted, LoadFails, LoadReceipts, OpenReport, WriteReport

\* Once it seals receipts, a process never comes back to a point before that.
LEMMA SealingLast ==
  ASSUME TypeOK, NEW p \in Procs, Step(p) \/ Die(p),
         proc[p].pc \in {"seal", "complete", "write_completed", "load", "report", "write_report"}
  PROVE  /\ proc'[p].pc \in {"idle", "seal", "complete", "write_completed", "load", "report", "write_report"}
         /\ runFile'[proc[p].run].status = "failed"
              => runFile[proc[p].run].status = "failed"
<1>. DEFINE r == proc[p].run
<1>0. proc[p] \in Process /\ r \in RunIds
  BY Frame DEF TypeOK
<1>1. CASE LoadFails(p) \/ WriteReport(p) \/ Die(p)
  BY <1>1, ExitIdle DEF LoadFails, WriteReport, Die, disk
<1>2. CASE OpenReceipt(p)
  BY <1>0, <1>2 DEF OpenReceipt, TypeOK, Become, Process, At
<1>3. CASE SealReceipt(p)
  BY <1>0, <1>3 DEF SealReceipt, TypeOK, Become, Process, At
<1>4. CASE WriteExit0(p)
  BY <1>0, <1>4 DEF WriteExit0, TypeOK, Become, Process, At
<1>5. CASE OpenCompleted(p)
  BY <1>0, <1>5 DEF OpenCompleted, TruncateRecord, TornRecord, NoRecord, TypeOK, Become,
     Process, At
<1>6. CASE WriteCompleted(p)
  BY <1>0, <1>6 DEF WriteCompleted, WriteRecord, TypeOK, Become, Process, At
<1>7. CASE LoadReceipts(p)
  BY <1>0, <1>7 DEF LoadReceipts, TypeOK, Become, Process, At, disk
<1>8. CASE OpenReport(p)
  BY <1>0, <1>8 DEF OpenReport, TypeOK, Become, Process, At
<1>. QED BY <1>1, <1>2, <1>3, <1>4, <1>5, <1>6, <1>7, <1>8
         DEF Step, At, Hashed, HashBefore, PreflightFails, ClearWorkspace, CopyFile,
             OpenRunning, WriteRunning, Attack, AttackUnsupported, AttacksDone, HashAfter,
             WriteExit5, OpenFailed, WriteFailed, Accept

\* Only a refused attempt, which has sealed nothing, makes a record failed.
LEMMA FailedBy ==
  ASSUME TypeOK, NEW p \in Procs, Step(p) \/ Die(p),
         runFile'[proc[p].run].status = "failed", runFile[proc[p].run].status # "failed"
  PROVE  proc[p].pc = "write_failed"
<1>. DEFINE r == proc[p].run
<1>0. r \in RunIds /\ runFile \in [RunIds -> RunRecord]
  BY Frame DEF TypeOK
<1>1. CASE OpenRunning(p) \/ OpenFailed(p) \/ OpenCompleted(p)
  <2>1. runFile'[r] = TornRecord
    BY <1>0, <1>1 DEF OpenRunning, OpenFailed, OpenCompleted, TruncateRecord
  <2>. QED BY <2>1 DEF TornRecord, NoRecord
<1>2. CASE WriteRunning(p)
  BY <1>0, <1>2 DEF WriteRunning, WriteRecord
<1>3. CASE WriteCompleted(p)
  BY <1>0, <1>3 DEF WriteCompleted, WriteRecord
<1>4. CASE WriteFailed(p)
  BY <1>4 DEF WriteFailed, At
<1>5. CASE UNCHANGED runFile
  BY <1>5
<1>. QED BY <1>1, <1>2, <1>3, <1>4, <1>5
         DEF Step, Die, disk, HashBefore, PreflightFails, ClearWorkspace, CopyFile, Attack,
             AttackUnsupported, AttacksDone, HashAfter, WriteExit5, Accept, OpenReceipt,
             SealReceipt, WriteExit0, LoadFails, LoadReceipts, OpenReport, WriteReport

\* The empty directory has no receipts and no failed record.
LEMMA FailInit == Init => FailInv
BY DEF Init, Idle, FailInv, NoReceiptsYet, FailClosed, NoRecord

\* Every step keeps receipts away from runs that are not accepted.
LEMMA FailNext ==
  ASSUME Reuse = "fresh", TypeOK, OrderInv, FailInv, [Next]_vars
  PROVE  FailInv'
<1>1. ASSUME NEW p \in Procs, Step(p) \/ Die(p)
      PROVE  FailInv'
  <2>. DEFINE r == proc[p].run
  <2>1. /\ proc[p].pc # "idle" /\ r \in RunIds /\ r \in used
        /\ proc'[p].run = r /\ used' = used /\ proc[p] \in Process
    BY <1>1, Frame DEF OrderInv, OneWriter, TypeOK
  <2>2. NoReceiptsYet(p)'
    <3>1. CASE proc[p].pc \in {"seal", "complete", "write_completed", "load", "report", "write_report"}
      BY <1>1, <3>1, SealingLast DEF NoReceiptsYet
    <3>2. CASE proc[p].pc \notin {"seal", "complete", "write_completed", "load", "report", "write_report"}
      BY <1>1, <2>1, <3>2, ReceiptsKept DEF FailInv, NoReceiptsYet
    <3>. QED BY <3>1, <3>2
  <2>3. ASSUME NEW q \in Procs, q # p PROVE NoReceiptsYet(q)'
    <3>1. proc'[q] = proc[q]
      BY <1>1, <2>3, Frame
    <3>2. CASE proc[q].pc = "idle"
      BY <3>1, <3>2 DEF NoReceiptsYet
    <3>3. CASE proc[q].pc # "idle"
      <4>1. proc[q].run \in RunIds /\ proc[q].run # r
        BY <1>1, <2>3, <3>3, Frame DEF OrderInv, OneWriter, TypeOK
      <4>2. receipts'[proc[q].run] = receipts[proc[q].run]
        BY <1>1, <4>1, Frame
      <4>. QED BY <3>1, <4>2 DEF FailInv, NoReceiptsYet
    <3>. QED BY <3>2, <3>3
  <2>4. ASSUME NEW s \in RunIds \ used PROVE receipts'[s] = NoReceipts
    BY <1>1, <2>1, <2>4, Frame DEF FailInv
  <2>5. ASSUME NEW s \in RunIds, runFile'[s].status = "failed"
        PROVE  receipts'[s] = NoReceipts
    <3>1. CASE s # r
      BY <1>1, <2>5, <3>1, Frame DEF FailInv, FailClosed
    <3>2. CASE s = r /\ proc[p].pc = "seal"
      BY <1>1, <2>5, <3>2, SealingLast DEF OrderInv, InOrder
    <3>3. CASE s = r /\ proc[p].pc # "seal"
      <4>1. receipts' = receipts
        BY <1>1, <3>3, ReceiptsKept
      <4>2. CASE runFile[r].status = "failed"
        BY <2>1, <3>3, <4>1, <4>2 DEF FailInv, FailClosed
      <4>3. CASE runFile[r].status # "failed"
        <5>1. proc[p].pc = "write_failed"
          BY <1>1, <2>5, <3>3, <4>3, FailedBy
        <5>. QED BY <3>3, <4>1, <5>1 DEF FailInv, NoReceiptsYet
      <4>. QED BY <4>2, <4>3
    <3>. QED BY <3>1, <3>2, <3>3
  <2>. QED BY <2>1, <2>2, <2>3, <2>4, <2>5 DEF FailInv, FailClosed
<1>2. ASSUME NEW p \in Procs, NEW r \in RunIds, NEW plan \in Plans, Start(p, r, plan)
      PROVE  FailInv'
  <2>1. UNCHANGED <<runFile, receipts>> /\ used' = used \cup {r}
    BY <1>2 DEF Start, disk
  <2>2. proc'[p].run = r /\ \A q \in Procs : q # p => proc'[q] = proc[q]
    BY <1>2, StartState
  <2>3. receipts[r] = NoReceipts
    BY <1>2 DEF Start, MayUse, FailInv
  <2>. QED BY <2>1, <2>2, <2>3 DEF FailInv, NoReceiptsYet, FailClosed
<1>3. CASE Edit \/ UNCHANGED vars
  <2>1. UNCHANGED <<runFile, receipts, proc, used>>
    BY <1>3 DEF Edit, vars, environment, disk
  <2>. QED BY <2>1 DEF FailInv, NoReceiptsYet, FailClosed
<1>. QED BY <1>1, <1>2, <1>3 DEF Next

(***************************************************************************)
(* When no run id is used twice, a run that failed because its source       *)
(* changed has no receipt, whatever else runs, crashes or is edited.        *)
(***************************************************************************)
THEOREM FailsClosed ==
  ASSUME Reuse = "fresh"
  PROVE  Spec => []FailClosed
<1>1. Init => TypeOK /\ OrderInv /\ FailInv
  BY TypeInit, OrderInit, FailInit
<1>2. TypeOK /\ OrderInv /\ FailInv /\ [Next]_vars => (TypeOK /\ OrderInv /\ FailInv)'
  BY TypeNext, OrderNext, FailNext DEF NotShared
<1>3. FailInv => FailClosed
  BY DEF FailInv
<1>. QED BY <1>1, <1>2, <1>3, PTL DEF Spec
=============================================================================
