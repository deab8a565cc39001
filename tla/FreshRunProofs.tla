---------------------------- MODULE FreshRunProofs ----------------------------
(***************************************************************************)
(* Machine-checked proofs about what one invocation leaves on disk: the     *)
(* exit code beside the record, the receipts, the report and the exit       *)
(* status.  The exit code only needs that no two live invocations have the  *)
(* same run id; the rest needs run ids that are used once.                  *)
(***************************************************************************)
EXTENDS SandboxRunProofs

-----------------------------------------------------------------------------
(* The files SandboxRunProofs!Frame does not speak of.                      *)

\* A step of a process touches no report and no exit code of another run id.
LEMMA FrameFiles ==
  ASSUME TypeOK, NEW p \in Procs, Step(p) \/ Die(p)
  PROVE  \A r \in RunIds : r # proc[p].run =>
           report'[r] = report[r] /\ exitCode'[r] = exitCode[r]
BY DEF TypeOK, Step, Die, disk, HashBefore, PreflightFails, ClearWorkspace, CopyFile,
   OpenRunning, WriteRunning, Attack, AttackUnsupported, AttacksDone, HashAfter,
   WriteExit5, OpenFailed, WriteFailed, Accept, OpenReceipt, SealReceipt, WriteExit0,
   OpenCompleted, WriteCompleted, LoadFails, LoadReceipts, OpenReport, WriteReport

\* Only an end of the invocation gives it an exit status.
LEMMA ExitStatus ==
  ASSUME TypeOK, NEW p \in Procs, NEW code, Exit(p, code)
  PROVE  proc'[p].exit = code
<1>. DEFINE P == [Idle EXCEPT !.run = proc[p].run, !.exit = code]
<1>1. P.exit = code
  BY DEF Idle
<1>2. Become(p, P)
  BY DEF Exit
<1>. HIDE DEF P
<1>. QED BY <1>1, <1>2, BecomeOnly

\* A step that does not end the invocation leaves its exit status unset.
LEMMA RunsOn ==
  ASSUME TypeOK, NEW p \in Procs, Step(p), ~Exits(p)
  PROVE  proc'[p].exit = proc[p].exit
<1>0. proc[p] \in Process
  BY DEF TypeOK
<1>1. CASE HashBefore(p)
  BY <1>0, <1>1 DEF HashBefore, TypeOK, Become, Process
<1>2. CASE HashAfter(p)
  BY <1>0, <1>2 DEF HashAfter, TypeOK, Become, Process
<1>3. CASE Attack(p)
  BY <1>0, <1>3 DEF Attack, TypeOK, Become, Process
<1>4. CASE CopyFile(p)
  BY <1>0, <1>4 DEF CopyFile, TypeOK, Become, Process
<1>5. CASE OpenReceipt(p)
  BY <1>0, <1>5 DEF OpenReceipt, TypeOK, Become, Process
<1>6. CASE SealReceipt(p)
  BY <1>0, <1>6 DEF SealReceipt, TypeOK, Become, Process
<1>7. CASE ClearWorkspace(p)
  BY <1>0, <1>7 DEF ClearWorkspace, TypeOK, Become, Process
<1>8. CASE AttacksDone(p)
  BY <1>0, <1>8 DEF AttacksDone, TypeOK, Become, Process
<1>9. CASE Accept(p)
  BY <1>0, <1>9 DEF Accept, TypeOK, Become, Process
<1>10. CASE LoadReceipts(p)
  BY <1>0, <1>10 DEF LoadReceipts, TypeOK, Become, Process
<1>11. CASE OpenRunning(p)
  BY <1>0, <1>11 DEF OpenRunning, TypeOK, Become, Process
<1>12. CASE WriteRunning(p)
  BY <1>0, <1>12 DEF WriteRunning, TypeOK, Become, Process
<1>13. CASE WriteExit5(p)
  BY <1>0, <1>13 DEF WriteExit5, TypeOK, Become, Process
<1>14. CASE OpenFailed(p)
  BY <1>0, <1>14 DEF OpenFailed, TypeOK, Become, Process
<1>15. CASE WriteExit0(p)
  BY <1>0, <1>15 DEF WriteExit0, TypeOK, Become, Process
<1>16. CASE OpenCompleted(p)
  BY <1>0, <1>16 DEF OpenCompleted, TypeOK, Become, Process
<1>17. CASE WriteCompleted(p)
  BY <1>0, <1>17 DEF WriteCompleted, TypeOK, Become, Process
<1>18. CASE OpenReport(p)
  BY <1>0, <1>18 DEF OpenReport, TypeOK, Become, Process
<1>. QED BY <1>1, <1>2, <1>3, <1>4, <1>5, <1>6, <1>7, <1>8, <1>9,
            <1>10, <1>11, <1>12, <1>13, <1>14, <1>15, <1>16, <1>17, <1>18 DEF Step, Exits

-----------------------------------------------------------------------------
(* exit_code.txt.                                                           *)

\* The exit code is written before the record it belongs to is final.
CodeFirst(p) ==
  /\ proc[p].pc \in {"complete", "write_completed"} => exitCode[proc[p].run] = 0
  /\ proc[p].pc \in {"refuse", "write_failed"} => exitCode[proc[p].run] = 5

CodeAgrees(r) ==
  /\ runFile[r].status = "completed" => exitCode[r] = 0
  /\ runFile[r].status = "failed" => exitCode[r] = 5

CodeInv ==
  /\ \A p \in Procs : CodeFirst(p)
  /\ ExitCodeAgrees

\* The process that takes the step, and the run id it works on.
LEMMA OwnCode ==
  ASSUME TypeOK, NEW p \in Procs, InOrder(p), CodeFirst(p), CodeAgrees(proc[p].run),
         Step(p) \/ Die(p)
  PROVE  CodeFirst(p)' /\ CodeAgrees(proc[p].run)'
<1>. DEFINE r == proc[p].run
<1>0. proc[p] \in Process /\ r \in RunIds /\ proc'[p].run = r
  BY Frame DEF TypeOK
<1>1. CASE PreflightFails(p) \/ AttackUnsupported(p) \/ LoadFails(p) \/ WriteReport(p) \/ Die(p)
  BY <1>0, <1>1, ExitIdle DEF PreflightFails, AttackUnsupported, LoadFails, WriteReport, Die,
     disk, CodeFirst, CodeAgrees
<1>2. CASE WriteFailed(p)
  BY <1>0, <1>2, ExitIdle DEF WriteFailed, WriteRecord, TypeOK, At, CodeFirst, CodeAgrees
<1>3. CASE HashBefore(p) \/ Attack(p) \/ HashAfter(p) \/ AttacksDone(p) \/ Accept(p)
           \/ LoadReceipts(p) \/ ClearWorkspace(p) \/ CopyFile(p) \/ OpenReceipt(p)
           \/ SealReceipt(p) \/ OpenReport(p)
  <2>. DEFINE kept == proc'[p].pc \in {"hash_before", "copy", "attack", "hash_after", "seal",
                                      "report", "write_report"}
                        /\ UNCHANGED <<runFile, exitCode>>
  <2>0. kept => CodeFirst(p)' /\ CodeAgrees(r)'
    BY <1>0 DEF CodeFirst, CodeAgrees
  <2>1. HashBefore(p) => kept
    BY <1>0 DEF HashBefore, disk, TypeOK, Become, Process, At
  <2>2. Attack(p) => kept
    BY <1>0 DEF Attack, disk, TypeOK, Become, Process, At
  <2>3. HashAfter(p) => kept
    BY <1>0 DEF HashAfter, disk, TypeOK, Become, Process, At
  <2>4. AttacksDone(p) => kept
    BY <1>0 DEF AttacksDone, disk, TypeOK, Become, Process, At
  <2>5. Accept(p) => kept
    BY <1>0 DEF Accept, Hashed, disk, TypeOK, Become, Process, At
  <2>6. LoadReceipts(p) => kept
    BY <1>0 DEF LoadReceipts, disk, TypeOK, Become, Process, At
  <2>7. ClearWorkspace(p) => kept
    BY <1>0 DEF ClearWorkspace, TypeOK, Become, Process, At
  <2>8. CopyFile(p) => kept
    BY <1>0 DEF CopyFile, TypeOK, Become, Process, At
  <2>9. OpenReceipt(p) => kept
    BY <1>0 DEF OpenReceipt, TypeOK, Become, Process, At
  <2>10. SealReceipt(p) => kept
    BY <1>0 DEF SealReceipt, TypeOK, Become, Process, At
  <2>11. OpenReport(p) => kept
    BY <1>0 DEF OpenReport, TypeOK, Become, Process, At
  <2>. QED BY <1>3, <2>0, <2>1, <2>2, <2>3, <2>4, <2>5, <2>6, <2>7, <2>8, <2>9, <2>10, <2>11
<1>4. CASE OpenRunning(p) \/ OpenFailed(p) \/ OpenCompleted(p)
  <2>1. runFile'[r] = TornRecord /\ exitCode' = exitCode
    BY <1>0, <1>4 DEF OpenRunning, OpenFailed, OpenCompleted, TruncateRecord, TypeOK
  <2>2. \/ proc'[p].pc = "write_running"
        \/ proc'[p].pc = "write_failed" /\ proc[p].pc = "refuse"
        \/ proc'[p].pc = "write_completed" /\ proc[p].pc = "complete"
    BY <1>0, <1>4 DEF OpenRunning, OpenFailed, OpenCompleted, TypeOK, Become, Process, At
  <2>. QED BY <1>0, <2>1, <2>2 DEF CodeFirst, CodeAgrees, TornRecord, NoRecord
<1>5. CASE WriteRunning(p)
  BY <1>0, <1>5 DEF WriteRunning, WriteRecord, TypeOK, Become, Process, At, CodeFirst, CodeAgrees
<1>6. CASE WriteCompleted(p)
  BY <1>0, <1>6 DEF WriteCompleted, WriteRecord, TypeOK, Become, Process, At, CodeFirst,
     CodeAgrees
<1>7. CASE WriteExit5(p)
  BY <1>0, <1>7 DEF WriteExit5, Hashed, TypeOK, Become, Process, At, InOrder, CodeFirst,
     CodeAgrees
<1>8. CASE WriteExit0(p)
  BY <1>0, <1>8 DEF WriteExit0, TypeOK, Become, Process, At, InOrder, CodeFirst, CodeAgrees
<1>. QED BY <1>1, <1>2, <1>3, <1>4, <1>5, <1>6, <1>7, <1>8 DEF Step

\* The empty directory has no final record and no exit code.
LEMMA CodeInit == Init => CodeInv
BY DEF Init, Idle, CodeInv, CodeFirst, ExitCodeAgrees, NoRecord

\* Every step keeps the exit code in line with the record.
LEMMA CodeNext ==
  ASSUME TypeOK, OrderInv, CodeInv, [Next]_vars
  PROVE  CodeInv'
<1>1. ASSUME NEW p \in Procs, Step(p) \/ Die(p)
      PROVE  CodeInv'
  <2>. DEFINE r == proc[p].run
  <2>1. CodeFirst(p)' /\ CodeAgrees(r)'
    <3>1. CodeAgrees(r) /\ CodeFirst(p) /\ InOrder(p)
      BY <1>1, Frame DEF OrderInv, CodeInv, ExitCodeAgrees, CodeAgrees
    <3>. QED BY <1>1, <3>1, OwnCode
  <2>2. ASSUME NEW q \in Procs, q # p PROVE CodeFirst(q)'
    <3>1. proc'[q] = proc[q]
      BY <1>1, <2>2, Frame
    <3>2. CASE proc[q].pc = "idle"
      BY <3>1, <3>2 DEF CodeFirst
    <3>3. CASE proc[q].pc # "idle"
      <4>1. proc[q].run \in RunIds /\ proc[q].run # r
        BY <1>1, <2>2, <3>3, Frame DEF OrderInv, OneWriter, TypeOK
      <4>2. exitCode'[proc[q].run] = exitCode[proc[q].run]
        BY <1>1, <4>1, FrameFiles
      <4>. QED BY <3>1, <4>2 DEF CodeInv, CodeFirst
    <3>. QED BY <3>2, <3>3
  <2>3. ASSUME NEW s \in RunIds PROVE CodeAgrees(s)'
    <3>1. CASE s = r
      BY <2>1, <3>1, Frame, <1>1 DEF CodeAgrees
    <3>2. CASE s # r
      BY <1>1, <3>2, Frame, FrameFiles DEF CodeInv, ExitCodeAgrees, CodeAgrees
    <3>. QED BY <3>1, <3>2
  <2>. QED BY <2>1, <2>2, <2>3 DEF CodeInv, ExitCodeAgrees, CodeAgrees
<1>2. ASSUME NEW p \in Procs, NEW r \in RunIds, NEW plan \in Plans, Start(p, r, plan)
      PROVE  CodeInv'
  <2>1. UNCHANGED <<runFile, exitCode>>
    BY <1>2 DEF Start, disk
  <2>. QED BY <1>2, <2>1, StartState DEF CodeInv, CodeFirst, ExitCodeAgrees
<1>3. CASE Edit \/ UNCHANGED vars
  BY <1>3 DEF Edit, vars, disk, CodeInv, CodeFirst, ExitCodeAgrees
<1>. QED BY <1>1, <1>2, <1>3 DEF Next

(***************************************************************************)
(* exit_code.txt agrees with a final run record, for any crashes and any    *)
(* reuse of run ids that is not simultaneous.                               *)
(***************************************************************************)
THEOREM ExitCodes ==
  ASSUME NotShared
  PROVE  Spec => []ExitCodeAgrees
<1>1. Init => TypeOK /\ OrderInv /\ CodeInv
  BY TypeInit, OrderInit, CodeInit
<1>2. TypeOK /\ OrderInv /\ CodeInv /\ [Next]_vars => (TypeOK /\ OrderInv /\ CodeInv)'
  BY TypeNext, OrderNext, CodeNext
<1>3. CodeInv => ExitCodeAgrees
  BY DEF CodeInv
<1>. QED BY <1>1, <1>2, <1>3, PTL DEF Spec

-----------------------------------------------------------------------------
(* Receipts, report and exit status of a run id that is used once.          *)

\* What an invocation knows of its own files.  Its record is not final before
\* it has sealed its receipts; it never meets a report of somebody else; the
\* receipts it has not got to are absent; what it reads back is what is there.
OwnFiles(p) ==
  LET P == proc[p]
      r == P.run
  IN
  /\ P.pc # "idle" => runFile[r].status # "failed" /\ report[r].state # "written"
  /\ P.pc \notin {"idle", "load", "report", "write_report"} => runFile[r].status # "completed"
  /\ P.pc # "seal" => P.cur = {}
  /\ P.pc = "seal" => /\ P.done \subseteq P.plan /\ P.cur \subseteq P.plan
                      /\ \A c \in Cases \ (P.done \cup P.cur) : receipts[r][c] = NoReceipt
                      /\ \A c \in P.cur : receipts[r][c] = TornReceipt
                      /\ \A c, d \in P.cur : c = d
  /\ P.pc \in {"complete", "write_completed", "load", "report", "write_report"}
       => \A c \in Cases \ P.plan : receipts[r][c] = NoReceipt
  /\ P.pc \in {"load", "report", "write_report"}
       => /\ runFile[r].status = "completed"
          /\ runFile[r].attempt = P.attempt /\ runFile[r].plan = P.plan
  /\ P.pc \in {"report", "write_report"} => P.found = receipts[r]

\* What a reader finds under a run id.
RunFiles(r) ==
  /\ r \notin used => runFile[r] = NoRecord /\ report[r] = NoReport
  /\ runFile[r].status = "completed" => \A c \in Cases \ Plan(r) : receipts[r][c] = NoReceipt
  /\ report[r].state = "written" => /\ runFile[r].status = "completed"
                                    /\ report[r].attempt = runFile[r].attempt
                                    /\ report[r].body = receipts[r]

\* What the exit status promised the caller, for good.
StatusKept(p) ==
  LET r == proc[p].run IN
  /\ proc[p].exit # Unset => proc[p].pc = "idle" /\ r \in used
  /\ proc[p].exit = 0 => runFile[r].status = "completed" /\ report[r].state = "written"
  /\ proc[p].exit = 5 => runFile[r].status = "failed" /\ exitCode[r] = 5

FilesInv ==
  /\ \A p \in Procs : OwnFiles(p) /\ StatusKept(p)
  /\ \A r \in RunIds : RunFiles(r)

\* The process that takes the step: what it knows of its files.
LEMMA OwnFilesNext ==
  ASSUME TypeOK, NEW p \in Procs, InOrder(p), NoReceiptsYet(p), OwnFiles(p),
         Step(p) \/ Die(p)
  PROVE  OwnFiles(p)'
<1>. DEFINE r == proc[p].run
<1>0. proc[p] \in Process /\ r \in RunIds /\ proc'[p].run = r
  BY Frame DEF TypeOK
<1>1. CASE PreflightFails(p) \/ AttackUnsupported(p) \/ LoadFails(p) \/ WriteFailed(p)
             \/ WriteReport(p) \/ Die(p)
  BY <1>1, ExitIdle DEF PreflightFails, AttackUnsupported, LoadFails, WriteFailed,
     WriteReport, Die, OwnFiles
<1>2. CASE HashBefore(p)
  BY <1>0, <1>2 DEF HashBefore, TypeOK, Become, Process, At, disk, OwnFiles
<1>3. CASE ClearWorkspace(p)
  BY <1>0, <1>3 DEF ClearWorkspace, TypeOK, Become, Process, At, OwnFiles
<1>4. CASE CopyFile(p)
  BY <1>0, <1>4 DEF CopyFile, TypeOK, Become, Process, At, OwnFiles
<1>5. CASE OpenRunning(p)
  BY <1>0, <1>5 DEF OpenRunning, TruncateRecord, TornRecord, NoRecord, TypeOK, Become,
     Process, At, OwnFiles
<1>6. CASE WriteRunning(p)
  BY <1>0, <1>6 DEF WriteRunning, WriteRecord, TypeOK, Become, Process, At, OwnFiles
<1>7. CASE Attack(p)
  BY <1>0, <1>7 DEF Attack, TypeOK, Become, Process, At, disk, OwnFiles
<1>8. CASE AttacksDone(p)
  BY <1>0, <1>8 DEF AttacksDone, TypeOK, Become, Process, At, disk, OwnFiles
<1>9. CASE HashAfter(p)
  BY <1>0, <1>9 DEF HashAfter, TypeOK, Become, Process, At, disk, OwnFiles
<1>10. CASE WriteExit5(p)
  BY <1>0, <1>10 DEF WriteExit5, Hashed, TypeOK, Become, Process, At, OwnFiles
<1>11. CASE OpenFailed(p)
  BY <1>0, <1>11 DEF OpenFailed, TruncateRecord, TornRecord, NoRecord, TypeOK, Become,
     Process, At, OwnFiles
<1>12. CASE Accept(p)
  <2>1. receipts[r] = NoReceipts
    BY <1>12 DEF Accept, Hashed, At, NoReceiptsYet
  <2>. QED BY <1>0, <1>12, <2>1 DEF Accept, Hashed, TypeOK, Become, Process, At, disk,
              OwnFiles, NoReceipts
<1>13. CASE OpenReceipt(p)
  <2>1. PICK c \in proc[p].plan \ proc[p].done :
          /\ receipts' = [receipts EXCEPT ![r][c] = TornReceipt]
          /\ Become(p, [proc[p] EXCEPT !.cur = {c}])
    BY <1>13 DEF OpenReceipt
  <2>2. /\ proc'[p].pc = "seal" /\ proc'[p].done = proc[p].done /\ proc'[p].cur = {c}
        /\ proc'[p].plan = proc[p].plan /\ proc[p].cur = {}
        /\ runFile' = runFile /\ report' = report
    BY <1>0, <1>13, <2>1 DEF OpenReceipt, TypeOK, Become, Process, At
  <2>3. /\ \A d \in Cases : d # c => receipts'[r][d] = receipts[r][d]
        /\ receipts'[r][c] = TornReceipt
    BY <1>0, <2>1 DEF TypeOK, Process, Receipts
  <2>. QED BY <1>0, <1>13, <2>2, <2>3 DEF OpenReceipt, At, OwnFiles
<1>14. CASE SealReceipt(p)
  <2>1. PICK c \in proc[p].cur :
          /\ receipts' = [receipts EXCEPT ![r][c] =
                            [state |-> "sealed", attempt |-> proc[p].attempt,
                             seen |-> proc[p].seen[c]]]
          /\ Become(p, [proc[p] EXCEPT !.cur = {}, !.done = @ \cup {c}])
    BY <1>14 DEF SealReceipt
  <2>2. /\ proc'[p].pc = "seal" /\ proc'[p].done = proc[p].done \cup {c} /\ proc'[p].cur = {}
        /\ proc'[p].plan = proc[p].plan /\ runFile' = runFile /\ report' = report
    BY <1>0, <1>14, <2>1 DEF SealReceipt, TypeOK, Become, Process, At
  <2>3. \A d \in Cases : d # c => receipts'[r][d] = receipts[r][d]
    BY <1>0, <2>1 DEF TypeOK, Process, Receipts
  <2>. QED BY <1>0, <1>14, <2>1, <2>2, <2>3 DEF SealReceipt, At, OwnFiles
<1>15. CASE WriteExit0(p)
  BY <1>0, <1>15 DEF WriteExit0, TypeOK, Become, Process, At, OwnFiles
<1>16. CASE OpenCompleted(p)
  BY <1>0, <1>16 DEF OpenCompleted, TruncateRecord, TornRecord, NoRecord, TypeOK, Become,
     Process, At, OwnFiles
<1>17. CASE WriteCompleted(p)
  BY <1>0, <1>17 DEF WriteCompleted, WriteRecord, TypeOK, Become, Process, At, OwnFiles
<1>18. CASE LoadReceipts(p)
  BY <1>0, <1>18 DEF LoadReceipts, TypeOK, Become, Process, At, disk, OwnFiles
<1>19. CASE OpenReport(p)
  BY <1>0, <1>19 DEF OpenReport, TornReport, NoReport, TypeOK, Become, Process, At, OwnFiles
<1>. QED BY <1>1, <1>2, <1>3, <1>4, <1>5, <1>6, <1>7, <1>8, <1>9, <1>10, <1>11, <1>12,
            <1>13, <1>14, <1>15, <1>16, <1>17, <1>18, <1>19 DEF Step

\* The process that takes the step: what readers find under its run id.
LEMMA OwnRunFiles ==
  ASSUME TypeOK, NEW p \in Procs, OwnFiles(p), RunFiles(proc[p].run), proc[p].run \in used,
         Step(p) \/ Die(p)
  PROVE  RunFiles(proc[p].run)'
<1>. DEFINE r == proc[p].run
<1>0. /\ proc[p] \in Process /\ r \in RunIds /\ proc'[p].run = r
      /\ used' = used /\ proc[p].pc # "idle"
  BY Frame DEF TypeOK
<1>1. CASE UNCHANGED <<runFile, receipts, report>>
  BY <1>0, <1>1 DEF RunFiles, Plan
<1>2. CASE OpenRunning(p) \/ OpenFailed(p) \/ OpenCompleted(p)
  <2>1. runFile'[r] = TornRecord /\ UNCHANGED <<receipts, report>>
    BY <1>0, <1>2 DEF OpenRunning, OpenFailed, OpenCompleted, TruncateRecord, TypeOK
  <2>. QED BY <1>0, <2>1 DEF RunFiles, OwnFiles, TornRecord, NoRecord
<1>3. CASE WriteRunning(p) \/ WriteFailed(p)
  <2>1. runFile'[r].status \in {"running", "failed"} /\ UNCHANGED <<receipts, report>>
    BY <1>0, <1>3 DEF WriteRunning, WriteFailed, WriteRecord, TypeOK
  <2>. QED BY <1>0, <2>1 DEF RunFiles, OwnFiles
<1>4. CASE WriteCompleted(p)
  <2>1. runFile'[r].plan = proc[p].plan /\ UNCHANGED <<receipts, report>>
    BY <1>0, <1>4 DEF WriteCompleted, WriteRecord, TypeOK
  <2>. QED BY <1>0, <1>4, <2>1 DEF RunFiles, OwnFiles, Plan, WriteCompleted, At
<1>5. CASE OpenReceipt(p) \/ SealReceipt(p)
  <2>1. proc[p].pc = "seal" /\ UNCHANGED <<runFile, report>>
    BY <1>5 DEF OpenReceipt, SealReceipt, At
  <2>. QED BY <1>0, <2>1 DEF RunFiles, OwnFiles
<1>6. CASE OpenReport(p)
  <2>1. report'[r] = TornReport /\ UNCHANGED <<runFile, receipts>>
    BY <1>0, <1>6 DEF OpenReport, TypeOK
  <2>. QED BY <1>0, <2>1 DEF RunFiles, Plan, TornReport, NoReport
<1>7. CASE WriteReport(p)
  <2>1. /\ report'[r] = [state |-> "written", attempt |-> proc[p].attempt, body |-> proc[p].found]
        /\ UNCHANGED <<runFile, receipts>> /\ proc[p].pc = "write_report"
    BY <1>0, <1>7 DEF WriteReport, TypeOK, At
  <2>. QED BY <1>0, <2>1 DEF RunFiles, Plan, OwnFiles
<1>. QED BY <1>1, <1>2, <1>3, <1>4, <1>5, <1>6, <1>7
         DEF Step, Die, disk, HashBefore, PreflightFails, ClearWorkspace, CopyFile, Attack,
             AttackUnsupported, AttacksDone, HashAfter, WriteExit5, Accept, WriteExit0,
             LoadFails, LoadReceipts

\* The process that takes the step: its exit status.
LEMMA OwnStatus ==
  ASSUME TypeOK, NEW p \in Procs, CodeFirst(p), OwnFiles(p), proc[p].run \in used,
         proc[p].exit = Unset, Step(p) \/ Die(p)
  PROVE  StatusKept(p)'
<1>. DEFINE r == proc[p].run
<1>0. /\ proc[p] \in Process /\ r \in RunIds /\ proc'[p].run = r
      /\ used' = used
  BY Frame DEF TypeOK
<1>1. CASE PreflightFails(p) \/ AttackUnsupported(p) \/ LoadFails(p) \/ Die(p)
  BY <1>0, <1>1, ExitStatus, ExitIdle DEF PreflightFails, AttackUnsupported, LoadFails, Die,
     StatusKept
<1>2. CASE WriteFailed(p)
  <2>1. proc'[p].exit = 5 /\ proc'[p].pc = "idle"
    BY <1>2, ExitStatus, ExitIdle DEF WriteFailed
  <2>2. runFile'[r].status = "failed" /\ exitCode'[r] = 5
    BY <1>0, <1>2 DEF WriteFailed, WriteRecord, TypeOK, At, CodeFirst
  <2>. QED BY <1>0, <2>1, <2>2 DEF StatusKept
<1>3. CASE WriteReport(p)
  <2>1. proc'[p].exit = 0 /\ proc'[p].pc = "idle"
    BY <1>3, ExitStatus, ExitIdle DEF WriteReport
  <2>2. runFile'[r].status = "completed" /\ report'[r].state = "written"
    BY <1>0, <1>3 DEF WriteReport, TypeOK, At, OwnFiles
  <2>. QED BY <1>0, <2>1, <2>2 DEF StatusKept
<1>4. CASE ~Exits(p)
  <2>1. proc'[p].exit = Unset
    BY <1>0, <1>4, RunsOn DEF Exits
  <2>. QED BY <2>1 DEF StatusKept, Unset
<1>. QED BY <1>1, <1>2, <1>3, <1>4 DEF Exits

\* The empty directory.
LEMMA FilesInit == Init => FilesInv
<1>. SUFFICES ASSUME Init PROVE FilesInv
  OBVIOUS
<1>1. ASSUME NEW p \in Procs PROVE OwnFiles(p) /\ StatusKept(p)
  <2>1. proc[p].pc = "idle" /\ proc[p].cur = {} /\ proc[p].exit = Unset
    BY DEF Init, Idle
  <2>. QED BY <2>1 DEF OwnFiles, StatusKept, Unset
<1>2. ASSUME NEW r \in RunIds PROVE RunFiles(r)
  BY DEF Init, RunFiles, NoRecord, NoReport
<1>. QED BY <1>1, <1>2 DEF FilesInv

\* What a new invocation of an unused run id finds: nothing.
LEMMA FilesStart ==
  ASSUME Reuse = "fresh", TypeOK, FailInv, FilesInv,
         NEW p \in Procs, NEW r \in RunIds, NEW plan \in Plans, Start(p, r, plan)
  PROVE  FilesInv'
<1>. DEFINE P == [Idle EXCEPT !.pc = "hash_before", !.run = r, !.plan = plan,
                              !.attempt = attempts + 1, !.todo = Files]
<1>1. P.pc = "hash_before" /\ P.run = r /\ P.cur = {} /\ P.exit = Unset
  BY DEF Idle
<1>2. Become(p, P)
  BY DEF Start
<1>. HIDE DEF P
<1>3. proc'[p] = P /\ \A q \in Procs : q # p => proc'[q] = proc[q]
  BY <1>2, BecomeOnly
<1>4. /\ UNCHANGED <<runFile, receipts, report, exitCode>>
      /\ r \notin used /\ used' = used \cup {r}
  BY DEF Start, MayUse, disk
<1>5. runFile[r] = NoRecord /\ report[r] = NoReport
  BY <1>4 DEF FilesInv, RunFiles
<1>6. OwnFiles(p)' /\ StatusKept(p)'
  BY <1>1, <1>3, <1>4, <1>5 DEF OwnFiles, StatusKept, NoRecord, NoReport, Unset
<1>7. ASSUME NEW q \in Procs, q # p PROVE OwnFiles(q)' /\ StatusKept(q)'
  BY <1>3, <1>4, <1>7 DEF FilesInv, OwnFiles, StatusKept
<1>8. ASSUME NEW s \in RunIds PROVE RunFiles(s)'
  BY <1>4, <1>8 DEF FilesInv, RunFiles, Plan
<1>. QED BY <1>6, <1>7, <1>8 DEF FilesInv

\* Every step keeps record, receipts, report and exit status in line.
LEMMA FilesNext ==
  ASSUME Reuse = "fresh", TypeOK, OrderInv, FailInv, CodeInv, FilesInv, [Next]_vars
  PROVE  FilesInv'
<1>1. ASSUME NEW p \in Procs, Step(p) \/ Die(p)
      PROVE  FilesInv'
  <2>. DEFINE r == proc[p].run
  <2>1. proc[p].pc # "idle" /\ r \in RunIds /\ r \in used /\ proc'[p].run = r /\ used' = used
    BY <1>1, Frame DEF OrderInv, OneWriter
  <2>2. OwnFiles(p)'
    BY <1>1, OwnFilesNext DEF OrderInv, FailInv, FilesInv
  <2>3. StatusKept(p)'
    <3>1. proc[p].exit = Unset
      BY <2>1 DEF FilesInv, StatusKept
    <3>. QED BY <1>1, <2>1, <3>1, OwnStatus DEF CodeInv, FilesInv
  <2>4. ASSUME NEW q \in Procs, q # p PROVE OwnFiles(q)' /\ StatusKept(q)'
    <3>. DEFINE s == proc[q].run
    <3>1. proc'[q] = proc[q]
      BY <1>1, <2>4, Frame
    <3>2. CASE s \in RunIds /\ s # r
      <4>1. /\ runFile'[s] = runFile[s] /\ receipts'[s] = receipts[s]
            /\ report'[s] = report[s] /\ exitCode'[s] = exitCode[s]
        BY <1>1, <3>2, Frame, FrameFiles
      <4>. QED BY <2>1, <3>1, <4>1 DEF FilesInv, OwnFiles, StatusKept
    <3>3. CASE s = r
      <4>1. proc[q].pc = "idle"
        BY <2>1, <2>4, <3>3 DEF OrderInv, OneWriter
      <4>2. proc[q].exit # 0 /\ proc[q].exit # 5
        BY <2>1, <3>3 DEF FilesInv, OwnFiles, StatusKept
      <4>. QED BY <2>1, <3>1, <3>3, <4>1, <4>2 DEF FilesInv, OwnFiles, StatusKept
    <3>4. CASE s \notin RunIds
      <4>1. proc[q].pc = "idle" /\ proc[q].exit = Unset
        BY <3>4 DEF TypeOK, FilesInv, StatusKept
      <4>. QED BY <3>1, <4>1 DEF FilesInv, OwnFiles, StatusKept, Unset
    <3>. QED BY <3>2, <3>3, <3>4
  <2>5. ASSUME NEW s \in RunIds PROVE RunFiles(s)'
    <3>1. CASE s = r
      BY <1>1, <2>1, <3>1, OwnRunFiles DEF FilesInv
    <3>2. CASE s # r
      <4>1. runFile'[s] = runFile[s] /\ receipts'[s] = receipts[s] /\ report'[s] = report[s]
        BY <1>1, <3>2, Frame, FrameFiles
      <4>. QED BY <2>1, <4>1 DEF FilesInv, RunFiles, Plan
    <3>. QED BY <3>1, <3>2
  <2>. QED BY <2>2, <2>3, <2>4, <2>5 DEF FilesInv
<1>2. CASE Edit \/ UNCHANGED vars
  <2>1. UNCHANGED <<runFile, receipts, report, exitCode, proc, used>>
    BY <1>2 DEF Edit, vars, environment, disk
  <2>. QED BY <2>1 DEF FilesInv, OwnFiles, StatusKept, RunFiles, Plan
<1>. QED BY <1>1, <1>2, FilesStart DEF Next

\* All there is to know about a directory whose run ids are fresh.
FreshInv == TypeOK /\ OrderInv /\ FailInv /\ CodeInv /\ FilesInv

\* The empty directory.
LEMMA FreshInit == Init => FreshInv
BY TypeInit, OrderInit, FailInit, CodeInit, FilesInit DEF FreshInv

\* Every step keeps all of it.
LEMMA FreshNext ==
  ASSUME Reuse = "fresh"
  PROVE  FreshInv /\ [Next]_vars => FreshInv'
BY TypeNext, OrderNext, FailNext, CodeNext, FilesNext DEF FreshInv, NotShared

(***************************************************************************)
(* With run ids that are never used twice, the exit status the command gave *)
(* its caller keeps agreeing with record, exit code and report.             *)
(***************************************************************************)
THEOREM ExitStatuses ==
  ASSUME Reuse = "fresh"
  PROVE  Spec => []ExitStatusAgrees
<1>1. FreshInv => ExitStatusAgrees
  BY DEF FreshInv, FilesInv, StatusKept, RunFiles, ExitStatusAgrees
<1>. QED BY <1>1, FreshInit, FreshNext, PTL DEF Spec

(***************************************************************************)
(* With run ids that are never used twice, a report ranks exactly the       *)
(* receipts the completed record of its run counts.                         *)
(***************************************************************************)
THEOREM ReportsMatch ==
  ASSUME Reuse = "fresh"
  PROVE  Spec => []ReportMatchesRun
<1>1. ASSUME FreshInv PROVE ReportMatchesRun
  <2>1. ASSUME NEW r \in RunIds, report[r].state = "written", NEW c \in Cases
        PROVE  IF c \in Plan(r) THEN report[r].body[c] = receipts[r][c] /\ Sealed(r, c)
                                ELSE report[r].body[c] = NoReceipt
    BY <1>1, <2>1 DEF FreshInv, FilesInv, RunFiles, OrderInv, CompletedRunHasItsEvidence
  <2>. QED BY <1>1, <2>1 DEF FreshInv, FilesInv, RunFiles, ReportMatchesRun
<1>. QED BY <1>1, FreshInit, FreshNext, PTL DEF Spec

\* One step: a receipt is only ever opened where there is none.
LEMMA SealedKept ==
  ASSUME FreshInv, [Next]_vars, NEW r \in RunIds, NEW c \in Cases, Sealed(r, c)
  PROVE  receipts'[r][c] = receipts[r][c]
<1>1. CASE receipts' = receipts
  BY <1>1
<1>2. ASSUME NEW p \in Procs, Step(p) \/ Die(p), proc[p].pc = "seal"
      PROVE  receipts'[r][c] = receipts[r][c]
  <2>1. CASE r # proc[p].run
    BY <1>2, <2>1, Frame DEF FreshInv
  <2>2. CASE r = proc[p].run
    <3>1. c \in proc[p].done /\ c \notin proc[p].cur
      BY <1>2, <2>2 DEF FreshInv, FilesInv, OwnFiles, Sealed, NoReceipt, TornReceipt
    <3>2. CASE OpenReceipt(p)
      BY <2>2, <3>1, <3>2 DEF OpenReceipt, FreshInv, TypeOK, Receipts
    <3>3. CASE SealReceipt(p)
      BY <2>2, <3>1, <3>3 DEF SealReceipt, FreshInv, TypeOK, Receipts
    <3>4. CASE WriteExit0(p) \/ Die(p)
      BY <3>4 DEF WriteExit0, Die, disk
    <3>. QED BY <1>2, <3>2, <3>3, <3>4
             DEF Step, At, Hashed, HashBefore, PreflightFails, ClearWorkspace, CopyFile,
                 OpenRunning, WriteRunning, Attack, AttackUnsupported, AttacksDone, HashAfter,
                 WriteExit5, OpenFailed, WriteFailed, Accept, OpenCompleted, WriteCompleted,
                 LoadFails, LoadReceipts, OpenReport, WriteReport
  <2>. QED BY <2>1, <2>2
<1>3. ASSUME NEW p \in Procs, Step(p) \/ Die(p), proc[p].pc # "seal"
      PROVE  receipts' = receipts
  BY <1>3, ReceiptsKept DEF FreshInv
<1>4. ASSUME NEW p \in Procs, NEW s \in RunIds, NEW plan \in Plans, Start(p, s, plan)
      PROVE  receipts' = receipts
  BY <1>4 DEF Start, disk
<1>5. CASE Edit \/ UNCHANGED vars
  BY <1>5 DEF Edit, vars, disk
<1>. QED BY <1>1, <1>2, <1>3, <1>4, <1>5 DEF Next

\* One step: a completed record is never touched again.
LEMMA CompletedKept ==
  ASSUME FreshInv, [Next]_vars, NEW r \in RunIds, runFile[r].status = "completed"
  PROVE  runFile'[r] = runFile[r]
<1>1. ASSUME NEW p \in Procs, Step(p) \/ Die(p), proc[p].run = r
      PROVE  runFile'[r] = runFile[r]
  <2>1. proc[p].pc \in {"load", "report", "write_report"}
    BY <1>1, Frame DEF FreshInv, FilesInv, OwnFiles
  <2>. QED BY <1>1, <2>1
           DEF Step, Die, disk, At, Hashed, HashBefore, PreflightFails, ClearWorkspace,
               CopyFile, OpenRunning, WriteRunning, Attack, AttackUnsupported, AttacksDone,
               HashAfter, WriteExit5, OpenFailed, WriteFailed, Accept, OpenReceipt,
               SealReceipt, WriteExit0, OpenCompleted, WriteCompleted, LoadFails,
               LoadReceipts, OpenReport, WriteReport
<1>2. ASSUME NEW p \in Procs, Step(p) \/ Die(p), proc[p].run # r
      PROVE  runFile'[r] = runFile[r]
  BY <1>2, Frame DEF FreshInv
<1>3. ASSUME NEW p \in Procs, NEW s \in RunIds, NEW plan \in Plans, Start(p, s, plan)
      PROVE  runFile' = runFile
  BY <1>3 DEF Start, disk
<1>4. CASE Edit \/ UNCHANGED vars
  BY <1>4 DEF Edit, vars, disk
<1>. QED BY <1>1, <1>2, <1>3, <1>4 DEF Next

\* One step: a written report is never touched again.
LEMMA ReportKept ==
  ASSUME FreshInv, [Next]_vars, NEW r \in RunIds, report[r].state = "written"
  PROVE  report'[r] = report[r]
<1>1. ASSUME NEW p \in Procs, Step(p) \/ Die(p) PROVE report'[r] = report[r]
  <2>1. proc[p].run # r
    BY <1>1, Frame DEF FreshInv, FilesInv, OwnFiles
  <2>. QED BY <1>1, <2>1, FrameFiles DEF FreshInv
<1>2. ASSUME NEW p \in Procs, NEW s \in RunIds, NEW plan \in Plans, Start(p, s, plan)
      PROVE  report' = report
  BY <1>2 DEF Start, disk
<1>3. CASE Edit \/ UNCHANGED vars
  BY <1>3 DEF Edit, vars, disk
<1>. QED BY <1>1, <1>2, <1>3 DEF Next

(***************************************************************************)
(* With run ids that are never used twice, a sealed receipt is never        *)
(* truncated or rewritten.                                                  *)
(***************************************************************************)
THEOREM SealedFinal ==
  ASSUME Reuse = "fresh"
  PROVE  Spec => SealedReceiptsAreFinal
<1>1. FreshInv /\ [Next]_vars =>
        [\A r \in RunIds, c \in Cases : Sealed(r, c) => receipts'[r][c] = receipts[r][c]]_vars
  BY SealedKept
<1>. QED BY <1>1, FreshInit, FreshNext, PTL DEF Spec, SealedReceiptsAreFinal
=============================================================================
