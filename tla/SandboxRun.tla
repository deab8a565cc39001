----------------------------- MODULE SandboxRun -----------------------------
(***************************************************************************)
(* `failureforge run-sandbox`: SandboxRunner.run and the CLI command around *)
(* it.  Processes share one sandbox directory without any lock.  Each one   *)
(* hashes the canonical source, copies it into the workspace of its run id, *)
(* attacks the copy, hashes the source again and then either refuses the    *)
(* run or seals its receipts, completes the run record and writes a report. *)
(*                                                                          *)
(* A file write is two steps, because Path.write_text truncates the file    *)
(* before it fills it: other processes, and a crash, can see the torn file. *)
(* A source tree is a version number per file; hashing and copying read one *)
(* file per step while the source may be edited.                            *)
(***************************************************************************)
EXTENDS Integers, FiniteSets

CONSTANTS
  Procs,        \* operating-system processes running the command
  RunIds,       \* sandbox run ids
  Files,        \* files of the canonical source tree
  Cases,        \* failure cases the agents can produce
  NoRun,        \* not a run id
  Plans,        \* the sets of cases an invocation may ask its agents for
  Preflighted,  \* cases of agents with a generate_default_catalog
  Supported,    \* cases whose attack family the target adapter supports
  Reuse,        \* how callers choose run ids: "fresh", "serial" or "shared"
  Restores,     \* may an edit put back an earlier version of a file?
  MaxEdits,     \* bound on edits of the source
  MaxAttempts,  \* bound on invocations
  MaxDeaths     \* bound on processes that die half-way

ASSUME ConstantsAssumption ==
  /\ NoRun \notin RunIds
  /\ Plans \subseteq SUBSET Cases
  /\ Reuse \in {"fresh", "serial", "shared"}
  /\ Restores \in BOOLEAN
  /\ MaxEdits \in Nat /\ MaxAttempts \in Nat /\ MaxDeaths \in Nat

VARIABLES
  source,     \* the canonical tree: the version of each file
  edits,      \* edits made so far; the newest version there is
  workspace,  \* sandbox/workspaces/<run id>: the copied tree
  runFile,    \* sandbox/runs/<run id>/sandbox_run.json
  exitCode,   \* sandbox/runs/<run id>/exit_code.txt
  receipts,   \* sandbox/receipts/: one file per run id and case
  report,     \* sandbox/reports/: the hardening report of a run id
  proc,       \* the processes
  used,       \* run ids some invocation was given
  attempts,   \* invocations so far; tells the timestamps of two attempts apart
  deaths      \* processes that died half-way

disk == <<workspace, runFile, exitCode, receipts, report>>
environment == <<source, edits, used, attempts, deaths>>
vars == <<environment, disk, proc>>

-----------------------------------------------------------------------------
Gone == -1                       \* the version of a file that is not there
Unset == -1                      \* no exit code yet
Version == 0..MaxEdits
Tree == [Files -> Version \cup {Gone}]
NoTree == [f \in Files |-> Gone]

\* A receipt's promise is the tree its attack observed; `attempt` stands for
\* created_at, which the receipt hash covers.
Receipt == [state : {"absent", "torn", "sealed"}, attempt : Nat, seen : Tree]
NoReceipt == [state |-> "absent", attempt |-> 0, seen |-> NoTree]
TornReceipt == [NoReceipt EXCEPT !.state = "torn"]
Receipts == [Cases -> Receipt]
NoReceipts == [c \in Cases |-> NoReceipt]

\* `plan` stands for agent_lanes; receipt_count is 0 unless the status is
\* "completed", when it is the number of cases of the plan.
RunRecord == [status : {"absent", "torn", "running", "completed", "failed"},
              attempt : Nat, plan : SUBSET Cases, before : Tree]
NoRecord == [status |-> "absent", attempt |-> 0, plan |-> {}, before |-> NoTree]
TornRecord == [NoRecord EXCEPT !.status = "torn"]

Report == [state : {"absent", "torn", "written"}, attempt : Nat, body : Receipts]
NoReport == [state |-> "absent", attempt |-> 0, body |-> NoReceipts]
TornReport == [NoReport EXCEPT !.state = "torn"]

ControlPoints ==
  {"idle", "hash_before", "copy", "write_running", "attack", "hash_after",
   "refuse", "write_failed", "seal", "complete", "write_completed", "load", "report", "write_report"}

Process ==
  [pc : ControlPoints, run : RunIds \cup {NoRun}, attempt : Nat,
   plan : SUBSET Cases,
   todo : SUBSET Files,     \* files the current pass has still to read
   before : Tree,           \* what canonical_hash_before was computed from
   after : Tree,            \* what canonical_hash_after was computed from
   done : SUBSET Cases,     \* cases the current loop is finished with
   cur : SUBSET Cases,      \* the case whose receipt file is truncated
   seen : [Cases -> Tree],  \* receipt_docs: what each attack observed
   found : Receipts,        \* what load_and_verify_receipts returned for the run
   exit : {Unset, 0, 1, 5}] \* the exit status of the last invocation

Idle == [pc |-> "idle", run |-> NoRun, attempt |-> 0, plan |-> {}, todo |-> {},
         before |-> NoTree, after |-> NoTree, done |-> {}, cur |-> {},
         seen |-> [c \in Cases |-> NoTree], found |-> NoReceipts, exit |-> Unset]

TypeOK ==
  /\ source \in [Files -> Version]
  /\ edits \in Version
  /\ workspace \in [RunIds -> Tree]
  /\ runFile \in [RunIds -> RunRecord]
  /\ exitCode \in [RunIds -> {Unset, 0, 5}]
  /\ receipts \in [RunIds -> Receipts]
  /\ report \in [RunIds -> Report]
  /\ proc \in [Procs -> Process]
  /\ \A p \in Procs : proc[p].pc # "idle" => proc[p].run \in RunIds
  /\ used \subseteq RunIds
  /\ attempts \in Nat
  /\ deaths \in Nat

Init ==
  /\ source = [f \in Files |-> 0]
  /\ edits = 0
  /\ workspace = [r \in RunIds |-> NoTree]
  /\ runFile = [r \in RunIds |-> NoRecord]
  /\ exitCode = [r \in RunIds |-> Unset]
  /\ receipts = [r \in RunIds |-> NoReceipts]
  /\ report = [r \in RunIds |-> NoReport]
  /\ proc = [p \in Procs |-> Idle]
  /\ used = {}
  /\ attempts = 0
  /\ deaths = 0

-----------------------------------------------------------------------------
(* The source tree, edited by a developer or by the code under attack.      *)

\* A file gets a new version or, if edits may restore one, an earlier version.
Edit ==
  /\ edits < MaxEdits
  /\ edits' = edits + 1
  /\ \E f \in Files, v \in IF Restores THEN 0..(edits + 1) ELSE {edits + 1} :
       /\ v # source[f]
       /\ source' = [source EXCEPT ![f] = v]
  /\ UNCHANGED <<disk, proc, used, attempts, deaths>>

-----------------------------------------------------------------------------
(* One invocation.  Nothing in the code refuses a run id that is in use or  *)
(* was used: mkdir(exist_ok=True), and the caller chooses --run-id.         *)

Live(r) == \E p \in Procs : proc[p].pc # "idle" /\ proc[p].run = r

\* Bug: the default run id is not unique enough, a later run gets it again.
BugMayUse(r) == ~Live(r)

MayUse(r) ==
  \/ Reuse = "shared"
  \/ Reuse = "serial" /\ ~Live(r)
  \/ Reuse = "fresh" /\ r \notin used

At(p, point) == proc[p].pc = point
Become(p, state) == proc' = [proc EXCEPT ![p] = state]

Start(p, r, plan) ==
  /\ At(p, "idle")
  /\ attempts < MaxAttempts
  /\ MayUse(r)
  /\ attempts' = attempts + 1
  /\ used' = used \cup {r}
  /\ Become(p, [Idle EXCEPT !.pc = "hash_before", !.run = r, !.plan = plan,
                            !.attempt = attempts + 1, !.todo = Files])
  /\ UNCHANGED <<source, edits, disk, deaths>>


\* Bug: the exit status is off by one.
BugExit(p, code) ==
  Become(p, [Idle EXCEPT !.run = proc[p].run, !.exit = code + 1])

Exit(p, code) ==
  Become(p, [Idle EXCEPT !.run = proc[p].run, !.exit = code])

\* One file of _hash_tree.  The code reads them in sorted order; the digest
\* is compared whole, so every order is allowed here.
HashBefore(p) ==
  /\ At(p, "hash_before")
  /\ \E f \in proc[p].todo :
       Become(p, [proc[p] EXCEPT !.before = [@ EXCEPT ![f] = source[f]], !.todo = @ \ {f}])
  /\ UNCHANGED <<environment, disk>>

\* _preflight_agent_catalogs raises: nothing has been written yet.
PreflightFails(p) ==
  /\ At(p, "hash_before") /\ proc[p].todo = {}
  /\ ~(proc[p].plan \cap Preflighted \subseteq Supported)
  /\ Exit(p, 1)
  /\ UNCHANGED <<environment, disk>>

\* Bug: a workspace that is already there is not copied again.
BugClearWorkspace(p) ==
  /\ At(p, "hash_before") /\ proc[p].todo = {}
  /\ proc[p].plan \cap Preflighted \subseteq Supported
  /\ Become(p, [proc[p] EXCEPT !.pc = "copy",
                          !.todo = {f \in Files : workspace[proc[p].run][f] = Gone}])
  /\ UNCHANGED <<environment, disk>>

\* The preflight passes; _copy_workspace removes the previous copy.
ClearWorkspace(p) ==
  /\ At(p, "hash_before") /\ proc[p].todo = {}
  /\ proc[p].plan \cap Preflighted \subseteq Supported
  /\ workspace' = [workspace EXCEPT ![proc[p].run] = NoTree]
  /\ Become(p, [proc[p] EXCEPT !.pc = "copy", !.todo = Files])
  /\ UNCHANGED <<environment, runFile, exitCode, receipts, report>>

CopyFile(p) ==
  /\ At(p, "copy")
  /\ \E f \in proc[p].todo :
       /\ workspace' = [workspace EXCEPT ![proc[p].run][f] = source[f]]
       /\ Become(p, [proc[p] EXCEPT !.todo = @ \ {f}])
  /\ UNCHANGED <<environment, runFile, exitCode, receipts, report>>

TruncateRecord(p) == runFile' = [runFile EXCEPT ![proc[p].run] = TornRecord]

WriteRecord(p, status) ==
  runFile' = [runFile EXCEPT ![proc[p].run] =
                [status |-> status, attempt |-> proc[p].attempt,
                 plan |-> proc[p].plan, before |-> proc[p].before]]

\* Bug: the running record is kept in memory only.
BugOpenRunning(p) ==
  /\ At(p, "copy") /\ proc[p].todo = {}
  /\ Become(p, [proc[p] EXCEPT !.pc = "attack"])
  /\ UNCHANGED <<environment, disk>>

OpenRunning(p) ==
  /\ At(p, "copy") /\ proc[p].todo = {}
  /\ TruncateRecord(p)
  /\ Become(p, [proc[p] EXCEPT !.pc = "write_running"])
  /\ UNCHANGED <<environment, workspace, exitCode, receipts, report>>

WriteRunning(p) ==
  /\ At(p, "write_running")
  /\ WriteRecord(p, "running")
  /\ Become(p, [proc[p] EXCEPT !.pc = "attack"])
  /\ UNCHANGED <<environment, workspace, exitCode, receipts, report>>

\* Bug: the receipt is written as soon as it is built.
BugAttack(p) ==
  /\ At(p, "attack")
  /\ \E c \in (proc[p].plan \ proc[p].done) \cap Supported :
       /\ Become(p, [proc[p] EXCEPT !.seen = [@ EXCEPT ![c] = workspace[proc[p].run]], !.done = @ \cup {c}])
       /\ receipts' = [receipts EXCEPT ![proc[p].run][c] =
                         [state |-> "sealed", attempt |-> proc[p].attempt,
                          seen |-> workspace[proc[p].run]]]
  /\ UNCHANGED <<environment, workspace, runFile, exitCode, report>>

\* One case: the attack runs on the workspace as it now is, and its receipt
\* is built in memory.
Attack(p) ==
  /\ At(p, "attack")
  /\ \E c \in (proc[p].plan \ proc[p].done) \cap Supported :
       Become(p, [proc[p] EXCEPT !.seen = [@ EXCEPT ![c] = workspace[proc[p].run]], !.done = @ \cup {c}])
  /\ UNCHANGED <<environment, disk>>

\* ensure_attack_family_supported raises; the record is left "running".
AttackUnsupported(p) ==
  /\ At(p, "attack")
  /\ \E c \in proc[p].plan \ proc[p].done : c \notin Supported
  /\ Exit(p, 1)
  /\ UNCHANGED <<environment, disk>>

AttacksDone(p) ==
  /\ At(p, "attack") /\ proc[p].plan \subseteq proc[p].done
  /\ Become(p, [proc[p] EXCEPT !.pc = "hash_after", !.todo = Files])
  /\ UNCHANGED <<environment, disk>>

HashAfter(p) ==
  /\ At(p, "hash_after")
  /\ \E f \in proc[p].todo :
       Become(p, [proc[p] EXCEPT !.after = [@ EXCEPT ![f] = source[f]], !.todo = @ \ {f}])
  /\ UNCHANGED <<environment, disk>>

Hashed(p) == At(p, "hash_after") /\ proc[p].todo = {}
\* Bug: the source counts as changed only when every file of it changed.
BugMutated(p) == \A f \in Files : proc[p].after[f] # proc[p].before[f]

Mutated(p) == proc[p].after # proc[p].before

\* The refusal: exit_code.txt, then the failed record, then the exception
\* that cmd_run_sandbox turns into exit status 5.
WriteExit5(p) ==
  /\ Hashed(p) /\ Mutated(p)
  /\ exitCode' = [exitCode EXCEPT ![proc[p].run] = 5]
  /\ Become(p, [proc[p] EXCEPT !.pc = "refuse"])
  /\ UNCHANGED <<environment, workspace, runFile, receipts, report>>

\* Bug: the exception is raised before the failed record is written.
BugOpenFailed(p) ==
  /\ At(p, "refuse")
  /\ Exit(p, 5)
  /\ UNCHANGED <<environment, disk>>

OpenFailed(p) ==
  /\ At(p, "refuse")
  /\ TruncateRecord(p)
  /\ Become(p, [proc[p] EXCEPT !.pc = "write_failed"])
  /\ UNCHANGED <<environment, workspace, exitCode, receipts, report>>

WriteFailed(p) ==
  /\ At(p, "write_failed")
  /\ WriteRecord(p, "failed")
  /\ Exit(p, 5)
  /\ UNCHANGED <<environment, workspace, exitCode, receipts, report>>

\* The acceptance: the receipts one by one, exit_code.txt, the record.
Accept(p) ==
  /\ Hashed(p) /\ ~Mutated(p)
  /\ Become(p, [proc[p] EXCEPT !.pc = "seal", !.done = {}])
  /\ UNCHANGED <<environment, disk>>

OpenReceipt(p) ==
  /\ At(p, "seal") /\ proc[p].cur = {}
  /\ \E c \in proc[p].plan \ proc[p].done :
       /\ receipts' = [receipts EXCEPT ![proc[p].run][c] = TornReceipt]
       /\ Become(p, [proc[p] EXCEPT !.cur = {c}])
  /\ UNCHANGED <<environment, workspace, runFile, exitCode, report>>

SealReceipt(p) ==
  /\ At(p, "seal")
  /\ \E c \in proc[p].cur :
       /\ receipts' = [receipts EXCEPT ![proc[p].run][c] =
                         [state |-> "sealed", attempt |-> proc[p].attempt,
                          seen |-> proc[p].seen[c]]]
       /\ Become(p, [proc[p] EXCEPT !.cur = {}, !.done = @ \cup {c}])
  /\ UNCHANGED <<environment, workspace, runFile, exitCode, report>>

\* Bug: an exit_code.txt that is already there is kept.
BugWriteExit0(p) ==
  /\ At(p, "seal") /\ proc[p].cur = {} /\ proc[p].plan \subseteq proc[p].done
  /\ exitCode' = [exitCode EXCEPT ![proc[p].run] = IF @ = Unset THEN 0 ELSE @]
  /\ Become(p, [proc[p] EXCEPT !.pc = "complete"])
  /\ UNCHANGED <<environment, workspace, runFile, receipts, report>>

WriteExit0(p) ==
  /\ At(p, "seal") /\ proc[p].cur = {} /\ proc[p].plan \subseteq proc[p].done
  /\ exitCode' = [exitCode EXCEPT ![proc[p].run] = 0]
  /\ Become(p, [proc[p] EXCEPT !.pc = "complete"])
  /\ UNCHANGED <<environment, workspace, runFile, receipts, report>>

OpenCompleted(p) ==
  /\ At(p, "complete")
  /\ TruncateRecord(p)
  /\ Become(p, [proc[p] EXCEPT !.pc = "write_completed"])
  /\ UNCHANGED <<environment, workspace, exitCode, receipts, report>>

WriteCompleted(p) ==
  /\ At(p, "write_completed")
  /\ WriteRecord(p, "completed")
  /\ Become(p, [proc[p] EXCEPT !.pc = "load"])
  /\ UNCHANGED <<environment, workspace, exitCode, receipts, report>>

\* load_and_verify_receipts reads every receipt of every run and raises on
\* the first one that does not parse.
Unreadable == \E r \in RunIds, c \in Cases : receipts[r][c].state = "torn"

LoadFails(p) ==
  /\ At(p, "load") /\ Unreadable
  /\ Exit(p, 1)
  /\ UNCHANGED <<environment, disk>>

\* Bug: the receipts read back are not filtered by run id.
BugLoadReceipts(p) ==
  /\ At(p, "load") /\ ~Unreadable
  /\ \E r \in RunIds : Become(p, [proc[p] EXCEPT !.pc = "report", !.found = receipts[r]])
  /\ UNCHANGED <<environment, disk>>

LoadReceipts(p) ==
  /\ At(p, "load") /\ ~Unreadable
  /\ Become(p, [proc[p] EXCEPT !.pc = "report", !.found = receipts[proc[p].run]])
  /\ UNCHANGED <<environment, disk>>

OpenReport(p) ==
  /\ At(p, "report")
  /\ report' = [report EXCEPT ![proc[p].run] = TornReport]
  /\ Become(p, [proc[p] EXCEPT !.pc = "write_report"])
  /\ UNCHANGED <<environment, workspace, runFile, exitCode, receipts>>

WriteReport(p) ==
  /\ At(p, "write_report")
  /\ report' = [report EXCEPT ![proc[p].run] =
                  [state |-> "written", attempt |-> proc[p].attempt, body |-> proc[p].found]]
  /\ Exit(p, 0)
  /\ UNCHANGED <<environment, workspace, runFile, exitCode, receipts>>

\* A kill, or an exception of an agent or of the file system: the files
\* stay as they are and no handler repairs them.
Die(p) ==
  /\ proc[p].pc # "idle"
  /\ deaths < MaxDeaths
  /\ deaths' = deaths + 1
  /\ Exit(p, 1)
  /\ UNCHANGED <<source, edits, disk, used, attempts>>

-----------------------------------------------------------------------------
Step(p) ==
  \/ HashBefore(p) \/ PreflightFails(p) \/ ClearWorkspace(p) \/ CopyFile(p)
  \/ OpenRunning(p) \/ WriteRunning(p)
  \/ Attack(p) \/ AttackUnsupported(p) \/ AttacksDone(p) \/ HashAfter(p)
  \/ WriteExit5(p) \/ OpenFailed(p) \/ WriteFailed(p)
  \/ Accept(p) \/ OpenReceipt(p) \/ SealReceipt(p)
  \/ WriteExit0(p) \/ OpenCompleted(p) \/ WriteCompleted(p)
  \/ LoadFails(p) \/ LoadReceipts(p) \/ OpenReport(p) \/ WriteReport(p)

Next ==
  \/ Edit
  \/ \E p \in Procs :
       \/ \E r \in RunIds, plan \in Plans : Start(p, r, plan)
       \/ Step(p)
       \/ Die(p)

Spec == Init /\ [][Next]_vars

-----------------------------------------------------------------------------
(* Safety of the sandbox directory.                                         *)

Plan(r) == runFile[r].plan
Sealed(r, c) == receipts[r][c].state = "sealed"

(***************************************************************************)
(* Whoever reads a completed run record finds every receipt it counts, all  *)
(* sealed by that very attempt: the record is written last, and an earlier  *)
(* attempt's completed record is gone before its receipts are overwritten   *)
(* (sandbox.py run, _write_receipts).                                       *)
(***************************************************************************)
CompletedRunHasItsEvidence ==
  \A r \in RunIds : runFile[r].status = "completed" =>
    \A c \in Plan(r) : Sealed(r, c) /\ receipts[r][c].attempt = runFile[r].attempt

(***************************************************************************)
(* The receipts of a completed run were observed on the very tree its       *)
(* canonical_source_hash_before names, although hashing and copying read    *)
(* the tree file by file while it may be edited: comparing the two hashes   *)
(* is enough as long as no edit brings an earlier version back.             *)
(***************************************************************************)
EvidenceFromRecordedSource ==
  \A r \in RunIds : runFile[r].status = "completed" =>
    \A c \in Plan(r) : receipts[r][c].seen = runFile[r].before

(***************************************************************************)
(* A run that failed because the source changed leaves no receipt behind,   *)
(* not even a torn one: README, "the run fails with no accepted receipts".  *)
(***************************************************************************)
FailClosed ==
  \A r \in RunIds : runFile[r].status = "failed" => receipts[r] = NoReceipts

(***************************************************************************)
(* exit_code.txt agrees with a run record that is final, whatever earlier   *)
(* attempts of the same run id left in the directory.                       *)
(***************************************************************************)
ExitCodeAgrees ==
  \A r \in RunIds :
    /\ runFile[r].status = "completed" => exitCode[r] = 0
    /\ runFile[r].status = "failed" => exitCode[r] = 5

(***************************************************************************)
(* The exit status the command gave its caller agrees with the files: 0     *)
(* means a completed record and a report, 5 a failed record and exit code   *)
(* 5, and no report exists for a run that is not completed.  Status 1 says  *)
(* nothing: the run may be completed, and a receipt of another run have     *)
(* kept the command from reading its own back.                              *)
(***************************************************************************)
ExitStatusAgrees ==
  /\ \A p \in Procs : LET r == proc[p].run IN
       /\ proc[p].exit = 0 => runFile[r].status = "completed" /\ report[r].state = "written"
       /\ proc[p].exit = 5 => runFile[r].status = "failed" /\ exitCode[r] = 5
  /\ \A r \in RunIds : report[r].state = "written" => runFile[r].status = "completed"

(***************************************************************************)
(* The hardening report of a run id ranks exactly the receipts its          *)
(* completed record counts, although the command reads them back from a     *)
(* directory all runs share (cmd_run_sandbox).                              *)
(***************************************************************************)
ReportMatchesRun ==
  \A r \in RunIds : report[r].state = "written" =>
    /\ report[r].attempt = runFile[r].attempt
    /\ \A c \in Cases :
         IF c \in Plan(r) THEN report[r].body[c] = receipts[r][c] /\ Sealed(r, c)
                          ELSE report[r].body[c] = NoReceipt

(***************************************************************************)
(* A receipt file that was sealed is never truncated or rewritten: README,  *)
(* "Receipts are immutable after write".                                    *)
(***************************************************************************)
SealedReceiptsAreFinal ==
  [][\A r \in RunIds, c \in Cases : Sealed(r, c) => receipts'[r][c] = receipts[r][c]]_vars

(***************************************************************************)
(* The boundary rule of the adapter: nothing is copied for an invocation    *)
(* that is going to attack with a family the adapter does not support.      *)
(***************************************************************************)
UnsupportedFailsBeforeCopy ==
  \A p \in Procs : At(p, "copy") => proc[p].plan \subseteq Supported

(***************************************************************************)
(* Every run record that says "running" becomes final, when nobody kills    *)
(* the process and the adapter supports what the agents do.                 *)
(***************************************************************************)
EveryRunConcludes ==
  \A r \in RunIds :
    runFile[r].status = "running" ~> runFile[r].status \in {"completed", "failed"}

-----------------------------------------------------------------------------
(* The directory implements the ledger.                                     *)

StandingOf(status) ==
  CASE status = "absent" -> "none"
    [] status \in {"torn", "running"} -> "open"
    [] status = "completed" -> "published"
    [] status = "failed" -> "refused"

standing == [r \in RunIds |-> StandingOf(runFile[r].status)]

evidence ==
  [r \in RunIds |-> [c \in {d \in Cases : Sealed(r, d)} |-> receipts[r][c].seen]]

subject ==
  [r \in RunIds |-> IF runFile[r].status = "completed" THEN runFile[r].before ELSE NoTree]

Ledger == INSTANCE EvidenceLedger WITH Trees <- Tree, NoSubject <- NoTree

(***************************************************************************)
(* A directory whose run ids are fresh keeps the promise of EvidenceLedger. *)
(***************************************************************************)
ImplementsLedger == Ledger!LedgerSpec
=============================================================================
