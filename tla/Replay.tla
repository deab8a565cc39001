------------------------------- MODULE Replay -------------------------------
(***************************************************************************)
(* `failureforge replay <receipt>`: cmd_replay and replay_receipt, run by   *)
(* several processes over the receipts that sandbox runs leave behind.  The *)
(* sandbox runs themselves are the abstract ledger that SandboxRun is shown *)
(* to implement; here they only add evidence.  That takes for granted what  *)
(* the refinement does: run ids are used once, so nobody writes a receipt   *)
(* again after it has been replayed.                                        *)
(*                                                                          *)
(* A source tree is one version, a number that stands for its contents: an  *)
(* edit may leave any version, an earlier one too.  That hashing and        *)
(* copying read the tree file by file, and that a record can be torn, is    *)
(* the subject of SandboxRun.  The directory of a replay is named after the *)
(* receipt, so every replay of one receipt uses the same workspace, record  *)
(* and exit_code.txt.                                                       *)
(***************************************************************************)
EXTENDS Integers

CONSTANTS
  Procs,       \* operating-system processes running the command
  RunIds,      \* sandbox run ids
  Cases,       \* failure cases the agents of a run may have produced
  Catalog,     \* those that are in the default catalog of EdgeCaseAgent
  Failing,     \* pairs of a case and a version on which its attack succeeds
  NoReceipt,   \* not a receipt
  MaxVersion,  \* bound on the different contents of the source
  MaxEdits,    \* bound on edits of the source
  MaxReplays,  \* bound on invocations
  MaxDeaths    \* bound on processes that die half-way

Versions == 0..MaxVersion
Receipts == RunIds \X Cases

ASSUME ReplayAssumption ==
  /\ Catalog \subseteq Cases
  /\ Failing \subseteq Cases \X Versions
  /\ NoReceipt \notin Receipts
  /\ MaxVersion \in Nat /\ MaxEdits \in Nat /\ MaxReplays \in Nat /\ MaxDeaths \in Nat

VARIABLES
  standing, evidence, subject,  \* the ledger of the sandbox runs
  source,     \* the version of the canonical source
  edits,      \* edits made so far
  corrupt,    \* receipt files whose contents no longer match their hash
  workspace,  \* workspaces/SR-replay-<receipt>
  record,     \* runs/SR-replay-<receipt>/sandbox_run.json
  exitCode,   \* runs/SR-replay-<receipt>/exit_code.txt
  proc,       \* the processes
  replays,    \* invocations so far; tells the timestamps of two replays apart
  deaths,     \* processes that died half-way
  contested,  \* history: receipts two processes have replayed at the same time
  undone      \* history: receipts of replays whose first version an edit put
              \* back before the second hash

ledgerVars == <<standing, evidence, subject>>
disk == <<workspace, record, exitCode>>
environment == <<ledgerVars, source, edits, corrupt, replays, deaths, contested, undone>>
vars == <<environment, disk, proc>>

Gone == -1   \* no workspace
Unset == -1  \* no exit code yet

Sandbox == INSTANCE EvidenceLedger WITH Trees <- Versions, NoSubject <- Gone

OnRecord(x) == x[2] \in DOMAIN evidence[x[1]]
SealedOn(x) == evidence[x[1]][x[2]]

\* actual_result and classification of an attack on a copy of a version.
Observation(c, v) ==
  IF v = Gone THEN "unloadable"
  ELSE IF <<c, v>> \in Failing THEN "failure" ELSE "no_failure_observed"

Observations == {"unloadable", "failure", "no_failure_observed", "none"}

Record == [status : {"absent", "running", "completed", "failed"}, replay : Nat, before : Versions]
NoRecord == [status |-> "absent", replay |-> 0, before |-> 0]

Process ==
  [pc : {"idle", "load", "hash_before", "clear", "copy", "write_running", "attack",
         "hash_after", "compare", "refuse", "write_completed", "write_failed"},
   receipt : Receipts \cup {NoReceipt}, replay : Nat,
   original : Observations,  \* what the receipt says, as it was when it was read
   before : Versions, after : Versions,
   outcome : Observations,
   exit : {Unset, 0, 1, 2, 5}]

Idle == [pc |-> "idle", receipt |-> NoReceipt, replay |-> 0, original |-> "none",
         before |-> 0, after |-> 0, outcome |-> "none", exit |-> Unset]

\* The cases on record for a run, with the version each was observed on.
Holdings == UNION {[D -> Versions] : D \in SUBSET Cases}

TypeOK ==
  /\ source \in Versions
  /\ edits \in Nat
  /\ evidence \in [RunIds -> Holdings]
  /\ corrupt \subseteq Receipts
  /\ workspace \in [Receipts -> Versions \cup {Gone}]
  /\ record \in [Receipts -> Record]
  /\ exitCode \in [Receipts -> {Unset, 0, 2, 5}]
  /\ proc \in [Procs -> Process]
  /\ \A p \in Procs : proc[p].pc # "idle" => proc[p].receipt \in Receipts
  /\ replays \in Nat
  /\ deaths \in Nat
  /\ contested \subseteq Receipts
  /\ undone \subseteq Receipts

Init ==
  /\ Sandbox!LedgerInit
  /\ source = 0
  /\ edits = 0
  /\ corrupt = {}
  /\ workspace = [x \in Receipts |-> Gone]
  /\ record = [x \in Receipts |-> NoRecord]
  /\ exitCode = [x \in Receipts |-> Unset]
  /\ proc = [p \in Procs |-> Idle]
  /\ replays = 0
  /\ deaths = 0
  /\ contested = {}
  /\ undone = {}

-----------------------------------------------------------------------------
(* What happens around the replays.                                         *)

\* A sandbox run may have seen any version, now or long ago.
SandboxStep ==
  /\ Sandbox!LedgerNext
  /\ UNCHANGED <<source, edits, corrupt, disk, proc, replays, deaths, contested, undone>>

\* The replay has hashed the source for the first time and not yet for the second.
BetweenHashes(p) ==
  proc[p].pc \in {"clear", "copy", "write_running", "attack", "hash_after"}

\* The edit leaves any other version, perhaps the one that replays under way
\* have hashed: to them the source then looks as if nobody had edited it.
Edit ==
  /\ edits < MaxEdits
  /\ edits' = edits + 1
  /\ \E v \in Versions \ {source} :
       /\ source' = v
       /\ undone' = undone \cup {proc[p].receipt : p \in {q \in Procs : BetweenHashes(q) /\ proc[q].before = v}}
  /\ UNCHANGED <<ledgerVars, corrupt, disk, proc, replays, deaths, contested>>

\* A receipt is edited by hand, or its file is damaged.
Corrupt ==
  /\ \E x \in Receipts : OnRecord(x) /\ corrupt' = corrupt \cup {x}
  /\ UNCHANGED <<ledgerVars, source, edits, disk, proc, replays, deaths, contested, undone>>

-----------------------------------------------------------------------------
(* One invocation.                                                          *)

At(p, point) == proc[p].pc = point
Mine(p) == proc[p].receipt
Become(p, state) == proc' = [proc EXCEPT ![p] = state]
\* Of a command that has ended only its number and its status are remembered.
Exit(p, code) ==
  Become(p, [Idle EXCEPT !.receipt = Mine(p), !.replay = proc[p].replay, !.exit = code])

Underway(x) == \E p \in Procs : proc[p].pc # "idle" /\ Mine(p) = x

\* _load_replay_receipt: the first of two reads of the receipt.
Start(p, x) ==
  /\ At(p, "idle")
  /\ replays < MaxReplays
  /\ OnRecord(x)
  /\ replays' = replays + 1
  /\ contested' = IF Underway(x) THEN contested \cup {x} ELSE contested
  /\ LET begun == [Idle EXCEPT !.receipt = x, !.replay = replays + 1] IN
     Become(p, IF x \in corrupt THEN [begun EXCEPT !.exit = 2] ELSE [begun EXCEPT !.pc = "load"])
  /\ UNCHANGED <<ledgerVars, source, edits, corrupt, disk, deaths, undone>>

\* replay_receipt reads the receipt again; what it raises now nobody catches.
LoadFails(p) ==
  /\ At(p, "load")
  /\ Mine(p) \in corrupt
  /\ Exit(p, 1)
  /\ UNCHANGED <<environment, disk>>

\* _reconstruct_failure_case_from_receipt raises KeyError.
NotInCatalog(p) ==
  /\ At(p, "load")
  /\ Mine(p) \notin corrupt
  /\ Mine(p)[2] \notin Catalog
  /\ Exit(p, 1)
  /\ UNCHANGED <<environment, disk>>

Load(p) ==
  /\ At(p, "load")
  /\ Mine(p) \notin corrupt
  /\ Mine(p)[2] \in Catalog
  /\ Become(p, [proc[p] EXCEPT !.pc = "hash_before",
                               !.original = Observation(Mine(p)[2], SealedOn(Mine(p)))])
  /\ UNCHANGED <<environment, disk>>

HashBefore(p) ==
  /\ At(p, "hash_before")
  /\ Become(p, [proc[p] EXCEPT !.pc = "clear", !.before = source])
  /\ UNCHANGED <<environment, disk>>

\* Bug: the workspace is copied only if it is missing.
BugClearWorkspace(p) ==
  /\ At(p, "clear")
  /\ Become(p, [proc[p] EXCEPT !.pc = IF workspace[Mine(p)] = Gone THEN "copy" ELSE "write_running"])
  /\ UNCHANGED <<environment, disk>>

ClearWorkspace(p) ==
  /\ At(p, "clear")
  /\ workspace' = [workspace EXCEPT ![Mine(p)] = Gone]
  /\ Become(p, [proc[p] EXCEPT !.pc = "copy"])
  /\ UNCHANGED <<environment, record, exitCode>>

Copy(p) ==
  /\ At(p, "copy")
  /\ workspace[Mine(p)] = Gone
  /\ workspace' = [workspace EXCEPT ![Mine(p)] = source]
  /\ Become(p, [proc[p] EXCEPT !.pc = "write_running"])
  /\ UNCHANGED <<environment, record, exitCode>>

\* copytree refuses a directory that another replay has made in between.
CopyRefused(p) ==
  /\ At(p, "copy")
  /\ workspace[Mine(p)] # Gone
  /\ Exit(p, 1)
  /\ UNCHANGED <<environment, disk>>

WriteRecord(p, status) ==
  record' = [record EXCEPT ![Mine(p)] =
               [status |-> status, replay |-> proc[p].replay, before |-> proc[p].before]]

\* Bug: the record is written once, at the end.
BugWriteRunning(p) ==
  /\ At(p, "write_running")
  /\ Become(p, [proc[p] EXCEPT !.pc = "attack"])
  /\ UNCHANGED <<environment, disk>>

WriteRunning(p) ==
  /\ At(p, "write_running")
  /\ WriteRecord(p, "running")
  /\ Become(p, [proc[p] EXCEPT !.pc = "attack"])
  /\ UNCHANGED <<environment, workspace, exitCode>>

Attack(p) ==
  /\ At(p, "attack")
  /\ Become(p, [proc[p] EXCEPT !.pc = "hash_after",
                               !.outcome = Observation(Mine(p)[2], workspace[Mine(p)])])
  /\ UNCHANGED <<environment, disk>>

HashAfter(p) ==
  /\ At(p, "hash_after")
  /\ Become(p, [proc[p] EXCEPT !.pc = "compare", !.after = source])
  /\ UNCHANGED <<environment, disk>>

Mutated(p) == proc[p].after # proc[p].before
Matches(p) == proc[p].outcome = proc[p].original

WriteExit(p, code, next) ==
  /\ exitCode' = [exitCode EXCEPT ![Mine(p)] = code]
  /\ Become(p, [proc[p] EXCEPT !.pc = next])
  /\ UNCHANGED <<environment, workspace, record>>

\* exit_code.txt is written first, the final record last.
SourceMutated(p) == At(p, "compare") /\ Mutated(p) /\ WriteExit(p, 5, "refuse")

Reproduced(p) == At(p, "compare") /\ ~Mutated(p) /\ Matches(p) /\ WriteExit(p, 0, "write_completed")
\* Bug: exit_code.txt gets the status of an ordinary shell failure.
BugDiffers(p) == At(p, "compare") /\ ~Mutated(p) /\ ~Matches(p) /\ WriteExit(p, 1, "write_failed")

Differs(p) == At(p, "compare") /\ ~Mutated(p) /\ ~Matches(p) /\ WriteExit(p, 2, "write_failed")

\* Bug: raised before the failed record is written.
BugRefuse(p) ==
  /\ At(p, "refuse")
  /\ Exit(p, 5)
  /\ UNCHANGED <<environment, disk>>

Refuse(p) ==
  /\ At(p, "refuse")
  /\ WriteRecord(p, "failed")
  /\ Exit(p, 5)
  /\ UNCHANGED <<environment, workspace, exitCode>>

WriteCompleted(p) ==
  /\ At(p, "write_completed")
  /\ WriteRecord(p, "completed")
  /\ Exit(p, 0)
  /\ UNCHANGED <<environment, workspace, exitCode>>

WriteFailed(p) ==
  /\ At(p, "write_failed")
  /\ WriteRecord(p, "failed")
  /\ Exit(p, 2)
  /\ UNCHANGED <<environment, workspace, exitCode>>

\* A kill, or an error of the file system.
Die(p) ==
  /\ proc[p].pc # "idle"
  /\ deaths < MaxDeaths
  /\ deaths' = deaths + 1
  /\ Exit(p, 1)
  /\ UNCHANGED <<ledgerVars, source, edits, corrupt, replays, disk, contested, undone>>

-----------------------------------------------------------------------------
Step(p) ==
  \/ LoadFails(p) \/ NotInCatalog(p) \/ Load(p)
  \/ HashBefore(p) \/ ClearWorkspace(p) \/ Copy(p) \/ CopyRefused(p) \/ WriteRunning(p)
  \/ Attack(p) \/ HashAfter(p)
  \/ SourceMutated(p) \/ Reproduced(p) \/ Differs(p)
  \/ Refuse(p) \/ WriteCompleted(p) \/ WriteFailed(p)

Next ==
  \/ SandboxStep \/ Edit \/ Corrupt
  \/ \E p \in Procs :
       \/ \E x \in Receipts : Start(p, x)
       \/ Step(p)
       \/ Die(p)

Spec == Init /\ [][Next]_vars

\* A process that is not killed keeps executing its straight-line code, and the
\* code under attack returns or raises: run_attack_against_target has no timeout.
FairSpec == Spec /\ \A p \in Procs : WF_vars(Step(p))

-----------------------------------------------------------------------------
(***************************************************************************)
(* A replay that is on record as completed reproduced the receipt's result  *)
(* on the version its record names, and one on record as failed with exit   *)
(* code 2 did not: the verdict is about the hashed source and not about     *)
(* whatever an earlier replay of the receipt left in the workspace, or an   *)
(* edit put there that the second hash shows.  Nothing is promised for a    *)
(* receipt that two processes replayed at a time, and nothing when an edit  *)
(* between the two hashes was undone before the second one: the hashes are  *)
(* equal then, and the attack may have met another version.                 *)
(***************************************************************************)
VerdictIsAboutTheRecordedSource ==
  \A x \in Receipts \ (contested \cup undone) :
    /\ record[x].status = "completed" =>
         OnRecord(x) /\ Observation(x[2], record[x].before) = Observation(x[2], SealedOn(x))
    /\ record[x].status = "failed" /\ exitCode[x] = 2 =>
         OnRecord(x) /\ Observation(x[2], record[x].before) # Observation(x[2], SealedOn(x))

(***************************************************************************)
(* exit_code.txt and a final record of a replay agree, whatever earlier     *)
(* replays of the receipt wrote (README, "Replay mismatch artifacts are     *)
(* marked failed and carry exit code 2").                                   *)
(***************************************************************************)
ExitCodeAgrees ==
  \A x \in Receipts \ contested :
    /\ record[x].status = "completed" => exitCode[x] = 0
    /\ record[x].status = "failed" => exitCode[x] \in {2, 5}

(***************************************************************************)
(* The exit status of the command is the one its artifacts carry: README,   *)
(* "matching the CLI result".  A command that ended with 0 or 5 has left a  *)
(* final record that only a later replay of the receipt may replace, and a  *)
(* record that is still a command's own says how that command ended.        *)
(***************************************************************************)
ExitStatusMatchesArtifacts ==
  \A p \in Procs : proc[p].pc = "idle" /\ proc[p].exit # Unset /\ Mine(p) \notin contested =>
    LET x == Mine(p)  own == record[x].replay = proc[p].replay IN
    /\ proc[p].exit \in {0, 5} => record[x].replay >= proc[p].replay
    /\ own => record[x].status = CASE proc[p].exit = 0 -> "completed"
                                   [] proc[p].exit = 1 -> "running"
                                   [] OTHER -> "failed"
    /\ own /\ proc[p].exit # 1 => exitCode[x] = proc[p].exit

(***************************************************************************)
(* A replay that has written its running record ends with a final one, as   *)
(* long as nobody kills a replay.                                           *)
(***************************************************************************)
EveryReplayConcludes ==
  \A x \in Receipts :
    record[x].status = "running" ~> record[x].status \in {"completed", "failed"} \/ deaths > 0

(***************************************************************************)
(* Replaying an intact receipt ends with a verdict: README, "Every          *)
(* reproducible failure has a replay command".                              *)
(***************************************************************************)
EveryReceiptReplays ==
  \A p \in Procs : proc[p].exit = 1 => Mine(p) \in corrupt
=============================================================================
