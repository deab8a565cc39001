--------------------------- MODULE DataForgeBridge ---------------------------
(***************************************************************************)
(* The DataForge client beside the sandbox runs it reads from:              *)
(* push_run_bundle_from_disk of dataforge_client.py.  A push reads the run  *)
(* record, every receipt file of the shared directory, and the reports up   *)
(* to the one of its run, one file per step and without a lock, while       *)
(* SandboxRun goes on writing them.  Then it sends what it read, one        *)
(* request after the other; a request that is not answered in time is given *)
(* up, and the service may still carry it out later.  The caller pushes     *)
(* again as often as it likes.                                              *)
(*                                                                          *)
(* DataForge Local is not part of this repository.  Its answers are those   *)
(* the client and the docs speak of: it may refuse anything, and it refuses *)
(* a receipt whose run or case it does not have and a receipt id it already *)
(* has under another hash.                                                  *)
(***************************************************************************)
EXTENDS SandboxRun

CONSTANTS
  Catalog,    \* cases the client can rebuild: EdgeCaseAgent's default catalog
  MaxPushes,  \* bound on pushes
  MaxLate     \* bound on abandoned requests that are still under way

ASSUME BridgeAssumption ==
  /\ Catalog \subseteq Cases
  /\ MaxPushes \in Nat /\ MaxLate \in Nat

VARIABLES
  push,    \* the current push or, when it is over, the last one
  pushes,  \* pushes so far
  late,    \* requests the client gave up and the service may still get
  stored   \* DataForge Local: the runs, cases, receipts and reports it has

bridge == <<push, pushes, late, stored>>
allVars == <<vars, bridge>>

-----------------------------------------------------------------------------
Request ==
  [kind : {"run"}, run : RunIds]
    \cup [kind : {"case"}, case : Cases]
    \cup [kind : {"receipt"}, run : RunIds, case : Cases, receipt : Receipt]
    \cup [kind : {"report"}, run : RunIds, report : Report]

\* Receipts that were parsed.
Parsed == {m \in Receipts : \A c \in Cases : m[c].state # "torn"}

Push ==
  [pc : {"idle", "list", "filter", "reports", "post"},
   run : RunIds \cup {NoRun},
   record : RunRecord,                \* the run record, as read
   files : SUBSET (RunIds \X Cases),  \* receipt files still to be read
   match : SUBSET (RunIds \X Cases),  \* the one to be read a second time
   got : Parsed,                      \* receipts of the run
   reports : SUBSET RunIds,           \* report files still to be looked at
   report : Report,                   \* the report of the run, if there is one
   todo : SUBSET Request,             \* requests not yet sent
   ok : BOOLEAN,                      \* all_accepted, so far
   outcome : {"none", "raised", "summary"}]

NoPush ==
  [pc |-> "idle", run |-> NoRun, record |-> NoRecord, files |-> {}, match |-> {},
   got |-> NoReceipts, reports |-> {}, report |-> NoReport, todo |-> {},
   ok |-> TRUE, outcome |-> "none"]

Store ==
  [runs : SUBSET RunIds, cases : SUBSET Cases,
   receipts : [RunIds -> Parsed], report : [RunIds -> Report]]

BridgeInit ==
  /\ Init
  /\ push = NoPush
  /\ pushes = 0
  /\ late = {}
  /\ stored = [runs |-> {}, cases |-> {},
               receipts |-> [r \in RunIds |-> NoReceipts],
               report |-> [r \in RunIds |-> NoReport]]

-----------------------------------------------------------------------------
(* Reading the bundle from the sandbox directory.                           *)

Pushing(point) == push.pc = point
Raise == push' = [push EXCEPT !.pc = "idle", !.outcome = "raised"]

\* json.loads of the run record; a record that is absent or torn raises.
BeginPush(r) ==
  /\ Pushing("idle")
  /\ pushes < MaxPushes
  /\ pushes' = pushes + 1
  /\ push' = IF runFile[r].status \in {"absent", "torn"}
             THEN [NoPush EXCEPT !.run = r, !.outcome = "raised"]
             ELSE [NoPush EXCEPT !.run = r, !.record = runFile[r], !.pc = "list"]
  /\ UNCHANGED <<late, stored>>

\* sorted(glob): the directory is listed once, before any file is opened.
ListReceipts ==
  /\ Pushing("list")
  /\ push' = [push EXCEPT !.pc = "filter",
                          !.files = {f \in RunIds \X Cases : receipts[f[1]][f[2]].state # "absent"}]
  /\ UNCHANGED <<pushes, late, stored>>

\* Bug: a receipt file is taken for good without being parsed.
BugReadable(f) == receipts[f[1]][f[2]].state # "absent"

Readable(f) == receipts[f[1]][f[2]].state = "sealed"

\* The file the comprehension reads next: the condition reads each file, the
\* element reads a file of this run once more.
NextFiles == IF push.match = {} THEN push.files ELSE push.match

RaiseOnReceipt ==
  /\ Pushing("filter")
  /\ \E f \in NextFiles : ~Readable(f)
  /\ Raise
  /\ UNCHANGED <<pushes, late, stored>>

FilterReceipt ==
  /\ Pushing("filter") /\ push.match = {}
  /\ \E f \in push.files :
       /\ Readable(f)
       /\ push' = IF f[1] = push.run THEN [push EXCEPT !.match = {f}]
                  ELSE [push EXCEPT !.files = @ \ {f}]
  /\ UNCHANGED <<pushes, late, stored>>

ReadReceipt ==
  /\ Pushing("filter")
  /\ \E f \in push.match :
       /\ Readable(f)
       /\ push' = [push EXCEPT !.match = {}, !.files = @ \ {f},
                               !.got = [@ EXCEPT ![f[2]] = receipts[f[1]][f[2]]]]
  /\ UNCHANGED <<pushes, late, stored>>

\* Bug: the record is read again after the receipts.
BugListReports ==
  /\ Pushing("filter") /\ push.files = {}
  /\ push' = [push EXCEPT !.pc = "reports", !.record = runFile[push.run],
                          !.reports = {r \in RunIds : report[r].state # "absent"}]
  /\ UNCHANGED <<pushes, late, stored>>

ListReports ==
  /\ Pushing("filter") /\ push.files = {}
  /\ push' = [push EXCEPT !.pc = "reports",
                          !.reports = {r \in RunIds : report[r].state # "absent"}]
  /\ UNCHANGED <<pushes, late, stored>>

RaiseOnReport ==
  /\ Pushing("reports")
  /\ \E r \in push.reports : report[r].state = "torn"
  /\ Raise
  /\ UNCHANGED <<pushes, late, stored>>

\* The loop ends at the first report of this run.
ReadReport ==
  /\ Pushing("reports")
  /\ \E r \in push.reports :
       /\ report[r].state = "written"
       /\ push' = IF r = push.run THEN [push EXCEPT !.reports = {}, !.report = report[r]]
                  ELSE [push EXCEPT !.reports = @ \ {r}]
  /\ UNCHANGED <<pushes, late, stored>>

Harvested == {c \in Cases : push.got[c] # NoReceipt}

\* What push_run_bundle is given; a case the catalog does not have is left out.
Bundle ==
  {[kind |-> "run", run |-> push.run]}
    \cup {[kind |-> "case", case |-> c] : c \in Harvested \cap Catalog}
    \cup {[kind |-> "receipt", run |-> push.run, case |-> c, receipt |-> push.got[c]] : c \in Harvested}
    \cup {[kind |-> "report", run |-> push.run, report |-> b] : b \in {push.report} \ {NoReport}}

StartPosting ==
  /\ Pushing("reports") /\ push.reports = {}
  /\ push' = [push EXCEPT !.pc = "post", !.todo = Bundle]
  /\ UNCHANGED <<pushes, late, stored>>

-----------------------------------------------------------------------------
(* Sending the bundle.                                                      *)

Rank == [run |-> 1, case |-> 2, receipt |-> 3, report |-> 4]

\* The run, the cases, the receipts, the report.
NextRequests == {q \in push.todo : \A o \in push.todo : Rank[q.kind] <= Rank[o.kind]}

\* Whether DataForge Local can carry out a request: a receipt needs its run
\* and its case, and a receipt id keeps its hash.
Storable(q) ==
  q.kind = "receipt" =>
    /\ q.run \in stored.runs /\ q.case \in stored.cases
    /\ stored.receipts[q.run][q.case] \in {NoReceipt, q.receipt}

Keep(q) ==
  stored' = CASE q.kind = "run"     -> [stored EXCEPT !.runs = @ \cup {q.run}]
              [] q.kind = "case"    -> [stored EXCEPT !.cases = @ \cup {q.case}]
              [] q.kind = "receipt" -> [stored EXCEPT !.receipts[q.run][q.case] = q.receipt]
              [] q.kind = "report"  -> [stored EXCEPT !.report[q.run] = q.report]

\* Status 200.
Accepted ==
  /\ Pushing("post")
  /\ \E q \in NextRequests :
       /\ Storable(q)
       /\ Keep(q)
       /\ push' = [push EXCEPT !.todo = @ \ {q}]
  /\ UNCHANGED <<pushes, late>>

\* Any other status; the client goes on with the next request.
Rejected ==
  /\ Pushing("post")
  /\ \E q \in NextRequests : push' = [push EXCEPT !.todo = @ \ {q}, !.ok = FALSE]
  /\ UNCHANGED <<pushes, late, stored>>

\* Bug: a client without timeout_s.
BugTransportFailure == FALSE /\ UNCHANGED bridge

\* httpx.HTTPError: no connection, or no answer within timeout_s.  The
\* request is lost or will still arrive.
TransportFailure ==
  /\ Pushing("post")
  /\ \E q \in NextRequests :
       /\ push' = [push EXCEPT !.todo = @ \ {q}, !.ok = FALSE]
       /\ late' = IF Cardinality(late) < MaxLate THEN late \cup {q} ELSE late
  /\ UNCHANGED <<pushes, stored>>

\* The service carries out a request nobody waits for any more.
ArriveLate ==
  /\ \E q \in late :
       /\ late' = late \ {q}
       /\ IF Storable(q) THEN Keep(q) ELSE UNCHANGED stored
  /\ UNCHANGED <<push, pushes>>

\* The PushSummary is returned.
Return ==
  /\ Pushing("post") /\ push.todo = {}
  /\ push' = [push EXCEPT !.pc = "idle", !.outcome = "summary"]
  /\ UNCHANGED <<pushes, late, stored>>

-----------------------------------------------------------------------------
\* What the client does by itself, without an answer of the service.
ClientStep ==
  \/ ListReceipts \/ RaiseOnReceipt \/ FilterReceipt \/ ReadReceipt
  \/ ListReports \/ RaiseOnReport \/ ReadReport
  \/ StartPosting \/ TransportFailure \/ Return

ServiceStep == Accepted \/ Rejected \/ ArriveLate

BridgeNext ==
  \/ Next /\ UNCHANGED bridge
  \/ (\E r \in RunIds : BeginPush(r)) /\ UNCHANGED vars
  \/ ClientStep /\ UNCHANGED vars
  \/ ServiceStep /\ UNCHANGED vars

BridgeSpec == BridgeInit /\ [][BridgeNext]_allVars

\* A process that is not killed keeps executing its straight-line code, the
\* sandbox and the client alike.  That takes for granted that the code under
\* attack returns or raises (run_attack_against_target has no timeout), and that
\* timeout_s ends every wait: it bounds each operation of a request, so a service
\* that answers a byte at a time is not covered.  One that never answers is.
BridgeFairSpec ==
  /\ BridgeSpec
  /\ \A p \in Procs : WF_allVars(Step(p) /\ UNCHANGED bridge)
  /\ WF_allVars(ClientStep /\ UNCHANGED vars)

-----------------------------------------------------------------------------
BridgeTypeOK ==
  /\ TypeOK
  /\ push \in Push
  /\ pushes \in Nat
  /\ late \subseteq Request
  /\ stored \in Store

UnderWay == late \cup push.todo

(***************************************************************************)
(* Every receipt that DataForge Local has, or can still get from a request  *)
(* under way, is the sealed file on disk, whatever was cut short, delayed   *)
(* or pushed again: a repeated receipt always has the hash it had before,   *)
(* so that a retry is never answered receipt_immutable.  Holds when run ids *)
(* are fresh (push_run_bundle_from_disk against _write_receipts; system     *)
(* doc, 30-integration-boundaries).                                         *)
(***************************************************************************)
ServiceMirrorsDisk ==
  /\ \A r \in RunIds, c \in Cases :
       stored.receipts[r][c] # NoReceipt =>
         Sealed(r, c) /\ stored.receipts[r][c] = receipts[r][c]
  /\ \A q \in UnderWay :
       q.kind = "receipt" => Sealed(q.run, q.case) /\ q.receipt = receipts[q.run][q.case]

(***************************************************************************)
(* A push that read a completed record and reports all_accepted has left    *)
(* DataForge Local with every receipt the record counts, of that very       *)
(* attempt, and with no report about anything else, although run, receipts  *)
(* and report are read one after the other from a directory that is being   *)
(* written (push_run_bundle_from_disk reads the record first, run writes it *)
(* last).                                                                   *)
(***************************************************************************)
AcceptedBundleIsComplete ==
  push.outcome = "summary" /\ push.ok /\ push.record.status = "completed" =>
    LET held == stored.receipts[push.run] IN
    /\ \A c \in push.record.plan :
         held[c].state = "sealed" /\ held[c].attempt = push.record.attempt
    /\ push.report.state = "written" => push.report.body = held

\* The receipts of a run that DataForge Local has or can still get.
Served(r) ==
  ({stored.receipts[r][c] : c \in Cases} \ {NoReceipt})
    \cup {q.receipt : q \in {o \in UnderWay : o.kind = "receipt" /\ o.run = r}}

(***************************************************************************)
(* The promise of the sandbox reaches the service: of a run that is refused *)
(* because the source changed, no receipt has left the directory or is on   *)
(* its way, although runs are pushed while they still go on, and what the   *)
(* service gets of a completed run was observed on the tree its record      *)
(* names (sandbox.py, run; push_run_bundle_from_disk).                      *)
(***************************************************************************)
ServedEvidenceIsAccepted ==
  \A r \in RunIds :
    /\ runFile[r].status = "failed" => Served(r) = {}
    /\ runFile[r].status = "completed" => \A e \in Served(r) : e.seen = runFile[r].before

(***************************************************************************)
(* A push that was begun comes to an end, with a summary or an exception,   *)
(* even if DataForge Local never answers (dataforge_client.py, _post).      *)
(***************************************************************************)
EveryPushConcludes == push.pc # "idle" ~> push.pc = "idle"
=============================================================================
