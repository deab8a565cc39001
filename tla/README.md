# Verification of failureforge

`failureforge` attacks a copy of a canonical source tree and keeps evidence of what it
observed: hash-sealed failure receipts, a run record, an exit code and a hardening report.
Its README promises that the evidence is *about the source it names*, that a run whose
source changed *fails closed*, that receipts are immutable, and that every failure can be
replayed. This directory models the code behind those promises in TLA+, checks it with TLC
on small instances and proves the central promises with TLAPS for all values of the
constants.

Paths below are relative to `src/failureforge/` of the repository, except `README.md`, `doc/`
and `scripts/`, which are relative to its root.

## 1. Inventory

| Component | State it keeps | Operations | Model |
|---|---|---|---|
| sandbox runner (`runtime/sandbox.py`, `cli.py` `cmd_run_sandbox`) | workspace, `sandbox_run.json`, `exit_code.txt`, receipts, report; all under one directory that every process shares without a lock | run: hash, pre-flight, copy, running record, attacks, second hash, refuse or seal, load receipts, report | `SandboxRun`, `EvidenceLedger` |
| target loader (`runtime/target_loader.py`) | `sys.modules` | load a registry from the workspace, run one attack | `AgentLanes` |
| agents (`agents/*.py`) | the file in the workspace (mutation), the patched class (chaos) | five lanes, each `run_attacks` | `AgentLanes` |
| replay (`runtime/replay.py`, `cmd_replay`) | the same kinds of files, under `SR-replay-<receipt>` | load receipt, hash, copy, attack, hash, compare, write | `Replay` |
| scorer, clustering, adjudication (`reporting/scorer.py`, `clustering/centipede.py`, `adjudication/neuroforge.py`) | receipts read so far; verdicts of a comparison job | group, score, gate, cluster, submit, vote | `Findings` |
| target adapter (`runtime/target_adapter.py`) | none (static configuration) | which attack families are supported | guards of `SandboxRun` |
| DataForge client (`persistence/dataforge_client.py`) | what it has read so far; the service owns the rest | read a run's record, receipts and report from disk; push them request by request | `DataForgeBridge` |
| integrations (`integrations/aar_seed.py`, `integrations/era_export.py`) | none | AAR seed of a cluster, ERA export of a run | `Exports` |
| promotion clients (`promotion/`) | none; the service owns the state | submit, withdraw, record decisions: one request each | not modelled (section 7) |
| hashing, schemas (`validation/`) | none | canonical JSON, SHA-256, JSON Schema | a hash is the identity of what it covers |
| ForgeCommand client, scripts | none | read-only views, wrappers | not modelled |

How they interact. The runner calls the agents one after the other in its own process; the
agents call the target loader; what they leave behind in the file, in `sys.modules` and on
the class is shared by all lanes of the process. Processes meet only on the disk: the
receipts directory is shared by all runs, and `cmd_run_sandbox` reads back from it. Replay
reads receipts that other processes may be rewriting. The DataForge client reads a run's files
from that directory at any time and sends them to a service that may refuse, lose or answer late. The
scorer, the clustering and the adjudication read receipts in the order of their hashed ids; the
integrations read receipts together with clusters that may be older.

What is hard here, and what has to be right:

- *Sandbox runner.* Hashing and copying read a tree file by file while it may be edited;
  `Path.write_text` truncates before it fills, so a crash or another process sees torn files;
  run ids are reused (`scripts/verify_no_canonical_mutation.sh` uses a fixed one), so files of
  an earlier attempt lie around. A completed record must find its receipts sealed, by this
  attempt, observed on the tree it names; a failed one must have none; exit status, exit
  code, report and record must agree.
- *Agents and loader.* A lane rewrites the target's file, another patches its class, exceptions
  and `SystemExit` of the target may fall in between, the loader caches modules. Every lane
  must attack the clean target, in any order of lanes, and a verdict must be about the
  target and not about the order.
- *Replay.* One directory per receipt, reused by every replay; the second read of the receipt
  may see other contents; the source may change between hashes, and change back. The verdict on
  record must be about the version whose hash is on record.
- *Findings.* Two groupings of the same receipts by independent code, over evidence that
  keeps growing in an arbitrary order, and providers who judge a snapshot. More evidence must
  not lower a score or take readiness away, and one vote must not overturn a verdict.

- *DataForge client.* A push reads the record first, then every receipt file of every run, then
  the reports, while runs go on writing; a request that timed out may still be carried out, and the
  caller pushes again. What the service holds must be what is on disk, and a push that says
  `all_accepted` must have left nothing out.
- *Integrations.* A seed or an export combines receipts and clusters of different ages, and
  computes "never reproduced" by code of its own. It must cite only what it includes, keep the
  classification and agree with the clusters' gate.

`PROJECT.json` lists each hazard with its line and with the properties that would catch it.

## 2. Modules

    EvidenceLedger          what the sandbox directory promises (abstract)
      ^ refined by            ^ used as environment by
    SandboxRun              Replay            AgentLanes          Findings
      SandboxRunProofs        ReplayProofs      AgentLanesProofs      ^ extended by
      FreshRunProofs          MCReplay          MCAgentLanes        Exports
      LedgerProofs                                                    FindingsProofs
      MCSandboxRun                                                    MCFindings
      ^ extended by
    DataForgeBridge
      DataForgeBridgeProofs
      MCDataForgeBridge

**EvidenceLedger.** Per run: a standing (`none`, `open`, `published`, `refused`) and a growing
set of cases with the tree each was observed on. Evidence is added only while the run is
open; publishing vouches for a single tree that all evidence is about; a run can be refused
only while it has no evidence. That is the promise of the directory in four actions. Its consequence
`EndedRunsStay` is that nothing about a run changes once it has ended.

**SandboxRun.** One action per step of `SandboxRunner.run` and of the command around it that
touches shared state: `HashBefore` and `HashAfter` read one file per step, `CopyFile` copies
one file per step, a write of the record, of a receipt or of the report is `Open...` (truncate) and
`Write...`/`Seal...` (fill). `Edit` changes a file at any moment (with `Restores`, perhaps to an
earlier version), `Die` ends a process anywhere. `Start` takes a run id as the callers do (`Reuse`): `fresh`
(the default id with its timestamp), `serial` (an id is used again, never by two live
processes) or `shared`. `attempt` stands for the timestamp that every record and receipt
carries. The tree is a version number per file.

**AgentLanes.** One process that performs several runs. `registry.py` is a sequence of lines
(guards in the words the mutation lane knows, checks in other words, the class, comments, other
code, a statement that raises); deleting a guard is modelled on the text: `replace` takes out every
occurrence and leaves its indentation behind. `sys.modules` maps
names to executed (perhaps half-executed) texts, and a module's name is a hash of its
contents, as in `load_registry_module`. `PickCase`, `DeleteGuard`, `RunAttack`, `Conclude` are
the loop of the catalog lanes and of the mutation lane; `PatchClass` and `ChaosAttack` the chaos lane;
`TargetRaises` and `ChaosCannotStart` are the exceptions nobody catches, with their `finally`
clauses.

**Replay.** `cmd_replay` with `replay_receipt`, by several processes over the receipts of a
ledger (an instance of EvidenceLedger is its environment). The disk of a replay is one
workspace, record and exit code per receipt. `Corrupt` damages a receipt between the
command's two reads. A source tree is one version here, which stands for its contents, and `Edit` leaves any other
version, an earlier one too. Two histories record what the property about verdicts has to leave out: `contested`
(receipts replayed by two processes at a time) and `undone` (receipts of a replay whose first-hashed version an
edit put back before the second hash). Reading file by file and torn records are the subject of
SandboxRun: `WriteRecord` is one step. The environment takes for granted that run ids are used once, as the
refinement does, so that nobody rewrites a receipt that has been replayed.

**Findings.** The receipts of one target as a sequence into which a new receipt may be
inserted anywhere; `Findings` (scorer), `Clusters` (centipede) and `Status` (neuroforge) are
operators over it with the code's weights. A group keeps its receipts at their places in the
sequence, so that what depends on the order (`First`, `Worst`) can be told from what does not: a finding has its
`failure` (failure_id) and `replays` (repro_command) fields from the receipt that stands for it, and `Outranks`
is the part of the ranking that failure ids do not decide. The receipts a lane can produce are enumerated
from the lane's code (`LaneOutcomes`).

**Exports.** Findings with the two documents that leave the directory, as operators: `Seed` (the AAR seed of
a cluster, with its deterministic status) and `Export` (the ERA export's candidates). They are
evaluated on the receipts as they now are and on any part of them, with the clusters of those receipts, of
any other part, and with the cluster of the comparison job, which is older. `build_era_export` compares
receipts and clusters with nothing; what it refuses is an export without receipts (`Exportable`).

**DataForgeBridge.** `push_run_bundle_from_disk` beside SandboxRun, which goes on unchanged. `BeginPush`
reads the record, `ListReceipts` lists the directory once, `FilterReceipt` reads each file and
`ReadReceipt` reads a file of the run a second time (the comprehension does both), `ListReports` and
`ReadReport` find the report; a torn file raises (`RaiseOnReceipt`, `RaiseOnReport`). Then
`Accepted`, `Rejected` or `TransportFailure` is the outcome of each request, in the order run, cases,
receipts, report. DataForge Local is external. All that is assumed of it is what the client's code and the
docs say: it may refuse anything, must refuse a receipt whose run or case it does not
have or whose id it has under another hash, and keeps what it accepted. A request the client gave up
on is lost or kept in `late`, from where `ArriveLate` carries it out at any later time.

Definitions whose names begin with `Bug` are deliberately wrong variants of the definition that
follows (a dropped guard, a swapped write, an off-by-one). No specification uses them; they
record which mistake in the code each property would catch.

### Abstractions

- A torn `exit_code.txt` and the logs are left out (they are written in one step and nobody
  reads them back); torn receipts, records and reports of a run are modelled in SandboxRun, torn records of a replay
  are not. Loading all receipts for the report is one step.
- The plan of a run is a set of cases: a run that is given the same agent twice, and so writes a receipt
  twice, is not covered.
- The code under attack ends: `run_attack_against_target` has no timeout, and a target that loops for ever is
  not modelled.
- A target without the `registry.py` that `MutationAgent.produce` looks for (it returns no outcomes then) is not
  modelled.
- The order in which files are hashed and copied is left open, so every order is covered.
- Validation of arguments, of the adapter's configuration and of JSON schemas happens before
  any state exists and is left out.
- What an attack's payload is and how the target reacts in detail is reduced to the guard it meets.
- The ranks between findings of one score and severity, Markdown rendering and sealed model receipts are left out of Findings; ids, wording
  and part hashes out of Exports.
- A case is its own description: the client rebuilds it from the default catalog (`Catalog`), and a
  case that is not there is left out of the bundle, as in the code.

## 3. Runs

| Run | Instance | What it shows |
|---|---|---|
| `sandbox_fresh` | 2 processes, 2 run ids, 2 files, 3 cases in two plans (one with an unsupported case), 2 edits, 1 death | the directory implements EvidenceLedger, fails closed, and evidence, report, record and exit status agree; sealed receipts stay |
| `sandbox_reuse` | 1 process, 1 run id, 3 attempts with three different plans, 2 edits, 2 deaths | a completed record vouches only for receipts of its own attempt, whatever earlier attempts left |
| `lanes` | 4 targets (one with a guard twice, one with a second check behind its guard, one that cannot be imported), every list of at most 2 lanes, 2 runs in one process, a flaky attack | every lane sees the clean target, everything is restored, verdicts follow the guards, in the mutation lane too as long as the weakened registry loads |
| `replay` | 2 processes, 1 run, 2 receipts (one not replayable), 2 replays, 2 edits of which the second may undo the first, 1 death | the verdict is about the recorded source unless an edit was undone between its hashes, and records, exit codes and exit status agree |
| `findings` | 1 attack, 3 lanes, 3 providers, 3 receipts, 4 events | both groupings agree, the order of the receipts decides nothing but which of its worst receipts stands for a finding, scores and readiness are monotone, a stale job never overstates, verdicts need a strict majority, seeds agree with the gate and exports keep classifications |
| `bridge` | 1 process, 2 runs of different plans, 1 file, 1 edit, 2 cases (one not in the catalog), 2 pushes, 1 late request | what the service holds or can still get is what is on disk, an accepted push of a completed run is complete, and no receipt of a refused run reaches the service |
| `bridge_live` | 1 process, 2 runs, 1 file, 2 edits that may restore a version, 1 push, 1 late request, nobody killed | every record that says `running` becomes final and every push ends |
| `sandbox_immutable`, `sandbox_preflight`, `lanes_mutation`, `lanes_reproduction`, `replay_catalog` | the smallest instance that shows it | the disagreements of section 5 |

Why the bounds are enough. Two processes suffice for every pairwise interleaving, and the
steps of a third process could only repeat what one of them does (processes share nothing
but files keyed by run id and receipt). Two files and two edits are the smallest tree on
which a hash, a copy and a second hash can each see a mixture of versions; two edits also allow one
before and one after the copy, and in `replay` one that is attacked and one that undoes it. Three attempts allow success, crash and success again under one
run id with different plans. Two runs of a process are what it takes for the module cache of
one to meet the workspace of the next. Three receipts from three lanes are what it takes
for two lanes to agree and a third to add a more severe observation; three providers
allow majority, tie and minority. Two pushes are a push and its retry, or pushes of two runs; one
late request is what it takes for the service to act between or during them; one process is enough
for a push of a completed run to meet the half-written files of the next run and for a push to meet its
own run half-way. One edit decides which of the two runs is refused.
In `bridge_live` one process is enough because invocations with fresh ids share no file before their records
are final, so that no other process can keep a record from becoming final. The symmetry sets (processes, files, run ids; providers) name
values that no definition tells apart, and the runs that use them check safety only.
`CHECK_DEADLOCK FALSE` everywhere: when the bounds on invocations or events are used up, the
system is done and stops.

Fairness. `BridgeFairSpec` of DataForgeBridge and `FairSpec` of Replay contain weak fairness of `Step(p)` for each process:
between two writes the command is straight-line code without waiting on anything, so a process that
is not killed takes its next step. That includes the step in which the target is attacked: the code sets no timeout there,
so the liveness properties assume that the target returns or raises. Nothing is assumed of edits, of `Die`, of `Start` or of
`Corrupt`. `EveryRunConcludes` is checked where nobody dies and no agent meets an unsupported
family: with either, the code really does leave a record that says `running`, for nothing
ever looks at it again. `EveryReplayConcludes` allows deaths and then promises nothing. `BridgeFairSpec` also contains weak fairness of
`ClientStep`: the client is straight-line code too, and its only waits are requests that end
after `timeout_s` (`TransportFailure`). httpx applies it to each operation, so a service that answers a byte at a time
could hold a push for longer and is not covered. Nothing else is assumed of the service; it may never answer.

## 4. Properties that need a word

- `EvidenceFromRecordedSource` is about trees put together file by file. It holds because file
  versions only grow: equal hashes squeeze the copy between them. With `Restores` it fails
  (an edit that is copied and undone before the second hash), which no comparison of two
  hashes can see, so the run and the theorem assume no edit restores an earlier version.
- `FailClosed`, `ReportMatchesRun`, `ExitStatusAgrees` and `ImplementsLedger` are checked with
  fresh run ids. With a reused id a failed attempt leaves the sealed receipts of the earlier
  one beside its failed record; the code clears the workspace of a reused id but not its receipts.
- Properties of Replay leave out receipts that two processes replayed at the same time
  (`contested`): both write the same three files without a lock, so nothing is promised.
- `VerdictIsAboutTheRecordedSource` moreover leaves out the receipts in `undone`. It is the limit of two hashes again:
  an edit that is copied, attacked and undone before the second hash leaves equal hashes and a verdict about
  another tree. Every other edit is covered, one that restores an earlier version too.
- `ServiceMirrorsDisk` is what makes a retry harmless: a receipt pushed again always carries the
  hash the service has. It needs fresh run ids: when an id is given out again (`BugMayUse`), a
  second run replaces receipts that were pushed or are on their way.
- `AcceptedBundleIsComplete` speaks of pushes that read a completed record. It holds because the
  client reads the record first and the runner writes it last; read in any other order (`BugListReports`)
  the record can count receipts that were not there when the directory was listed.
- `ServedEvidenceIsAccepted` is not obvious because a run may be pushed while its record still says
  `running`, that is before anybody knows whether it will be refused. It holds because receipts are
  written after the hashes were found equal; with receipts written as they are built
  (`BugAttack`) it fails.
- `MutationFollowsTheGuards` is what remains true of the promise that `lanes_mutation` refutes: the
  verdict of the mutation lane is right whenever the registry without the guard can be loaded.
- `OrderDecidesOnlyTheRepresentative` draws the line between what may depend on the hashes of receipt ids (which
  of its worst receipts stands for a finding, and so its failure id, replay command and gate, see section 5, and the
  ranks of findings with one score and severity) and what may not: the rest of a finding, the rest of the ranking,
  the clusters. It also says that the three come from one receipt, so that the command replays the named failure.
- `GateImpliesClusterGate` compares the two gate rules, and asks for a receipt behind each gate that says the
  failure was reproducible.
- `SeedAgreesWithGate` compares two computations of "never reproduced" by different code on data
  of different ages: the cluster of a job and the receipts as they are when the seed is built.
- `ExportPreservesClassification` takes receipts and clusters apart, as the callers can. The classifications agree
  always; that only included receipts are cited needs clusters over no others, and that all are cited needs clusters that
  leave none out. Neither is checked by `build_era_export`.
- `ExitStatusAgrees` says nothing of status 1, and no document does: a completed run whose command meets a torn
  receipt of another run on reading back ends with it (`LoadFails`).
- `ImplementsLedger` reads the abstract state off the disk: a torn or running record is an open
  run, sealed receipts are its evidence, a completed record publishes the tree it names.

## 5. Disagreements between the code and what it says

| Run | Where | What |
|---|---|---|
| `sandbox_immutable` | `runtime/sandbox.py:491` | README: receipts are immutable after write. A second run under the same id rewrites them in place. |
| `sandbox_preflight` | `runtime/sandbox.py:433` | The boundary document: unsupported attack families fail before the copy. Agents without a default catalog are found out after the copy and the running record, and the record stays running. |
| `lanes_mutation` | `agents/mutation.py:135` | Deleting a guard leaves its indentation in front of the next statement; the registry no longer compiles, and the lane reports that the attack slipped through. |
| `lanes_reproduction` | `agents/reproduction.py:72` | Results that vary without a rejection among them are called reproducible; a registry that cannot be imported produces them, because the loader leaves the half-executed module in `sys.modules`. |
| `replay_catalog` | `runtime/replay.py:130` | README: every reproducible failure has a replay command. A receipt of another lane than `edge_case` ends the command with an unhandled `KeyError`. |

Four more were met by reading and have no run:

- `ready_for_gate`, `failure_id` and `repro_command` of a finding are those of the first of its equally severe
  receipts (`reporting/scorer.py:154`), i.e. depend on the hash of a receipt id, and so does the rank among findings
  of one score and severity.
- The docstring of the scorer lets agreed findings outrank single-lane ones of equal severity, while the
  boost of 12 is smaller than the spread of the other terms.
- `dataforge_client.py:4-7` says that every push returns a stable `PushResult`. A push of a completed
  run raises when any other run is writing a receipt at that moment, because all files of the
  directory are parsed (line 166); in DataForgeBridge that is `RaiseOnReceipt`.
- The comment at `dataforge_client.py:247` says that a double push with the same hash is
  `accepted_idempotent`; the branch below it returns `rejected`.

## 6. What is proved

All theorems are of the safety specification (`Spec`, or `BridgeSpec` of the composition), for all
values of the constants that satisfy the module's assumption, with any number of processes,
files, run ids, edits, attempts, deaths and pushes.

**SandboxRunProofs**

- `TypeCorrect`: `Spec => []TypeOK`.
- `CompletedEvidence`, assuming run ids are not shared by two live invocations:
  `[]CompletedRunHasItsEvidence`. The property is not inductive: it needs `OneWriter` (one live
  process per run id) and, per process, `InOrder`, which says what the record and the
  receipts are at each control point. The argument is that the record is written first
  (as `running`, so the completed record of an earlier attempt is gone before its receipts are
  touched) and last (when every receipt of the plan is sealed by this attempt).
- `EvidenceTree`, assuming moreover `~Restores`: `[]EvidenceFromRecordedSource`. `Sandwiched`
  says that per file the version hashed first is at most the version copied, which is at most
  what the second hash finds; lemma `Squeeze` turns equality of the ends into equality of
  all three.
- `FailsClosed`, for fresh run ids: `[]FailClosed`. `FailInv` adds that receipts exist only once
  the second hash has been accepted, after which no path leads to a failed record.

**FreshRunProofs**

- `ExitCodes` (`[]ExitCodeAgrees`), assuming only that run ids are not shared by two live
  invocations: `CodeFirst` says that the exit code is written before the record it belongs to is final.
- `ExitStatuses` (`[]ExitStatusAgrees`), `ReportsMatch` (`[]ReportMatchesRun`) and `SealedFinal`
  (`SealedReceiptsAreFinal`), for run ids that are used once. `OwnFiles` says what an invocation
  knows of its own files at each control point (its record is not final while it seals, what it has
  not got to is absent, what it read back is what is there), `RunFiles` what a reader finds under
  a run id, `StatusKept` that the exit status of an ended invocation stays true. Together with the
  invariants of SandboxRunProofs they are `FreshInv`. Lemmas `SealedKept`, `CompletedKept` and
  `ReportKept` say that a sealed receipt, a completed record and a written report are final.

**LedgerProofs**

- `Implements`: `Spec => ImplementsLedger`, for run ids that are used once and `~Restores`. Writing the
  first record is `Open` (`OpenStep`), filling a receipt is `AddEvidence` (`SealStep`), the completed
  record is `Publish` (`PublishStep`, where `Sandwiched` gives the one tree all evidence is about), the
  failed one `Refuse` (`RefuseStep`, where `NoReceiptsYet` gives that there is no evidence);
  every truncation after the first is a stutter (`StayOpen`, `TornStep`).
- `FinalRunsStay`: `Spec => Ledger!EndedRunsStay`, under the same assumptions, from the refinement alone: no
  step of the ledger touches a run that has ended, and every step of the directory is a step of the ledger.

**DataForgeBridgeProofs**

- `ClientReadsOnly` (`BridgeSpec => Spec`): the client writes nothing into the directory, so all
  theorems about SandboxRun hold beside it. `BridgeTypes` (`[]BridgeTypeOK`).
- `ServiceMirrors` (`[]ServiceMirrorsDisk`), for run ids that are used once: `MirrorInv` adds that
  what the client holds is sealed on disk; the sandbox keeps that true because sealed receipts are
  final (`SealedKept`), the service because it only takes in what was under way (`KeepEffect`).
- `AcceptedComplete` (`[]AcceptedBundleIsComplete`), likewise: `OnItsWay` follows a receipt of the
  plan from the listing to the client, to the bundle and to the service, and `AsRead` says that a
  completed record and a written report are still what the client read.
- `ServedAccepted` (`[]ServedEvidenceIsAccepted`), moreover for `~Restores`: by `MirrorInv` what the service
  has or can get is a sealed receipt on disk; by `FailInv` a failed run has none, and by the invariants
  of EvidenceTree those of a completed run were observed on the tree it names. The invariants
  of the sandbox hold beside the client because of `ClientReadsOnly`.

**AgentLanesProofs**

- `CleanWorkspace` (`[]LanesSeeCleanWorkspace`) and `Restored` (`[]WorkspaceRestored`), with no
  assumption about the target, the catalog or the lanes. `LanesInv` adds to the properties that the cache
  is keyed by content (`CacheKeyed`, so a cached module is what executing the present file
  would give, even a half-executed one), what the file is while the mutation lane works
  (`FileInv`), when the class is patched (`PatchInv`) and on what the results
  gathered so far were observed (`ResultsInv`).
- `VerdictsAgree` (`[]VerdictsFollowTheGuards`), from `LanesInv` and `VerdictInv`.
- `MutationVerdicts` (`[]MutationFollowsTheGuards`), from `LanesInv`, `TypeInv` and `MutationInv`: the file under
  attack is the target without the guard (`FileInv`), loaded afresh and unpatched, and lemma
  `WeakenText` says that it has lost every copy of that guard and no check.
- `NeverRejected` (`[]ReproducibleNeverRejected`), from lemma `EveryRepetition` about the three branches of
  `_reproduce`.
- `LanesTypes` (`[]TypeOK`), from `LanesInv` and `TypeInv`, which adds that a running agent is still at the head of
  the list; that a patched module is a loaded one needs `PatchInv`.

**ReplayProofs**

- `ReplayTypes`: `Spec => []TypeOK`, and `VerdictSound`:
  `Spec => []VerdictIsAboutTheRecordedSource`. `ReplayInv` says that two live replays of one
  receipt have contested it (`OneReplay`), what a replay that is alone has achieved at each
  control point (`Progress`), and the verdict on each record. `Alone` is about the record and the exit code of
  a replay that is alone with its receipt. `Honest`, for receipts that are not `Excused`, says that what such a replay
  copied and observed is of the version it hashed, or else the source no longer is that version; and so it stays until
  the second hash, for every edit either leaves another version or puts the receipt into `undone` (`Noticed`). A record stays `running` from before the attack until the
  end, which is why an exit code written before the final record cannot be mistaken for the verdict of an older
  replay. The rest of the environment (sandbox runs, damage to receipts) can only add evidence, so what
  other replays know stays true (`ProgressKept`). `VerdictSound` says nothing of receipts that are rewritten:
  in the ledger run ids are used once.

- `ExitCodeSound` (`[]ExitCodeAgrees`) and `ExitStatusSound` (`[]ExitStatusMatchesArtifacts`), from `ReplayInv`
  and `ArtifactInv`. One directory serves all replays of a receipt, so the invariant has to say whose files are
  there: replays are numbered (`Numbered`), a replay that is alone has written the record that is there exactly
  from before its attack on and its exit code before the final record (`InHand`), and a command that has ended
  left what its exit status says, unless a later replay has begun to replace it (`Left`). `Agrees` is the claim
  itself for every receipt that is not contested.

**FindingsProofs** (for every set of lanes, attacks and providers, every sequence of receipts, in any order)

The inductive invariant `FindingsInv` is small: the receipts are ones a lane can produce, and a
comparison job holds a cluster of receipts that are all still there, with at most one verdict per provider.
The work is in the operators. `ClusterShape` and `FindingShape` say what a cluster and a finding are in terms of
the receipts of their group; `WorstOfGroup`, `MostSevere`, `DominantOfGroup` and `ScoreParts` what the parts are.

- `FindingsTypes` (`[]TypeOK`); `GroupingsAgree` (`[]FindingsRefineClusters`) and `GatesAgree`
  (`[]GateImpliesClusterGate`), which compare the two groupings member by member.
- `EvidenceNeverWeakens` (`MoreEvidenceNeverLowersAScore`): `InsertionWithin` says that the old receipts are,
  in their order, among the new ones; then every group, count, worst severity and score can only grow (`GroupGrows`,
  `ScoreGrows`, `FindingsGrow`, `ClustersGrow`).
- `OrderOnlyRepresentative` (`[]OrderDecidesOnlyTheRepresentative`): a reordering goes both ways
  (`ReorderedWithin`), so what can only grow stays the same; the worst severity does too, so the receipt that stands for a
  finding in the other order is one of its worst ones (`OrderIsIrrelevant`).
- `JobNeverOverstates` (`[]StaleJobNeverOverstates`): a job's receipts are still among the present ones.
- `VotesNeverOverturn` (`OneVoteNeverOverturns`): two strict majorities, before and after one
  more vote, intersect (`ConsensusIsMajority`, `NoOverturn`).
- `SeedsAgree` (`[]SeedAgreesWithGate`) and `ExportsPreserve` (`[]ExportPreservesClassification`), for the
  present clusters and for the older one of the job alike (`ClustersAtHand`), and for exports of any part of the
  receipts with the clusters of any other (`PartMembers`, `ExportCites`).

They assume `FindingsAssumption`: classifications and severities are those of the code's tables, and the set
of providers is finite, for votes are counted.

What is only model-checked: the liveness properties (`EveryRunConcludes`, `EveryReplayConcludes`,
`EveryPushConcludes`), that is everything under fairness, which is out of the prover's reach. All invariants and
action properties of the passing runs are theorems.

## 7. What is not modelled, and the plan

Not modelled: hashing and schema validation (stateless; a hash stands for what it covers), the
ForgeCommand client (read-only views), scripts and rendering, the logs. The promotion clients are
one POST per method and keep nothing: which approval, decision or withdrawal wins is decided by the
state machine of DataForge Local, which is not in this repository, so a model of it could not be
compared with any source. `verify` and the operator views of the command line read files and change nothing.
`transition_promotion_status` of the DataForge client is left out with the promotion clients.

Order of work, the most important behaviour first; done unless marked:

1. EvidenceLedger and SandboxRun: safety, reuse of ids, liveness, refinement; the theorems of
   SandboxRunProofs.
2. AgentLanes: clean workspaces and verdicts, checked and proved.
3. Replay: types and the verdict, checked and proved.
4. Findings.
5. Torn reports; DataForgeBridge against an external service that may commit and lose the answer;
   Exports.
6. FreshRunProofs: exit codes, exit statuses, reports and sealed receipts as theorems; LedgerProofs: the
   refinement; DataForgeBridgeProofs: the push client.
7. The remaining safety properties of Replay and of AgentLanes as theorems; FindingsProofs, for which a
   group was given as the sequence with its other places left out, rather than as a shorter sequence.
8. Across components: `ServedEvidenceIsAccepted`, from the sandbox to the service; `FinalRunsStay`, from the refinement.
9. *To do.* What is left of the sandbox when a run id is used again by one process after another
   (`Reuse = "serial"`): which parts of `ReportMatchesRun` and `ExitStatusAgrees` survive, as theorems.
