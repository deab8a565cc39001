------------------------------ MODULE Findings ------------------------------
(***************************************************************************)
(* What is made of the receipts of one target: the findings of scorer.py,   *)
(* the root-cause clusters of centipede.py and the comparison of provider   *)
(* verdicts on a cluster by neuroforge.py.  Receipts come in as runs end,   *)
(* and load_and_verify_receipts reads them in the order of their ids, which *)
(* are hashes: a new receipt may come anywhere in the sequence.  Providers  *)
(* answer one after the other about the cluster as it was when the job was  *)
(* submitted, while the evidence keeps growing.                             *)
(***************************************************************************)
EXTENDS Integers, Sequences, FiniteSets, SequencesExt

CONSTANTS
  Attacks,      \* attacks of the catalog the runs have made
  Lanes,        \* lanes the runs have used
  Providers,    \* provider/model pairs
  NoJob,        \* no comparison job
  Proposals,    \* the classifications and severities a provider may propose
  MaxReceipts,  \* bound on receipts
  MaxEvents     \* bound on receipts and verdicts together

AllLanes == {"edge_case", "classification", "reproduction", "mutation", "chaos"}
None == "no_failure_observed"

ASSUME FindingsAssumption ==
  /\ Attacks \subseteq {"duplicate_replay", "missing_field", "unknown_enum",
                        "bad_path", "bad_unicode", "malformed_input"}
  /\ Lanes \subseteq AllLanes
  /\ Proposals \subseteq [class : Attacks \cup {None, "state_failure", "boundary"},
                          severity : {"critical", "high", "medium", "low", "info"}]
  /\ IsFiniteSet(Providers)
  /\ MaxReceipts \in Nat /\ MaxEvents \in Nat

VARIABLES
  receipts,  \* the verified receipts, in the order of their ids
  job        \* the comparison job: a cluster as it was, and the verdicts so far

vars == <<receipts, job>>

-----------------------------------------------------------------------------
(* The receipts a lane can produce about an attack.                         *)

Outcome(class, severity, reproducible) ==
  [class |-> class, severity |-> severity, reproducible |-> reproducible]

\* run_attack_against_target: rejected, slipped through, crashed, not loaded.
Observations(a) ==
  {Outcome(None, "info", TRUE), Outcome(a, "high", TRUE),
   Outcome("state_failure", "critical", TRUE), Outcome("state_failure", "critical", FALSE)}

Escalated ==
  [duplicate_replay |-> "critical", missing_field |-> "high", unknown_enum |-> "high",
   bad_path |-> "high", bad_unicode |-> "medium", malformed_input |-> "medium"]

Classified(o, a) == IF o.class = None THEN o ELSE [o EXCEPT !.severity = Escalated[a]]

\* The same every time, intermittent, and varying without a rejection.
Reproductions(o) ==
  {[o EXCEPT !.severity = "medium", !.reproducible = FALSE]} \cup
  IF o.class = None THEN {[o EXCEPT !.reproducible = FALSE]}
  ELSE {[o EXCEPT !.reproducible = TRUE], [o EXCEPT !.severity = "low", !.reproducible = TRUE]}

MutatedAttacks == {"bad_path", "missing_field"}

LaneOutcomes(lane, a) ==
  CASE lane = "edge_case" -> Observations(a)
    [] lane = "classification" -> {Classified(o, a) : o \in Observations(a)}
    [] lane = "reproduction" -> UNION {Reproductions(o) : o \in Observations(a)}
    [] lane = "mutation" -> IF a \notin MutatedAttacks THEN {} ELSE
         {Outcome(None, "info", TRUE), Outcome("state_failure", "high", TRUE),
          Outcome("state_failure", "medium", TRUE)}
    [] lane = "chaos" -> {Outcome(None, "info", TRUE), Outcome("state_failure", "high", TRUE)}

Receipts == UNION {[lane : {l}, attack : {a}, outcome : LaneOutcomes(l, a)] : l \in Lanes, a \in Attacks}

Class(r) == r.outcome.class
Severity(r) == r.outcome.severity
Reproducible(r) == r.outcome.reproducible

-----------------------------------------------------------------------------
(* scorer.py                                                                *)

SeverityWeight == [critical |-> 100, high |-> 60, medium |-> 30, low |-> 10, info |-> 0]

Service == {"duplicate_replay", "missing_field", "unknown_enum"}
Repo == {"bad_path", "bad_unicode", "malformed_input"}

BlastWeight(class) ==
  CASE class = "state_failure" -> 15 [] class \in Service -> 10 [] class \in Repo -> 5 [] OTHER -> 2

FixPenalty(class) ==
  CASE class = None -> 0
    [] class \in Service \cup {"malformed_input"} -> 5
    [] class \in {"bad_path", "bad_unicode", "state_failure"} -> 15

\* The failure_case_id: every lane has a prefix of its own.
FailureCase(r) == <<r.lane, r.attack>>

\* The prefix of a lane is stripped when an id of the catalog is behind it.
LogicalAttack(r) == IF r.lane \in {"mutation", "chaos"} THEN FailureCase(r) ELSE <<r.attack>>

\* Bug: grouped by attack alone.
BugKey(r) == LogicalAttack(r)

Key(r) == <<Class(r), LogicalAttack(r)>>

\* A group keeps its receipts at their places in the sequence.
GroupOf(rs, k) == Restrict(rs, {i \in DOMAIN rs : Key(rs[i]) = k})

\* Bug: the latest receipt stands for the group.
BugWorst(g) == g[CHOOSE i \in DOMAIN g : \A j \in DOMAIN g : j <= i]

\* max() returns the first of the receipts with the highest weight.
Worst(g) ==
  g[CHOOSE i \in DOMAIN g :
      /\ \A j \in DOMAIN g : SeverityWeight[Severity(g[j])] <= SeverityWeight[Severity(g[i])]
      /\ \A j \in DOMAIN g : j < i => SeverityWeight[Severity(g[j])] < SeverityWeight[Severity(g[i])]]

AnyReproducible(g) == \E r \in Range(g) : Reproducible(r)
LanesOf(g) == {r.lane : r \in Range(g)}

\* Bug: the boost of the first lane is forgotten.
BugAgreementBoost(g) == (Cardinality(LanesOf(g)) - 2) * 12

AgreementBoost(g) == (Cardinality(LanesOf(g)) - 1) * 12

Score(g) ==
  SeverityWeight[Severity(Worst(g))] + (IF AnyReproducible(g) THEN 30 ELSE 0)
    + BlastWeight(Class(Worst(g))) + Cardinality(DOMAIN g) + AgreementBoost(g) - FixPenalty(Class(Worst(g)))

\* Bug: what was not observed to fail becomes a gate as well.
BugReadyForGate(r) == Reproducible(r)

ReadyForGate(r) == Reproducible(r) /\ Class(r) # None

Keys(rs) == {Key(r) : r \in ToSet(rs)}

\* `failure` is failure_id, `replays` the receipt that repro_command replays;
\* `members` is the list of receipts as a set.
Finding(g) ==
  [class |-> Class(Worst(g)), severity |-> Severity(Worst(g)), score |-> Score(g),
   failure |-> FailureCase(Worst(g)), replays |-> Worst(g), gate |-> ReadyForGate(Worst(g)),
   lanes |-> LanesOf(g), members |-> Range(g)]

\* score_findings, without the final sort.
Findings(rs) == [k \in Keys(rs) |-> Finding(GroupOf(rs, k))]

\* The sort that ranks the findings; between equals the failure_id decides.
Outranks(f, h) ==
  \/ f.score > h.score
  \/ f.score = h.score /\ SeverityWeight[f.severity] > SeverityWeight[h.severity]

-----------------------------------------------------------------------------
(* centipede.py.  The family and the invariant of a fingerprint are         *)
(* functions of the classification.                                         *)

\* Bug: receipts of one attack form a cluster.
BugFingerprint(r) == r.attack

Fingerprint(r) == Class(r)

SeverityRank == [critical |-> 4, high |-> 3, medium |-> 2, low |-> 1, info |-> 0]

\* Bug: the severity that most receipts have.
BugDominantSeverity(g) ==
  LET Having(s) == {i \in DOMAIN g : Severity(g[i]) = s} IN
  CHOOSE s \in {Severity(r) : r \in Range(g)} :
    \A t \in DOMAIN SeverityRank : Cardinality(Having(t)) <= Cardinality(Having(s))

DominantSeverity(g) ==
  CHOOSE s \in {Severity(r) : r \in Range(g)} :
    \A r \in Range(g) : SeverityRank[Severity(r)] <= SeverityRank[s]

First(g) == g[CHOOSE i \in DOMAIN g : \A j \in DOMAIN g : i <= j]

Cluster(g) ==
  [class |-> Class(First(g)), severity |-> DominantSeverity(g), members |-> Range(g), lanes |-> LanesOf(g),
   gate |-> \E r \in Range(g) : Reproducible(r) /\ Class(r) # None]

\* build_clusters, without the final sort.
Clusters(rs) ==
  [f \in {Fingerprint(r) : r \in ToSet(rs)} |->
     Cluster(Restrict(rs, {i \in DOMAIN rs : Fingerprint(rs[i]) = f}))]

-----------------------------------------------------------------------------
(* neuroforge.py                                                            *)

Votes(verdicts, v) == Cardinality({i \in DOMAIN verdicts : verdicts[i] = v})

\* Bug: half of the providers are enough.
BugConsensus(verdicts) ==
  LET winner == CHOOSE v \in ToSet(verdicts) :
                  \A w \in ToSet(verdicts) : Votes(verdicts, w) <= Votes(verdicts, v)
  IN IF 2 * Votes(verdicts, winner) >= Len(verdicts) THEN winner ELSE "no_consensus"

\* _consensus: a strict majority of the values.
Consensus(verdicts) ==
  LET winner == CHOOSE v \in ToSet(verdicts) :
                  \A w \in ToSet(verdicts) : Votes(verdicts, w) <= Votes(verdicts, v)
  IN IF 2 * Votes(verdicts, winner) > Len(verdicts) THEN winner ELSE "no_consensus"

\* The projections of run_provider_comparison_job.
ClassConsensus(j) == Consensus([i \in DOMAIN j.verdicts |-> j.verdicts[i].class])
SeverityConsensus(j) == Consensus([i \in DOMAIN j.verdicts |-> j.verdicts[i].severity])

Disputed(j) ==
  \/ ClassConsensus(j) \notin {"no_consensus", j.cluster.class}
  \/ SeverityConsensus(j) \notin {"no_consensus", j.cluster.severity}

\* A comparison of fewer than two verdicts is refused.
Status(j) ==
  IF Len(j.verdicts) < 2 THEN "refused"
  ELSE IF Disputed(j) THEN "cluster_disputed"
  ELSE IF "no_consensus" \in {ClassConsensus(j), SeverityConsensus(j)} THEN "provider_disagreement"
  ELSE "confirmed"

-----------------------------------------------------------------------------
Init == receipts = <<>> /\ job = NoJob

Events == Len(receipts) + IF job = NoJob THEN 0 ELSE Len(job.verdicts)

\* A run seals another receipt.
AddReceipt ==
  /\ Len(receipts) < MaxReceipts /\ Events < MaxEvents
  /\ \E r \in Receipts, i \in 1..(Len(receipts) + 1) : receipts' = InsertAt(receipts, i, r)
  /\ UNCHANGED job

Submit ==
  /\ job = NoJob
  /\ \E f \in DOMAIN Clusters(receipts) :
       job' = [cluster |-> Clusters(receipts)[f], verdicts |-> <<>>]
  /\ UNCHANGED receipts

\* One more provider answers; a second answer of the same one is refused.
Answer ==
  /\ job # NoJob
  /\ Events < MaxEvents
  /\ \E p \in Providers \ {job.verdicts[i].provider : i \in DOMAIN job.verdicts}, v \in Proposals :
       job' = [job EXCEPT !.verdicts =
                 Append(@, [provider |-> p, class |-> v.class, severity |-> v.severity])]
  /\ UNCHANGED receipts

Next == AddReceipt \/ Submit \/ Answer

Spec == Init /\ [][Next]_vars

-----------------------------------------------------------------------------
TypeOK ==
  /\ receipts \in Seq(Receipts)
  /\ LET found == Findings(receipts) IN \A k \in DOMAIN found : found[k].score \in Nat
  /\ job # NoJob =>
       /\ job.cluster.members \subseteq Receipts
       /\ job.cluster.severity \in DOMAIN SeverityRank
       /\ Len(job.verdicts) <= Cardinality(Providers)

(***************************************************************************)
(* Findings and clusters tell the same story about the same receipts: the   *)
(* members of a finding all lie in the cluster of its classification, which *)
(* is at least as severe, and the findings of a cluster account for each of *)
(* its receipts (two groupings written independently, score_findings and    *)
(* build_clusters).                                                         *)
(***************************************************************************)
FindingsRefineClusters ==
  LET found == Findings(receipts)  clusters == Clusters(receipts) IN
  /\ \A k \in DOMAIN found :
       /\ found[k].members \subseteq clusters[found[k].class].members
       /\ SeverityRank[found[k].severity] <= SeverityRank[clusters[found[k].class].severity]
  /\ \A f \in DOMAIN clusters :
       clusters[f].members = UNION {found[k].members : k \in {k \in DOMAIN found : found[k].class = f}}

(***************************************************************************)
(* A finding that is ready to become a regression gate lies in a cluster    *)
(* that is ready too, and has a receipt that says it failed reproducibly:   *)
(* scorer.py and centipede.py each have a _ready_for_gate of their own.     *)
(***************************************************************************)
GateImpliesClusterGate ==
  LET found == Findings(receipts)  clusters == Clusters(receipts) IN
  \A k \in DOMAIN found : found[k].gate =>
    /\ clusters[found[k].class].gate
    /\ \E r \in found[k].members : Reproducible(r) /\ Class(r) # None

(***************************************************************************)
(* Further evidence never lowers the score of a finding, wherever its id    *)
(* puts it among the receipts, and never takes the gate readiness of a      *)
(* cluster away.                                                            *)
(***************************************************************************)
MoreEvidenceNeverLowersAScore ==
  [][ receipts' # receipts =>
        LET before == Findings(receipts)  after == Findings(receipts')
            clusters == Clusters(receipts)  grown == Clusters(receipts') IN
        /\ \A k \in DOMAIN before : k \in DOMAIN after /\ after[k].score >= before[k].score
        /\ \A f \in DOMAIN clusters : clusters[f].gate => grown[f].gate ]_receipts

(***************************************************************************)
(* Receipts are read in the order of their ids, which are hashes.  In       *)
(* another order the clusters are the same, and a finding differs at most   *)
(* in what it repeats of the receipt that stands for it: its failure id,    *)
(* its replay command and its gate readiness, all three of one and the same *)
(* of its worst receipts (score_findings).  Which finding outranks which    *)
(* does not depend on the order, except between findings of one score and   *)
(* severity, which are ranked by failure id.  (The lists of receipt ids,    *)
(* here sets, follow the order as well.)                                    *)
(***************************************************************************)
OrderDecidesOnlyTheRepresentative ==
  \A p \in Bijection(DOMAIN receipts, DOMAIN receipts) :
    LET other == [i \in DOMAIN receipts |-> receipts[p[i]]]
        found == Findings(receipts)  again == Findings(other) IN
    /\ Clusters(other) = Clusters(receipts)
    /\ DOMAIN again = DOMAIN found
    /\ \A k \in DOMAIN found :
         /\ \A field \in {"class", "severity", "score", "lanes", "members"} :
              again[k][field] = found[k][field]
         /\ \E r \in found[k].members :
              /\ Severity(r) = found[k].severity
              /\ again[k].failure = FailureCase(r)
              /\ again[k].replays = r
              /\ again[k].gate = ReadyForGate(r)
    /\ \A k, l \in DOMAIN found : Outranks(again[k], again[l]) <=> Outranks(found[k], found[l])

(***************************************************************************)
(* The final severity of a comparison job, which is that of the cluster as  *)
(* it was submitted, never overstates the cluster as it is by now           *)
(* (neuroforge.py, "deterministic projections of the RootCauseCluster").    *)
(***************************************************************************)
StaleJobNeverOverstates ==
  job # NoJob =>
    LET now == Clusters(receipts)[job.cluster.class] IN
    /\ job.cluster.members \subseteq now.members
    /\ SeverityRank[job.cluster.severity] <= SeverityRank[now.severity]

(***************************************************************************)
(* One more verdict may make providers disagree or agree, but it never      *)
(* turns a confirmed cluster into a disputed one or the other way round     *)
(* (_consensus asks for a strict majority).                                 *)
(***************************************************************************)
OneVoteNeverOverturns ==
  [][ job # NoJob /\ Len(job.verdicts) >= 2 =>
        {Status(job), Status(job')} # {"confirmed", "cluster_disputed"} ]_job
=============================================================================
