------------------------------- MODULE Exports -------------------------------
(***************************************************************************)
(* What leaves the evidence directory for other systems: the AAR seed of a  *)
(* root-cause cluster (aar_seed.py) and the ERA export of a run             *)
(* (era_export.py).  Both are given receipts and clusters by their caller,  *)
(* and the clusters may be older than the receipts: here the cluster of the *)
(* comparison job, while Findings goes on adding receipts.  An export may   *)
(* also be given some of the receipts only, those of one run, with clusters *)
(* over others: nothing compares the two.                                   *)
(***************************************************************************)
EXTENDS Findings

-----------------------------------------------------------------------------
(* aar_seed.py                                                              *)

\* Bug: the receipts of the run instead of those of the cluster.
BugSeedReceipts(cluster, rs) == ToSet(rs)

SeedReceipts(cluster, rs) == ToSet(rs) \cap cluster.members

DeterministicStatus(rs) ==
  LET seen == {Reproducible(r) : r \in rs} IN
  IF seen = {TRUE} THEN "reproducible" ELSE IF seen = {FALSE} THEN "not_reproducible" ELSE "mixed"

\* A seed without evidence is refused with a ValueError.
Seedable(cluster, rs) == SeedReceipts(cluster, rs) # {}

Seed(cluster, rs) ==
  [what |-> cluster.class, evidence |-> cluster.members,
   status |-> DeterministicStatus(SeedReceipts(cluster, rs))]

-----------------------------------------------------------------------------
(* era_export.py                                                            *)

EraLanes(class) ==
  CASE class = "duplicate_replay" -> <<"accuracy", "redundancy", "efficiency", "cross_lane">>
    [] class = "boundary" -> <<"cross_lane">>
    [] OTHER -> <<"accuracy">>

ReceiptCandidate(r) == [lane |-> EraLanes(Class(r))[1], class |-> Class(r), cites |-> {r}]

ClusterCandidates(cluster) ==
  {[lane |-> l, class |-> cluster.class, cites |-> cluster.members] : l \in ToSet(EraLanes(cluster.class))}

\* Receipts stand for themselves only when no cluster is given.
Candidates(rs, clusters) ==
  IF clusters = {} THEN {ReceiptCandidate(r) : r \in ToSet(rs)}
  ELSE UNION {ClusterCandidates(c) : c \in clusters}

\* An export without receipts is refused with a ValueError.
Exportable(rs) == ToSet(rs) # {}

Export(rs, clusters) == [included |-> ToSet(rs), candidates |-> Candidates(rs, clusters)]

-----------------------------------------------------------------------------
ClusterSet(rs) == {Clusters(rs)[f] : f \in DOMAIN Clusters(rs)}

Cited(export) == UNION {c.cites : c \in export.candidates}

Submitted == IF job = NoJob THEN {} ELSE {job.cluster}

(***************************************************************************)
(* The seed of a cluster says that the failure never reproduced exactly     *)
(* when the cluster is not ready for a regression gate for that reason,     *)
(* also for a cluster that is older than the receipts the seed is built     *)
(* from (_deterministic_status of aar_seed.py, _ready_for_gate of           *)
(* centipede.py).                                                           *)
(***************************************************************************)
SeedAgreesWithGate ==
  \A cluster \in ClusterSet(receipts) \cup Submitted :
    /\ Seedable(cluster, receipts)
    /\ cluster.class # None =>
         (cluster.gate <=> Seed(cluster, receipts).status # "not_reproducible")

(***************************************************************************)
(* An ERA export of any of the receipts, with the clusters of the same, of  *)
(* fewer, of more or of other receipts, or with a cluster that has aged:    *)
(* each candidate has the classification of every receipt it cites          *)
(* (era_export.py, "preserves_failureforge_classification").  It cites only *)
(* receipts it includes when the clusters are over no others, and cites all *)
(* it includes when the clusters leave none of them out.  build_era_export  *)
(* checks neither: with wider clusters it cites receipts it does not        *)
(* include, and with narrower ones it leaves out some that it does.         *)
(***************************************************************************)
ExportPreservesClassification ==
  \A D, E \in SUBSET DOMAIN receipts :
    LET given == Restrict(receipts, D)
        alone == Export(given, {})
        aged == Export(given, Submitted)
        other == Export(given, ClusterSet(Restrict(receipts, E))) IN
    Exportable(given) =>
      /\ \A export \in {alone, aged, other} : \A candidate \in export.candidates :
           \A r \in candidate.cites : Class(r) = candidate.class
      /\ Cited(alone) = alone.included
      /\ D = DOMAIN receipts => Cited(aged) \subseteq aged.included
      /\ E \subseteq D => Cited(other) \subseteq other.included
      /\ D \subseteq E => other.included \subseteq Cited(other)
=============================================================================
