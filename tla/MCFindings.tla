---- MODULE MCFindings ----
(***************************************************************************)
(* Exports, and with it Findings, on one attack of the catalog whose guard  *)
(* is mutated too: the clusters of state_failure and of no_failure_observed *)
(* each get findings of two logical attacks.                                *)
(***************************************************************************)
EXTENDS Exports, TLC

OneAttack == {"bad_path"}
SomeLanes == {"edge_case", "reproduction", "mutation"}
SomeProposals == [class : {"bad_path", "state_failure"}, severity : {"high", "low"}]

\* Nothing distinguishes the providers.
Symmetry == Permutations(Providers)
====
