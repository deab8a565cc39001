---- MODULE MCDataForgeBridge ----
(***************************************************************************)
(* DataForgeBridge with one process that makes runs one after the other.    *)
(* That is enough for a push to meet every half-written file: a run that is *)
(* completed is pushed while the next one is under way.                     *)
(***************************************************************************)
EXTENDS DataForgeBridge, TLC

\* Run ids are interchangeable; a case is not when the catalog lacks it.
Symmetry == Permutations(RunIds)
====
