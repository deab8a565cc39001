---- MODULE MCReplay ----
(***************************************************************************)
(* Replay on small sets: the attack of case c1 succeeds on the first        *)
(* version of the source and is fixed in the next one.                      *)
(***************************************************************************)
EXTENDS Replay

CONSTANTS c1, c2

Defects == {<<c1, 0>>, <<c2, 0>>, <<c2, 1>>}
====
