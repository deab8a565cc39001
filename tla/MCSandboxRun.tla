---- MODULE MCSandboxRun ----
(***************************************************************************)
(* SandboxRun on small sets.  The bounds on edits, invocations and deaths   *)
(* are constants of SandboxRun and get their values in the .cfg files.      *)
(***************************************************************************)
EXTENDS SandboxRun, TLC

\* Processes and files are interchangeable; run ids and cases too, unless a
\* cfg distinguishes them.
Symmetry == Permutations(Procs) \cup Permutations(Files) \cup Permutations(RunIds)
====
