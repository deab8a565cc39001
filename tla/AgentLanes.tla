----------------------------- MODULE AgentLanes -----------------------------
(***************************************************************************)
(* The attack loop of a sandbox run, inside one process: the lanes of       *)
(* failureforge.agents attack one after the other the registry.py of the    *)
(* copied workspace, through run_attack_against_target and the module cache *)
(* of load_registry_module.  Three things one lane could leave behind for   *)
(* the next are kept: the file (the mutation lane deletes guards from it),  *)
(* sys.modules, and the patch the chaos lane puts on the Registry class.    *)
(*                                                                          *)
(* registry.py is a sequence of lines.  A line is a guard against one       *)
(* attack in the words MutationAgent knows, a check against it in others,   *)
(* the statement that defines the class, a comment, a statement that raises *)
(* when the module is imported, other code, or what a deletion left over.   *)
(***************************************************************************)
EXTENDS Integers, Sequences

CONSTANTS
  Targets,       \* versions of registry.py a run may copy
  Attacks,       \* the catalog of EdgeCaseAgent
  Mutations,     \* the attacks whose guard MutationAgent deletes
  ChaosAttacks,  \* the patches of ChaosAgent
  NoAttack,      \* not an attack
  Flaky,         \* attacks on which the target does not behave the same way each time
  Repeats,       \* how often ReproductionAgent repeats an attack
  MaxAgents,     \* bound on the agents of a run
  MaxRuns        \* bound on the runs of the process

Line == [kind : {"class", "guard", "check", "comment", "raise", "code", "gone"},
         attack : Attacks \cup {NoAttack}, shifted : BOOLEAN]
Text == Seq(Line)

ASSUME LanesAssumption ==
  /\ Targets \subseteq Text
  /\ Mutations \subseteq Attacks /\ Flaky \subseteq Attacks
  /\ ChaosAttacks \cap Attacks = {}
  /\ NoAttack \notin Attacks \cup ChaosAttacks
  /\ "no_failure_observed" \notin Attacks \cup ChaosAttacks \cup {NoAttack}
  /\ Repeats \in Nat \ {0, 1}
  /\ MaxAgents \in Nat /\ MaxRuns \in Nat

VARIABLES
  target,    \* what _copy_workspace put into the workspace
  file,      \* registry.py in the workspace
  modules,   \* sys.modules: the modules loaded from this workspace, by name
  patched,   \* names of modules whose Registry.upsert is replaced
  agents,    \* the lanes still to run; the first one is running
  pc,        \* where the running agent is
  todo,      \* attacks the running agent has still to make
  current,   \* the attack it is making
  original,  \* the text MutationAgent read when it started
  results,   \* what the calls of run_attack_against_target returned so far
  outcomes,  \* the AttackOutcomes of this run
  runs       \* runs of this process so far

vars == <<target, file, modules, patched, agents, pc, todo, current, original, results, outcomes, runs>>

-----------------------------------------------------------------------------
(* The text of registry.py and the module it becomes.                       *)

IsGuard(line, a) == line.kind = "guard" /\ line.attack = a
HasGuard(t, a) == \E i \in 1..Len(t) : IsGuard(t[i], a)

\* A check in other words: MutationAgent does not find it.
HasCheck(t, a) == \E i \in 1..Len(t) : t[i].kind = "check" /\ t[i].attack = a

\* The line j of t when the lines of `lost` are deleted: the blanks in front of
\* a deleted line stay and end up in front of the next one.
Remaining(t, lost, j) ==
  IF j \in lost THEN [t[j] EXCEPT !.kind = "gone", !.shifted = FALSE]
  ELSE [t[j] EXCEPT !.shifted = @ \/ j - 1 \in lost]

\* Bug: only the first occurrence of the snippet is deleted.
BugWeaken(t, a) ==
  LET lost == {i \in 1..Len(t) : IsGuard(t[i], a) /\ \A j \in 1..(i - 1) : ~IsGuard(t[j], a)} IN
  [j \in 1..Len(t) |-> Remaining(t, lost, j)]

\* str.replace deletes every occurrence of the snippet with its newline.
Weaken(t, a) ==
  LET lost == {i \in 1..Len(t) : IsGuard(t[i], a)} IN
  [j \in 1..Len(t) |-> Remaining(t, lost, j)]

\* Python refuses an indentation nobody asked for, except before a comment.
Compiles(t) == \A i \in 1..Len(t) : t[i].shifted => t[i].kind = "comment"

\* What executing the text leaves in sys.modules, whether or not it raises.
Executed(t) ==
  [text |-> t,
   complete |-> Compiles(t) /\ \A i \in 1..Len(t) : t[i].kind # "raise",
   class |-> Compiles(t) /\ \E i \in 1..Len(t) :
               t[i].kind = "class" /\ \A j \in 1..i : t[j].kind # "raise"]

\* Bug: the module is named after the path alone.
BugName(t) == <<>>

\* The module name is a hash of the path and of the contents.
Name(t) == t

Cached == Name(file) \in DOMAIN modules
Module == IF Cached THEN modules[Name(file)] ELSE Executed(file)
LoadFails == ~Cached /\ ~Module.complete

\* Bug: the module is executed without being registered.
BugLoad == modules' = modules

\* load_registry_module registers the module before it executes it, and
\* leaves it there when that raises.
Load == modules' = [n \in DOMAIN modules \cup {Name(file)} |->
                      IF n \in DOMAIN modules THEN modules[n] ELSE Module]

\* What the target does with the input of an attack.
Reactions(a) ==
  IF a \in Flaky \/ ~Module.complete \/ Name(file) \in patched
    THEN {"rejected", "slipped", "crashed"}
  ELSE IF HasGuard(Module.text, a) \/ HasCheck(Module.text, a) THEN {"rejected"}
  ELSE {"slipped"}

\* What run_attack_against_target may return.
AttackResults(a) ==
  IF LoadFails THEN {"unloadable"}
  ELSE IF ~Module.class THEN {"classless"}
  ELSE Reactions(a)

Result == [kind : {"rejected", "slipped", "crashed", "unloadable", "classless"},
           text : Text, patched : BOOLEAN]

Classification(a, kind) ==
  CASE kind = "rejected" -> "no_failure_observed"
    [] kind = "slipped" -> a
    [] OTHER -> "state_failure"

-----------------------------------------------------------------------------
(* The outcome each lane makes of what it observed.                         *)

Lanes == {"edge_case", "classification", "reproduction", "mutation", "chaos"}
Lane == Head(agents)

Kinds(rs) == {rs[i].kind : i \in 1..Len(rs)}
Classes(a, rs) == {Classification(a, k) : k \in Kinds(rs)}
LastClass(a, rs) == Classification(a, rs[Len(rs)].kind)

\* Bug: only the last repetition is looked at.
BugReproduced(a, rs) == LastClass(a, rs) # "no_failure_observed"

\* The three branches of _reproduce, as far as they set `reproducible`.
Reproduced(a, rs) ==
  LET none == "no_failure_observed" \in Classes(a, rs) IN
  IF (\A k, l \in Kinds(rs) : k = l) /\ ~none THEN TRUE
  ELSE IF none /\ Classes(a, rs) # {"no_failure_observed"} THEN FALSE
  ELSE LastClass(a, rs) # "no_failure_observed"

Outcome(lane, a, rs) ==
  [lane |-> lane, attack |-> a, results |-> rs,
   classification |->
     IF lane \in {"mutation", "chaos"} /\ (rs = <<>> \/ LastClass(a, rs) # "no_failure_observed")
       THEN "state_failure" ELSE LastClass(a, rs),
   reproducible |->
     CASE lane = "reproduction" -> Reproduced(a, rs)
       [] lane \in {"mutation", "chaos"} -> TRUE
       [] OTHER -> rs[1].kind \notin {"unloadable", "classless"}]

-----------------------------------------------------------------------------
AgentLists == UNION {[1..n -> Lanes] : n \in 1..MaxAgents}

\* A run starts with a fresh copy of the target; the process keeps its modules.
Copy(t, as) ==
  /\ target' = t /\ file' = t
  /\ agents' = as
  /\ outcomes' = {}

Init ==
  /\ target \in Targets /\ file = target
  /\ modules = [n \in {} |-> Executed(target)]
  /\ patched = {}
  /\ agents \in AgentLists
  /\ pc = "next"
  /\ todo = {} /\ current = NoAttack /\ original = <<>> /\ results = <<>>
  /\ outcomes = {}
  /\ runs = 1

NextRun ==
  /\ pc \in {"done", "aborted"}
  /\ runs < MaxRuns
  /\ runs' = runs + 1
  /\ \E t \in Targets, as \in AgentLists : Copy(t, as)
  /\ pc' = "next"
  /\ todo' = {} /\ current' = NoAttack /\ original' = <<>> /\ results' = <<>>
  /\ UNCHANGED <<modules, patched>>

\* _invoke_agent calls the produce method of the next agent.
StartAgent ==
  /\ pc = "next" /\ agents # <<>>
  /\ todo' = CASE Lane = "mutation" -> Mutations
               [] Lane = "chaos" -> ChaosAttacks
               [] OTHER -> Attacks
  /\ original' = IF Lane = "mutation" THEN file ELSE original
  /\ pc' = "attack"
  /\ UNCHANGED <<target, file, modules, patched, agents, current, results, outcomes, runs>>

AllAgentsDone ==
  /\ pc = "next" /\ agents = <<>>
  /\ pc' = "done"
  /\ UNCHANGED <<target, file, modules, patched, agents, todo, current, original, results, outcomes, runs>>

\* The next case of the catalog, without preparation.
PickCase ==
  /\ pc = "attack" /\ Lane \notin {"mutation", "chaos"}
  /\ \E a \in todo : current' = a /\ todo' = todo \ {a}
  /\ pc' = "run"
  /\ UNCHANGED <<target, file, modules, patched, agents, original, results, outcomes, runs>>

\* The guard is not in the file: the coverage map is stale.
SnippetNotFound ==
  /\ pc = "attack" /\ Lane = "mutation"
  /\ \E a \in todo :
       /\ ~HasGuard(original, a)
       /\ outcomes' = outcomes \cup {Outcome(Lane, a, <<>>)}
       /\ todo' = todo \ {a}
  /\ UNCHANGED <<target, file, modules, patched, agents, pc, current, original, results, runs>>

\* Delete the guard and purge the modules that were loaded from this file.
DeleteGuard ==
  /\ pc = "attack" /\ Lane = "mutation"
  /\ \E a \in todo :
       /\ HasGuard(original, a)
       /\ file' = Weaken(original, a)
       /\ current' = a /\ todo' = todo \ {a}
  /\ modules' = [n \in {} |-> Executed(file)]
  /\ pc' = "run"
  /\ UNCHANGED <<target, patched, agents, original, results, outcomes, runs>>

Wanted == IF Lane = "reproduction" THEN Repeats ELSE 1

\* One call of run_attack_against_target.
RunAttack ==
  /\ pc = "run" /\ Len(results) < Wanted
  /\ Load
  /\ \E k \in AttackResults(current) :
       results' = Append(results, [kind |-> k, text |-> Module.text, patched |-> Name(file) \in patched])
  /\ UNCHANGED <<target, file, patched, agents, pc, todo, current, original, outcomes, runs>>

Conclude ==
  /\ pc = "run" /\ Len(results) = Wanted
  /\ outcomes' = outcomes \cup {Outcome(Lane, current, results)}
  /\ modules' = IF Lane = "mutation" THEN [n \in {} |-> Executed(file)] ELSE modules
  /\ pc' = "attack"
  /\ current' = NoAttack /\ results' = <<>>
  /\ UNCHANGED <<target, file, patched, agents, todo, original, runs>>

\* Chaos: load the module, make the baseline upsert, patch the class.
PatchClass ==
  /\ pc = "attack" /\ Lane = "chaos"
  /\ ~LoadFails /\ Module.class
  /\ \E a \in todo : current' = a /\ todo' = todo \ {a}
  /\ Load
  /\ patched' = {Name(file)}
  /\ pc' = "patched"
  /\ UNCHANGED <<target, file, agents, original, results, outcomes, runs>>

\* Bug: the patch is taken back only when the attack was survived.
BugChaosAttack ==
  /\ pc = "patched"
  /\ \E k \in {"rejected", "slipped"} :
       /\ outcomes' = outcomes \cup
            {Outcome(Lane, current, <<[kind |-> k, text |-> Module.text, patched |-> TRUE]>>)}
       /\ patched' = IF k = "rejected" THEN {} ELSE patched
  /\ current' = NoAttack
  /\ pc' = "attack"
  /\ UNCHANGED <<target, file, modules, agents, todo, original, results, runs>>

\* The attack on the patched class; the patch is taken back in any case.
ChaosAttack ==
  /\ pc = "patched"
  /\ \E k \in {"rejected", "slipped"} :
       outcomes' = outcomes \cup
         {Outcome(Lane, current, <<[kind |-> k, text |-> Module.text, patched |-> TRUE]>>)}
  /\ patched' = {}
  /\ current' = NoAttack
  /\ pc' = "attack"
  /\ UNCHANGED <<target, file, modules, agents, todo, original, results, runs>>

\* Bug: the mutated file stays, because every mutation starts from `original`.
BugAgentDone ==
  /\ pc = "attack" /\ todo = {}
  /\ agents' = Tail(agents)
  /\ pc' = "next"
  /\ UNCHANGED <<target, file, modules, patched, todo, current, original, results, outcomes, runs>>

AgentDone ==
  /\ pc = "attack" /\ todo = {}
  /\ file' = IF Lane = "mutation" THEN original ELSE file
  /\ agents' = Tail(agents)
  /\ pc' = "next"
  /\ UNCHANGED <<target, modules, patched, todo, current, original, results, outcomes, runs>>

\* Bug: no finally clause around the mutations.
BugUnwind == file' = file /\ patched' = {}

\* The finally clauses of MutationAgent.produce and _run_with_patch.
Unwind ==
  /\ file' = IF Lane = "mutation" THEN original ELSE file
  /\ patched' = {}

\* An exception no lane handles ends the run: SystemExit out of the target in
\* run_attack_against_target, any unforeseen one in the chaos lane.
TargetRaises ==
  /\ \/ pc = "run" /\ Len(results) < Wanted /\ Load
     \/ pc = "patched" /\ UNCHANGED modules
  /\ Unwind
  /\ pc' = "aborted"
  /\ UNCHANGED <<target, agents, todo, current, original, results, outcomes, runs>>

\* ChaosAgent handles no exception before it patches the class: the module
\* does not load, it has no Registry, or the baseline upsert is refused.
ChaosCannotStart ==
  /\ pc = "attack" /\ Lane = "chaos" /\ todo # {}
  /\ Load
  /\ pc' = "aborted"
  /\ UNCHANGED <<target, file, patched, agents, todo, current, original, results, outcomes, runs>>

Next ==
  \/ NextRun \/ StartAgent \/ AllAgentsDone
  \/ PickCase \/ SnippetNotFound \/ DeleteGuard \/ RunAttack \/ Conclude
  \/ PatchClass \/ ChaosAttack \/ AgentDone
  \/ TargetRaises \/ ChaosCannotStart

Spec == Init /\ [][Next]_vars

-----------------------------------------------------------------------------
TypeOK ==
  /\ target \in Text /\ file \in Text /\ original \in Text
  /\ \A n \in DOMAIN modules : modules[n].text \in Text
  /\ patched \subseteq DOMAIN modules
  /\ agents \in Seq(Lanes)
  /\ pc \in {"next", "attack", "run", "patched", "done", "aborted"}
  /\ todo \subseteq Attacks \cup ChaosAttacks
  /\ current \in Attacks \cup ChaosAttacks \cup {NoAttack}
  /\ results \in Seq(Result)
  /\ \A o \in outcomes : o.lane \in Lanes /\ o.results \in Seq(Result)
  /\ runs \in Nat

Observed(o) == {o.results[i] : i \in 1..Len(o.results)}

(***************************************************************************)
(* Every lane observes the unmodified, unpatched target that this run       *)
(* copied, whichever lanes ran before it, in this run or in an earlier run  *)
(* of the same process; only the mutation lane observes a text with exactly *)
(* the guard it is about removed (mutation.py, "so other lanes see a clean  *)
(* workspace"; target_loader.py, no stale cached module).                   *)
(***************************************************************************)
LanesSeeCleanWorkspace ==
  \A o \in outcomes : \A r \in Observed(o) :
    /\ r.text = IF o.lane = "mutation" THEN Weaken(target, o.attack) ELSE target
    /\ r.patched <=> o.lane = "chaos"

(***************************************************************************)
(* Between two agents and after a run, however it ended, the workspace and  *)
(* the loaded class are as the run found them: the finally clauses cover    *)
(* every exit of the mutation and of the chaos lane.                        *)
(***************************************************************************)
WorkspaceRestored ==
  pc \in {"next", "done", "aborted"} => file = target /\ patched = {}

(***************************************************************************)
(* When the target loads and reacts the same way each time, the edge-case,  *)
(* classification and reproduction lanes give the verdict that its guards   *)
(* imply, so they agree with each other: what scorer.py counts as agreement *)
(* of lanes is about the target and not about the order of the lanes.       *)
(***************************************************************************)
VerdictsFollowTheGuards ==
  Executed(target).complete /\ Executed(target).class =>
    \A o \in outcomes :
      o.lane \in {"edge_case", "classification", "reproduction"} /\ o.attack \notin Flaky =>
        o.classification = IF HasGuard(target, o.attack) \/ HasCheck(target, o.attack)
                             THEN "no_failure_observed" ELSE o.attack

(***************************************************************************)
(* When the target without a guard still loads, the mutation lane reports   *)
(* that the attack slipped through exactly if nothing else in the target    *)
(* checks for it (mutation.py, "attack still rejected after mutation ->     *)
(* defense-in-depth", "attack slipped through -> the canonical check was    *)
(* load-bearing").                                                          *)
(***************************************************************************)
MutationFollowsTheGuards ==
  \A o \in outcomes :
    LET weak == Executed(Weaken(target, o.attack)) IN
    o.lane = "mutation" /\ HasGuard(target, o.attack) /\ weak.complete /\ weak.class /\ o.attack \notin Flaky =>
      o.classification = IF HasCheck(target, o.attack) THEN "no_failure_observed" ELSE "state_failure"

(***************************************************************************)
(* A failure the reproduction lane calls reproducible was observed in every *)
(* repetition (reproduction.py, _reproduce).                                *)
(***************************************************************************)
ReproducibleNeverRejected ==
  \A o \in outcomes :
    o.lane = "reproduction" /\ o.reproducible => "rejected" \notin Kinds(o.results)

(***************************************************************************)
(* Outcomes that vary are not called reproducible (reproduction.py, "if     *)
(* results vary or any run produces no_failure_observed -> intermittent").  *)
(***************************************************************************)
VaryingIsIntermittent ==
  \A o \in outcomes :
    o.lane = "reproduction" /\ o.reproducible => \A k, l \in Kinds(o.results) : k = l

(***************************************************************************)
(* When the mutation lane says that deleting a guard let the attack slip    *)
(* through, the attack did run on the weakened registry and did slip        *)
(* through (mutation.py, the comment on the mutation-test lens).            *)
(***************************************************************************)
SlippedThroughMeansSlipped ==
  \A o \in outcomes :
    o.lane = "mutation" /\ o.classification = "state_failure" =>
      \A k \in Kinds(o.results) : k = "slipped"
=============================================================================
