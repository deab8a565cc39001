-------------------------- MODULE AgentLanesProofs --------------------------
(***************************************************************************)
(* Machine-checked proofs about AgentLanes, for every target text, catalog, *)
(* list of agents and number of runs.                                       *)
(***************************************************************************)
EXTENDS AgentLanes, TLAPS

Running == pc \in {"attack", "run", "patched"}

\* The cache is keyed by content: a name never stands for another text.
CacheKeyed == \A n \in DOMAIN modules : modules[n] = Executed(n)

\* What is on disk: the target, except while the mutation lane is at work,
\* and then that lane holds the target in memory.
FileInv ==
  /\ ~(Running /\ Lane = "mutation") => file = target
  /\ Running /\ Lane = "mutation" => original = target
  /\ pc = "run" /\ Lane = "mutation" => file = Weaken(target, current)

\* The class is patched exactly while the chaos lane attacks it.
PatchInv ==
  /\ pc # "patched" => patched = {}
  /\ pc = "patched" => Lane = "chaos" /\ patched = {Name(file)}
  /\ pc = "run" => Lane # "chaos"

\* What the current case has observed so far, it observed on the file as it
\* is now, with the class as it was loaded.
Sightings == {[kind |-> k, text |-> file, patched |-> FALSE] :
                k \in {"rejected", "slipped", "crashed", "unloadable", "classless"}}

ResultsInv ==
  /\ pc = "run" => results \in Seq(Sightings)
  /\ pc \in {"next", "attack", "patched"} => results = <<>>

LanesInv ==
  CacheKeyed /\ FileInv /\ PatchInv /\ ResultsInv /\ LanesSeeCleanWorkspace

\* Whatever was cached before, the module an attack uses has the text of the
\* file as it is on disk (load_registry_module hashes the contents).
LEMMA FreshModule ==
  ASSUME CacheKeyed
  PROVE  Module = Executed(file) /\ Module.text = file
BY DEF CacheKeyed, Module, Cached, Name, Executed

\* Loading a module, whether it succeeds or raises, keeps the cache keyed by
\* content.
LEMMA LoadKeyed ==
  ASSUME CacheKeyed, Load
  PROVE  CacheKeyed'
BY FreshModule DEF CacheKeyed, Load, Name

\* A run starts from its own copy with nothing observed.
LEMMA LanesInit == Init => LanesInv
BY DEF Init, LanesInv, CacheKeyed, FileInv, PatchInv, ResultsInv, LanesSeeCleanWorkspace, Running, Lane

\* Every step of a lane keeps the workspace clean for the next one.
LEMMA LanesNext == LanesInv /\ [Next]_vars => LanesInv'
<1>. SUFFICES ASSUME LanesInv, [Next]_vars PROVE LanesInv'
  OBVIOUS
<1>. USE DEF LanesInv
<1>1. CASE NextRun
  BY <1>1 DEF NextRun, Copy, CacheKeyed, FileInv, PatchInv, ResultsInv, LanesSeeCleanWorkspace, Running
<1>2. CASE StartAgent
  BY <1>2 DEF StartAgent, CacheKeyed, FileInv, PatchInv, ResultsInv, LanesSeeCleanWorkspace, Running, Lane, Observed
<1>3. CASE AllAgentsDone
  BY <1>3 DEF AllAgentsDone, CacheKeyed, FileInv, PatchInv, ResultsInv, LanesSeeCleanWorkspace, Running, Lane, Observed
<1>4. CASE PickCase
  BY <1>4 DEF PickCase, CacheKeyed, FileInv, PatchInv, ResultsInv, LanesSeeCleanWorkspace, Running, Lane, Observed, Sightings
<1>5. CASE SnippetNotFound
  <2>1. LanesSeeCleanWorkspace'
    BY <1>5 DEF SnippetNotFound, LanesSeeCleanWorkspace, Observed, Outcome
  <2>. QED BY <1>5, <2>1 DEF SnippetNotFound, CacheKeyed, FileInv, PatchInv, ResultsInv, Running, Lane, Sightings
<1>6. CASE DeleteGuard
  BY <1>6 DEF DeleteGuard, CacheKeyed, FileInv, PatchInv, ResultsInv, LanesSeeCleanWorkspace, Running, Lane, Observed, Sightings
<1>7. CASE RunAttack
  <2>1. CacheKeyed'
    BY <1>7, LoadKeyed DEF RunAttack
  <2>2. PICK k \in AttackResults(current) :
          results' = Append(results, [kind |-> k, text |-> Module.text, patched |-> Name(file) \in patched])
    BY <1>7 DEF RunAttack
  <2>3. k \in {"rejected", "slipped", "crashed", "unloadable", "classless"}
    BY DEF AttackResults, Reactions
  <2>4. Module.text = file /\ (Name(file) \in patched) = FALSE
    BY <1>7, FreshModule DEF RunAttack, PatchInv
  <2>5. ResultsInv'
    <3>1. Sightings' = Sightings /\ pc = "run" /\ pc' = "run"
      BY <1>7 DEF RunAttack, Sightings
    <3>2. results \in Seq(Sightings)
      BY <3>1 DEF ResultsInv
    <3>3. [kind |-> k, text |-> Module.text, patched |-> Name(file) \in patched] \in Sightings
      BY <2>3, <2>4 DEF Sightings
    <3>. HIDE DEF Sightings
    <3>4. results' \in Seq(Sightings)
      BY <2>2, <3>2, <3>3
    <3>. QED BY <3>1, <3>4 DEF ResultsInv
  <2>. QED BY <1>7, <2>1, <2>5 DEF RunAttack, FileInv, PatchInv, LanesSeeCleanWorkspace, Running, Lane, Observed
<1>8. CASE Conclude
  <2>1. CacheKeyed'
    BY <1>8 DEF Conclude, CacheKeyed
  <2>. DEFINE o == Outcome(Lane, current, results)
  <2>2. o.lane = Lane /\ o.attack = current /\ o.results = results
    BY DEF Outcome
  <2>3. \A r \in Observed(o) : r.text = file /\ r.patched = FALSE
    BY <1>8, <2>2 DEF Conclude, Observed, ResultsInv, Sightings
  <2>4. file = IF Lane = "mutation" THEN Weaken(target, current) ELSE target
    BY <1>8 DEF Conclude, FileInv, Running
  <2>5. Lane # "chaos"
    BY <1>8 DEF Conclude, PatchInv
  <2>6. outcomes' = outcomes \cup {o} /\ target' = target
    BY <1>8 DEF Conclude
  <2>. HIDE DEF o
  <2>7. LanesSeeCleanWorkspace'
    BY <2>2, <2>3, <2>4, <2>5, <2>6 DEF LanesSeeCleanWorkspace, Observed
  <2>. QED BY <1>8, <2>1, <2>7 DEF Conclude, FileInv, PatchInv, ResultsInv, Running, Lane, Sightings
<1>9. CASE PatchClass
  <2>1. CacheKeyed'
    BY <1>9, LoadKeyed DEF PatchClass
  <2>. QED BY <1>9, <2>1 DEF PatchClass, FileInv, PatchInv, ResultsInv, LanesSeeCleanWorkspace, Running, Lane, Observed, Sightings, Name
<1>10. CASE ChaosAttack
  <2>1. PICK k \in {"rejected", "slipped"} :
          outcomes' = outcomes \cup
            {Outcome(Lane, current, <<[kind |-> k, text |-> Module.text, patched |-> TRUE]>>)}
    BY <1>10 DEF ChaosAttack
  <2>. DEFINE r == [kind |-> k, text |-> Module.text, patched |-> TRUE]
              o == Outcome(Lane, current, <<r>>)
  <2>2. o.lane = Lane /\ o.attack = current /\ o.results = <<r>>
    BY DEF Outcome
  <2>3. \A s \in Observed(o) : s = r
    <3>. HIDE DEF r, o
    <3>. QED BY <2>2 DEF Observed
  <2>4. r.text = target /\ r.patched = TRUE /\ Lane = "chaos"
    BY <1>10, FreshModule DEF ChaosAttack, FileInv, PatchInv, Running
  <2>5. outcomes' = outcomes \cup {o} /\ target' = target
    BY <1>10, <2>1 DEF ChaosAttack
  <2>. HIDE DEF o, r
  <2>6. LanesSeeCleanWorkspace'
    BY <2>2, <2>3, <2>4, <2>5 DEF LanesSeeCleanWorkspace, Observed
  <2>. QED BY <1>10, <2>6 DEF ChaosAttack, CacheKeyed, FileInv, PatchInv, ResultsInv, Running, Lane, Sightings
<1>11. CASE AgentDone
  BY <1>11 DEF AgentDone, CacheKeyed, FileInv, PatchInv, ResultsInv, LanesSeeCleanWorkspace, Running, Lane, Observed, Sightings
<1>12. CASE TargetRaises
  <2>1. CacheKeyed'
    BY <1>12, LoadKeyed DEF TargetRaises, CacheKeyed
  <2>. QED BY <1>12, <2>1 DEF TargetRaises, Unwind, FileInv, PatchInv, ResultsInv, LanesSeeCleanWorkspace, Running, Lane, Observed, Sightings
<1>13. CASE ChaosCannotStart
  <2>1. CacheKeyed'
    BY <1>13, LoadKeyed DEF ChaosCannotStart
  <2>. QED BY <1>13, <2>1 DEF ChaosCannotStart, FileInv, PatchInv, ResultsInv, LanesSeeCleanWorkspace, Running, Lane, Observed, Sightings
<1>14. CASE UNCHANGED vars
  BY <1>14 DEF vars, CacheKeyed, FileInv, PatchInv, ResultsInv, LanesSeeCleanWorkspace, Running, Lane, Observed, Sightings
<1>. QED BY <1>1, <1>2, <1>3, <1>4, <1>5, <1>6, <1>7, <1>8, <1>9, <1>10, <1>11, <1>12, <1>13, <1>14 DEF Next

(***************************************************************************)
(* Whatever lanes run in whatever order, in however many runs of a process, *)
(* each observes the unpatched code of its own run's target, except that    *)
(* the mutation lane observes it without the one guard it deleted.          *)
(***************************************************************************)
THEOREM CleanWorkspace == Spec => []LanesSeeCleanWorkspace
<1>1. LanesInv => LanesSeeCleanWorkspace
  BY DEF LanesInv
<1>. QED BY <1>1, LanesInit, LanesNext, PTL DEF Spec

(***************************************************************************)
(* Between agents and after a run that ended in any way short of a kill,    *)
(* the file is the target again and the class is not patched.               *)
(***************************************************************************)
THEOREM Restored == Spec => []WorkspaceRestored
<1>1. LanesInv => WorkspaceRestored
  BY DEF LanesInv, WorkspaceRestored, FileInv, PatchInv, Running
<1>. QED BY <1>1, LanesInit, LanesNext, PTL DEF Spec

-----------------------------------------------------------------------------
(* The verdicts.                                                            *)

Sound == Executed(target).complete /\ Executed(target).class
Judges == {"edge_case", "classification", "reproduction"}
Implied(a) == IF HasGuard(target, a) \/ HasCheck(target, a) THEN "rejected" ELSE "slipped"

\* Each repetition so far went the way the target's guards imply.
VerdictInv ==
  /\ VerdictsFollowTheGuards
  /\ Sound /\ pc = "run" /\ Lane \in Judges /\ current \notin Flaky
       => \A i \in 1..Len(results) : results[i].kind = Implied(current)

\* No repetition of a judge can turn out otherwise: the target it loads is
\* complete, clean and not patched.
LEMMA ImpliedResult ==
  ASSUME LanesInv, Sound, pc = "run", Lane \in Judges, current \notin Flaky,
         NEW k \in AttackResults(current)
  PROVE  k = Implied(current)
<1>1. Module = Executed(target) /\ Module.text = target
  BY FreshModule DEF LanesInv, FileInv, Judges, Executed
<1>2. ~LoadFails /\ Module.class
  BY <1>1 DEF LoadFails, Sound
<1>3. Module.complete /\ Name(file) \notin patched
  BY <1>1 DEF Sound, LanesInv, PatchInv
<1>. QED BY <1>1, <1>2, <1>3 DEF AttackResults, Reactions, Implied

\* Every step keeps the verdicts in line with the guards.
LEMMA VerdictNext == LanesInv /\ VerdictInv /\ [Next]_vars => VerdictInv'
<1>. SUFFICES ASSUME LanesInv, VerdictInv, [Next]_vars PROVE VerdictInv'
  OBVIOUS
<1>1. CASE RunAttack
  <2>1. PICK k \in AttackResults(current) :
          results' = Append(results, [kind |-> k, text |-> Module.text, patched |-> Name(file) \in patched])
    BY <1>1 DEF RunAttack
  <2>2. results \in Seq(Sightings) /\ pc = "run"
    BY <1>1 DEF RunAttack, LanesInv, ResultsInv
  <2>3. /\ Len(results') = Len(results) + 1
        /\ \A i \in 1..Len(results) : results'[i] = results[i]
        /\ results'[Len(results) + 1].kind = k
    BY <2>1, <2>2
  <2>4. UNCHANGED <<target, agents, current, outcomes, pc>>
    BY <1>1 DEF RunAttack
  <2>5. ASSUME Sound', Lane' \in Judges, current' \notin Flaky, NEW i \in 1..Len(results')
        PROVE  results'[i].kind = Implied(current)
    <3>1. Sound /\ Lane \in Judges /\ current \notin Flaky
      BY <2>4, <2>5 DEF Sound, Lane
    <3>2. k = Implied(current)
      BY <2>2, <3>1, ImpliedResult
    <3>3. CASE i = Len(results) + 1
      BY <2>3, <3>2, <3>3
    <3>4. CASE i # Len(results) + 1
      <4>1. i \in 1..Len(results)
        BY <2>2, <2>3, <3>4
      <4>. QED BY <2>2, <2>3, <3>1, <4>1 DEF VerdictInv
    <3>. QED BY <3>3, <3>4
  <2>6. Implied(current)' = Implied(current)
    BY <2>4 DEF Implied
  <2>7. VerdictsFollowTheGuards'
    BY <2>4 DEF VerdictInv, VerdictsFollowTheGuards
  <2>. QED BY <2>5, <2>6, <2>7 DEF VerdictInv
<1>2. CASE Conclude
  <2>. DEFINE o == Outcome(Lane, current, results)
  <2>1. o.lane = Lane /\ o.attack = current
    BY DEF Outcome
  <2>2. ASSUME Sound, Lane \in Judges, current \notin Flaky
        PROVE  o.classification = IF HasGuard(target, current) \/ HasCheck(target, current)
                                      THEN "no_failure_observed" ELSE current
    <3>1. results \in Seq(Sightings) /\ Len(results) = Wanted /\ Wanted \in Nat \ {0}
      BY <1>2, LanesAssumption DEF Conclude, Wanted, LanesInv, ResultsInv
    <3>2. results[Len(results)].kind = Implied(current)
      BY <1>2, <2>2, <3>1 DEF VerdictInv, Conclude
    <3>3. o.classification = LastClass(current, results)
      BY <2>2 DEF Outcome, Judges
    <3>. QED BY <3>2, <3>3 DEF LastClass, Classification, Implied
  <2>3. outcomes' = outcomes \cup {o} /\ target' = target /\ pc' = "attack"
    BY <1>2 DEF Conclude
  <2>. HIDE DEF o
  <2>4. VerdictsFollowTheGuards'
    BY <2>1, <2>2, <2>3 DEF VerdictInv, VerdictsFollowTheGuards, Sound, Judges
  <2>. QED BY <2>3, <2>4 DEF VerdictInv
<1>3. CASE NextRun
  BY <1>3 DEF NextRun, Copy, VerdictInv, VerdictsFollowTheGuards
<1>4. CASE StartAgent
  BY <1>4 DEF StartAgent, VerdictInv, VerdictsFollowTheGuards
<1>5. CASE AllAgentsDone
  BY <1>5 DEF AllAgentsDone, VerdictInv, VerdictsFollowTheGuards
<1>6. CASE PickCase
  <2>1. results' = <<>>
    BY <1>6 DEF PickCase, LanesInv, ResultsInv
  <2>. QED BY <1>6, <2>1 DEF PickCase, VerdictInv, VerdictsFollowTheGuards
<1>7. CASE SnippetNotFound
  BY <1>7 DEF SnippetNotFound, VerdictInv, VerdictsFollowTheGuards, Outcome
<1>8. CASE DeleteGuard
  BY <1>8 DEF DeleteGuard, VerdictInv, VerdictsFollowTheGuards, Lane, Judges
<1>9. CASE PatchClass
  BY <1>9 DEF PatchClass, VerdictInv, VerdictsFollowTheGuards
<1>10. CASE ChaosAttack
  <2>1. Lane = "chaos"
    BY <1>10 DEF ChaosAttack, LanesInv, PatchInv
  <2>. QED BY <1>10, <2>1 DEF ChaosAttack, VerdictInv, VerdictsFollowTheGuards, Outcome
<1>11. CASE AgentDone
  BY <1>11 DEF AgentDone, VerdictInv, VerdictsFollowTheGuards
<1>12. CASE TargetRaises
  BY <1>12 DEF TargetRaises, VerdictInv, VerdictsFollowTheGuards
<1>13. CASE ChaosCannotStart
  BY <1>13 DEF ChaosCannotStart, VerdictInv, VerdictsFollowTheGuards
<1>14. CASE UNCHANGED vars
  BY <1>14 DEF vars, VerdictInv, VerdictsFollowTheGuards, Sound, Lane, Implied
<1>. QED BY <1>1, <1>2, <1>3, <1>4, <1>5, <1>6, <1>7, <1>8, <1>9, <1>10, <1>11, <1>12, <1>13, <1>14 DEF Next

(***************************************************************************)
(* If the target loads and reacts the same way each time, the three lanes   *)
(* that run the edge-case catalog return, whatever ran before them, the     *)
(* verdict its guards imply, and therefore agree.                           *)
(***************************************************************************)
THEOREM VerdictsAgree == Spec => []VerdictsFollowTheGuards
<1>1. Init => VerdictInv
  BY DEF Init, VerdictInv, VerdictsFollowTheGuards
<1>2. VerdictInv => VerdictsFollowTheGuards
  BY DEF VerdictInv
<1>. QED BY <1>1, <1>2, LanesInit, LanesNext, VerdictNext, PTL DEF Spec

\* The three branches of _reproduce: one rejection among the repetitions and
\* the failure is not called reproducible.
LEMMA EveryRepetition ==
  ASSUME NEW S, NEW rs \in Seq(S), Len(rs) > 0, NEW a, Reproduced(a, rs)
  PROVE  "rejected" \notin Kinds(rs)
<1>. SUFFICES ASSUME "rejected" \in Kinds(rs) PROVE FALSE
  OBVIOUS
<1>1. "no_failure_observed" \in Classes(a, rs)
  BY DEF Classes, Classification
<1>2. LastClass(a, rs) \in Classes(a, rs)
  BY DEF LastClass, Classes, Kinds
<1>3. Classes(a, rs) = {"no_failure_observed"}
  BY <1>1 DEF Reproduced
<1>. QED BY <1>1, <1>2, <1>3 DEF Reproduced

(***************************************************************************)
(* A failure that the reproduction lane calls reproducible was never        *)
(* rejected, whatever the target did: _reproduce looks at every repetition. *)
(***************************************************************************)
THEOREM NeverRejected == Spec => []ReproducibleNeverRejected
<1>1. Init => ReproducibleNeverRejected
  BY DEF Init, ReproducibleNeverRejected
<1>2. LanesInv /\ ReproducibleNeverRejected /\ [Next]_vars => ReproducibleNeverRejected'
  <2>. SUFFICES ASSUME LanesInv, ReproducibleNeverRejected, [Next]_vars
                PROVE  ReproducibleNeverRejected'
    OBVIOUS
  <2>1. CASE Conclude
    <3>. DEFINE o == Outcome(Lane, current, results)
    <3>1. o.lane = Lane /\ o.results = results
      BY DEF Outcome
    <3>2. ASSUME Lane = "reproduction", o.reproducible PROVE "rejected" \notin Kinds(results)
      <4>1. results \in Seq(Sightings) /\ Len(results) \in Nat \ {0}
        BY <2>1, LanesAssumption DEF Conclude, Wanted, LanesInv, ResultsInv
      <4>2. Reproduced(current, results)
        BY <3>2 DEF Outcome
      <4>. HIDE DEF o
      <4>. QED BY <4>1, <4>2, EveryRepetition
    <3>3. outcomes' = outcomes \cup {o}
      BY <2>1 DEF Conclude
    <3>. HIDE DEF o
    <3>. QED BY <3>1, <3>2, <3>3 DEF ReproducibleNeverRejected
  <2>2. CASE SnippetNotFound
    BY <2>2 DEF SnippetNotFound, ReproducibleNeverRejected, Outcome
  <2>3. CASE ChaosAttack
    <3>1. Lane = "chaos"
      BY <2>3 DEF ChaosAttack, LanesInv, PatchInv
    <3>. QED BY <2>3, <3>1 DEF ChaosAttack, ReproducibleNeverRejected, Outcome
  <2>4. CASE outcomes' \in {outcomes, {}}
    BY <2>4 DEF ReproducibleNeverRejected
  <2>. QED BY <2>1, <2>2, <2>3, <2>4 DEF Next, vars, NextRun, Copy, StartAgent, AllAgentsDone, PickCase,
       DeleteGuard, RunAttack, PatchClass, AgentDone, TargetRaises, ChaosCannotStart
<1>. QED BY <1>1, <1>2, LanesInit, LanesNext, PTL DEF Spec

-----------------------------------------------------------------------------
(* Types.                                                                   *)

\* A lane that is at work is still on the list of agents.
TypeInv == TypeOK /\ (Running => agents # <<>>)

\* A function on 1..n is a sequence.
LEMMA SeqOfFunction ==
  ASSUME NEW S, NEW n \in Nat, NEW f \in [1..n -> S]
  PROVE  f \in Seq(S)
OBVIOUS

\* A list of agents is a sequence of lanes.
LEMMA AgentListsType ==
  ASSUME NEW as \in AgentLists
  PROVE  as \in Seq(Lanes)
<1>1. PICK n \in 1..MaxAgents : as \in [1..n -> Lanes]
  BY DEF AgentLists
<1>2. n \in Nat
  BY LanesAssumption
<1>. QED BY <1>1, <1>2, SeqOfFunction

\* Whatever lines are deleted, what remains of a line is a line, and a check
\* that is not deleted stays where it is.
LEMMA RemainingLine ==
  ASSUME NEW t \in Text, NEW lost, NEW j \in 1..Len(t)
  PROVE  /\ Remaining(t, lost, j) \in Line
         /\ Remaining(t, lost, j).kind = IF j \in lost THEN "gone" ELSE t[j].kind
         /\ Remaining(t, lost, j).attack = t[j].attack
<1>. DEFINE l == t[j]
<1>1. l \in Line
  BY DEF Text
<1>2. Remaining(t, lost, j) = IF j \in lost THEN [l EXCEPT !.kind = "gone", !.shifted = FALSE]
                              ELSE [l EXCEPT !.shifted = (l.shifted \/ j - 1 \in lost)]
  BY DEF Remaining
<1>. HIDE DEF l
<1>3. CASE j \in lost
  BY <1>1, <1>2, <1>3 DEF Line, l
<1>4. CASE j \notin lost
  <2>1. (l.shifted \/ j - 1 \in lost) \in BOOLEAN
    OBVIOUS
  <2>. QED BY <1>1, <1>2, <1>4, <2>1 DEF Line, l
<1>. QED BY <1>3, <1>4

\* Deleting a guard leaves a text without that guard and with all its checks.
LEMMA WeakenText ==
  ASSUME NEW t \in Text, NEW a
  PROVE  /\ Weaken(t, a) \in Text
         /\ ~HasGuard(Weaken(t, a), a)
         /\ HasCheck(Weaken(t, a), a) <=> HasCheck(t, a)
<1>. DEFINE lost == {i \in 1..Len(t) : IsGuard(t[i], a)}
            w == Weaken(t, a)
<1>1. Len(t) \in Nat
  BY DEF Text
<1>2. w = [j \in 1..Len(t) |-> Remaining(t, lost, j)]
  BY DEF Weaken
<1>3. \A j \in 1..Len(t) : w[j] = Remaining(t, lost, j)
  BY <1>2
<1>4. \A j \in 1..Len(t) : j \in lost <=> IsGuard(t[j], a)
  OBVIOUS
<1>. HIDE DEF w, lost
<1>5. ASSUME NEW j \in 1..Len(t)
      PROVE  /\ w[j] \in Line
             /\ w[j].kind = IF j \in lost THEN "gone" ELSE t[j].kind
             /\ w[j].attack = t[j].attack
  BY <1>3, RemainingLine
<1>6. w \in [1..Len(t) -> Line]
  BY <1>2, <1>5
<1>7. w \in Text /\ Len(w) = Len(t)
  BY <1>1, <1>6 DEF Text
<1>8. ~HasGuard(w, a)
  BY <1>4, <1>5, <1>7 DEF HasGuard, IsGuard
<1>9. HasCheck(w, a) <=> HasCheck(t, a)
  BY <1>4, <1>5, <1>7 DEF HasCheck, IsGuard
<1>. QED BY <1>7, <1>8, <1>9 DEF w

\* Loading adds the file under its own name and nothing else.
LEMMA LoadTypes ==
  ASSUME TypeOK, CacheKeyed, Load
  PROVE  /\ \A n \in DOMAIN modules' : modules'[n].text \in Text
         /\ patched \subseteq DOMAIN modules'
         /\ Name(file) \in DOMAIN modules'
<1>1. Module.text \in Text
  BY FreshModule DEF TypeOK
<1>. QED BY <1>1 DEF TypeOK, Load

\* Every step keeps the types.
LEMMA LanesTypeNext == LanesInv /\ TypeInv /\ [Next]_vars => TypeInv'
<1>. SUFFICES ASSUME LanesInv, TypeInv, [Next]_vars PROVE TypeInv'
  OBVIOUS
<1>0. TypeOK /\ (Running => agents # <<>> /\ Lane \in Lanes /\ Tail(agents) \in Seq(Lanes))
  BY DEF TypeInv, TypeOK, Lane
<1>1. CASE NextRun
  <2>1. PICK t \in Targets, as \in AgentLists : Copy(t, as)
    BY <1>1 DEF NextRun
  <2>2. <<>> \in Text /\ <<>> \in Seq(Result) /\ t \in Text
    BY LanesAssumption DEF Text
  <2>3. as \in Seq(Lanes)
    BY AgentListsType
  <2>4. target' \in Text /\ file' \in Text /\ agents' \in Seq(Lanes) /\ outcomes' = {}
    BY <2>1, <2>2, <2>3 DEF Copy
  <2>. QED BY <1>0, <1>1, <2>2, <2>4 DEF NextRun, TypeInv, TypeOK, Running
<1>2. CASE StartAgent
  BY <1>0, <1>2, LanesAssumption DEF StartAgent, TypeInv, TypeOK
<1>3. CASE AllAgentsDone
  BY <1>0, <1>3 DEF AllAgentsDone, TypeInv, TypeOK, Running
<1>4. CASE PickCase
  BY <1>0, <1>4 DEF PickCase, TypeInv, TypeOK, Running
<1>5. CASE SnippetNotFound
  <2>1. PICK a \in todo : /\ outcomes' = outcomes \cup {Outcome(Lane, a, <<>>)}
                          /\ todo' = todo \ {a}
    BY <1>5 DEF SnippetNotFound
  <2>2. Outcome(Lane, a, <<>>).lane = Lane /\ Outcome(Lane, a, <<>>).results = <<>>
    BY DEF Outcome
  <2>3. <<>> \in Seq(Result) /\ Lane \in Lanes
    BY <1>0, <1>5 DEF SnippetNotFound, Running
  <2>4. \A o \in outcomes' : o.lane \in Lanes /\ o.results \in Seq(Result)
    BY <1>0, <2>1, <2>2, <2>3 DEF TypeOK
  <2>. QED BY <1>0, <1>5, <2>1, <2>4 DEF SnippetNotFound, TypeInv, TypeOK, Running
<1>6. CASE DeleteGuard
  <2>1. PICK a \in todo : /\ HasGuard(original, a) /\ file' = Weaken(original, a)
                          /\ current' = a /\ todo' = todo \ {a}
    BY <1>6 DEF DeleteGuard
  <2>2. file' \in Text
    BY <1>0, <2>1, WeakenText DEF TypeOK
  <2>3. patched = {}
    BY <1>6 DEF DeleteGuard, LanesInv, PatchInv
  <2>. QED BY <1>0, <1>6, <2>1, <2>2, <2>3 DEF DeleteGuard, TypeInv, TypeOK, Running
<1>7. CASE RunAttack
  <2>1. PICK k \in AttackResults(current) :
          results' = Append(results, [kind |-> k, text |-> Module.text, patched |-> Name(file) \in patched])
    BY <1>7 DEF RunAttack
  <2>. DEFINE r == [kind |-> k, text |-> Module.text, patched |-> Name(file) \in patched]
  <2>2. r \in Result
    <3>1. k \in {"rejected", "slipped", "crashed", "unloadable", "classless"}
      BY DEF AttackResults, Reactions
    <3>2. Module.text \in Text
      BY <1>0, FreshModule DEF LanesInv, TypeOK
    <3>3. (Name(file) \in patched) \in BOOLEAN
      OBVIOUS
    <3>. QED BY <3>1, <3>2, <3>3 DEF Result
  <2>3. results' \in Seq(Result)
    <3>. HIDE DEF r
    <3>1. results' = Append(results, r)
      BY <2>1 DEF r
    <3>. QED BY <1>0, <2>2, <3>1 DEF TypeOK
  <2>4. /\ \A n \in DOMAIN modules' : modules'[n].text \in Text
        /\ patched \subseteq DOMAIN modules'
    BY <1>0, <1>7, LoadTypes DEF RunAttack, LanesInv
  <2>. QED BY <1>0, <1>7, <2>3, <2>4 DEF RunAttack, TypeInv, TypeOK, Running
<1>8. CASE Conclude
  <2>. DEFINE o == Outcome(Lane, current, results)
  <2>1. o.lane = Lane /\ o.results = results
    BY DEF Outcome
  <2>2. outcomes' = outcomes \cup {o} /\ Lane \in Lanes
    BY <1>0, <1>8 DEF Conclude, Running
  <2>. HIDE DEF o
  <2>3. \A q \in outcomes' : q.lane \in Lanes /\ q.results \in Seq(Result)
    BY <1>0, <2>1, <2>2 DEF TypeOK
  <2>4. patched = {}
    BY <1>8 DEF Conclude, LanesInv, PatchInv
  <2>5. <<>> \in Seq(Result)
    OBVIOUS
  <2>. QED BY <1>0, <1>8, <2>3, <2>4, <2>5 DEF Conclude, TypeInv, TypeOK, Running
<1>9. CASE PatchClass
  <2>1. /\ \A n \in DOMAIN modules' : modules'[n].text \in Text
        /\ Name(file) \in DOMAIN modules'
    BY <1>0, <1>9, LoadTypes DEF PatchClass, LanesInv
  <2>. QED BY <1>0, <1>9, <2>1 DEF PatchClass, TypeInv, TypeOK, Running
<1>10. CASE ChaosAttack
  <2>1. PICK k \in {"rejected", "slipped"} :
          outcomes' = outcomes \cup
            {Outcome(Lane, current, <<[kind |-> k, text |-> Module.text, patched |-> TRUE]>>)}
    BY <1>10 DEF ChaosAttack
  <2>. DEFINE r == [kind |-> k, text |-> Module.text, patched |-> TRUE]
              o == Outcome(Lane, current, <<r>>)
  <2>2. o.lane = Lane /\ o.results = <<r>> /\ Lane \in Lanes
    BY <1>0, <1>10 DEF Outcome, ChaosAttack, Running
  <2>3. r \in Result
    BY <1>0, FreshModule DEF LanesInv, TypeOK, Result
  <2>4. outcomes' = outcomes \cup {o}
    BY <2>1
  <2>. HIDE DEF o, r
  <2>5. \A q \in outcomes' : q.lane \in Lanes /\ q.results \in Seq(Result)
    <3>1. <<r>> \in Seq(Result)
      BY <2>3
    <3>. QED BY <1>0, <2>2, <2>4, <3>1 DEF TypeOK
  <2>. QED BY <1>0, <1>10, <2>5 DEF ChaosAttack, TypeInv, TypeOK, Running
<1>11. CASE AgentDone
  BY <1>0, <1>11 DEF AgentDone, TypeInv, TypeOK, Running
<1>12. CASE TargetRaises
  <2>1. \A n \in DOMAIN modules' : modules'[n].text \in Text
    BY <1>0, <1>12, LoadTypes DEF TargetRaises, LanesInv, TypeOK
  <2>. QED BY <1>0, <1>12, <2>1 DEF TargetRaises, Unwind, TypeInv, TypeOK, Running
<1>13. CASE ChaosCannotStart
  <2>1. /\ \A n \in DOMAIN modules' : modules'[n].text \in Text
        /\ patched \subseteq DOMAIN modules'
    BY <1>0, <1>13, LoadTypes DEF ChaosCannotStart, LanesInv
  <2>. QED BY <1>0, <1>13, <2>1 DEF ChaosCannotStart, TypeInv, TypeOK, Running
<1>14. CASE UNCHANGED vars
  BY <1>0, <1>14 DEF vars, TypeInv, TypeOK, Running
<1>. QED BY <1>1, <1>2, <1>3, <1>4, <1>5, <1>6, <1>7, <1>8, <1>9, <1>10, <1>11, <1>12, <1>13, <1>14 DEF Next

\* A run begins with a list of lanes and a target.
LEMMA LanesTypeInit == Init => TypeInv
<1>. SUFFICES ASSUME Init PROVE TypeInv
  OBVIOUS
<1>1. agents \in Seq(Lanes)
  BY AgentListsType DEF Init
<1>2. <<>> \in Text /\ <<>> \in Seq(Result) /\ Targets \subseteq Text
  BY LanesAssumption DEF Text
<1>. QED BY <1>1, <1>2 DEF Init, TypeInv, TypeOK, Running

(***************************************************************************)
(* Every reachable state is well typed: what is patched is always a module  *)
(* that is loaded, and deleting a guard always leaves a registry.py.        *)
(***************************************************************************)
THEOREM LanesTypes == Spec => []TypeOK
<1>1. TypeInv => TypeOK
  BY DEF TypeInv
<1>. QED BY <1>1, LanesInit, LanesNext, LanesTypeInit, LanesTypeNext, PTL DEF Spec

-----------------------------------------------------------------------------
(* The verdicts of the mutation lane.                                       *)

Weak(a) == Executed(Weaken(target, a))
WeakLoads(a) == Weak(a).complete /\ Weak(a).class
Survivor(a) == IF HasCheck(target, a) THEN "rejected" ELSE "slipped"

\* The attack on the weakened registry went the way the remaining checks imply.
MutationInv ==
  /\ MutationFollowsTheGuards
  /\ pc = "run" /\ Lane = "mutation" /\ WeakLoads(current) /\ current \notin Flaky
       => \A i \in 1..Len(results) : results[i].kind = Survivor(current)

\* The attack meets the weakened registry, which has lost every copy of the
\* guard and nothing else.
LEMMA SurvivorResult ==
  ASSUME LanesInv, target \in Text, pc = "run", Lane = "mutation",
         WeakLoads(current), current \notin Flaky, NEW k \in AttackResults(current)
  PROVE  k = Survivor(current)
<1>1. file = Weaken(target, current)
  BY DEF LanesInv, FileInv
<1>2. Module = Weak(current) /\ Module.text = Weaken(target, current)
  BY <1>1, FreshModule DEF LanesInv, Weak
<1>3. ~LoadFails /\ Module.class /\ Module.complete
  BY <1>2 DEF LoadFails, WeakLoads
<1>4. Name(file) \notin patched
  BY DEF LanesInv, PatchInv
<1>5. k = IF HasGuard(Module.text, current) \/ HasCheck(Module.text, current) THEN "rejected" ELSE "slipped"
  BY <1>3, <1>4 DEF AttackResults, Reactions
<1>6. ~HasGuard(Module.text, current) /\ (HasCheck(Module.text, current) <=> HasCheck(target, current))
  BY <1>2, WeakenText
<1>. QED BY <1>5, <1>6 DEF Survivor

\* Every step keeps the mutation verdicts in line with the remaining checks.
LEMMA MutationNext == LanesInv /\ TypeInv /\ MutationInv /\ [Next]_vars => MutationInv'
<1>. SUFFICES ASSUME LanesInv, TypeInv, MutationInv, [Next]_vars PROVE MutationInv'
  OBVIOUS
<1>0. target \in Text
  BY DEF TypeInv, TypeOK
<1>1. CASE RunAttack
  <2>1. PICK k \in AttackResults(current) :
          results' = Append(results, [kind |-> k, text |-> Module.text, patched |-> Name(file) \in patched])
    BY <1>1 DEF RunAttack
  <2>2. results \in Seq(Sightings) /\ pc = "run"
    BY <1>1 DEF RunAttack, LanesInv, ResultsInv
  <2>3. /\ Len(results') = Len(results) + 1
        /\ \A i \in 1..Len(results) : results'[i] = results[i]
        /\ results'[Len(results) + 1].kind = k
    BY <2>1, <2>2
  <2>4. UNCHANGED <<target, agents, current, outcomes, pc>>
    BY <1>1 DEF RunAttack
  <2>5. Lane' = Lane /\ WeakLoads(current)' = WeakLoads(current) /\ Survivor(current)' = Survivor(current)
    BY <2>4 DEF Lane, WeakLoads, Weak, Survivor
  <2>6. ASSUME Lane = "mutation", WeakLoads(current), current \notin Flaky, NEW i \in 1..Len(results')
        PROVE  results'[i].kind = Survivor(current)
    <3>1. k = Survivor(current)
      BY <1>0, <2>2, <2>6, SurvivorResult
    <3>2. CASE i = Len(results) + 1
      BY <2>3, <3>1, <3>2
    <3>3. CASE i # Len(results) + 1
      <4>1. i \in 1..Len(results)
        BY <2>2, <2>3, <3>3
      <4>. QED BY <2>2, <2>3, <2>6, <4>1 DEF MutationInv
    <3>. QED BY <3>2, <3>3
  <2>7. MutationFollowsTheGuards'
    BY <2>4 DEF MutationInv, MutationFollowsTheGuards
  <2>. QED BY <2>4, <2>5, <2>6, <2>7 DEF MutationInv
<1>2. CASE Conclude
  <2>. DEFINE o == Outcome(Lane, current, results)
  <2>1. o.lane = Lane /\ o.attack = current
    BY DEF Outcome
  <2>2. ASSUME Lane = "mutation", WeakLoads(current), current \notin Flaky
        PROVE  o.classification = IF HasCheck(target, current) THEN "no_failure_observed" ELSE "state_failure"
    <3>1. results \in Seq(Sightings) /\ Len(results) = 1 /\ results # <<>>
      BY <1>2, <2>2 DEF Conclude, Wanted, LanesInv, ResultsInv
    <3>2. results[Len(results)].kind = Survivor(current)
      BY <1>2, <2>2, <3>1 DEF MutationInv, Conclude
    <3>3. o.classification = IF LastClass(current, results) # "no_failure_observed"
                               THEN "state_failure" ELSE LastClass(current, results)
      BY <2>2, <3>1 DEF Outcome
    <3>4. CASE HasCheck(target, current)
      BY <3>2, <3>3, <3>4 DEF LastClass, Classification, Survivor
    <3>5. CASE ~HasCheck(target, current)
      <4>1. LastClass(current, results) = current
        BY <3>2, <3>5 DEF LastClass, Classification, Survivor
      <4>2. current # "no_failure_observed"
        BY LanesAssumption DEF TypeInv, TypeOK
      <4>. QED BY <3>3, <3>5, <4>1, <4>2
    <3>. QED BY <3>4, <3>5
  <2>3. outcomes' = outcomes \cup {o} /\ target' = target /\ pc' = "attack"
    BY <1>2 DEF Conclude
  <2>. HIDE DEF o
  <2>4. MutationFollowsTheGuards'
    BY <2>1, <2>2, <2>3 DEF MutationInv, MutationFollowsTheGuards, WeakLoads, Weak
  <2>. QED BY <2>3, <2>4 DEF MutationInv
<1>3. CASE NextRun
  BY <1>3 DEF NextRun, Copy, MutationInv, MutationFollowsTheGuards
<1>4. CASE StartAgent
  BY <1>4 DEF StartAgent, MutationInv, MutationFollowsTheGuards
<1>5. CASE AllAgentsDone
  BY <1>5 DEF AllAgentsDone, MutationInv, MutationFollowsTheGuards
<1>6. CASE PickCase
  BY <1>6 DEF PickCase, MutationInv, MutationFollowsTheGuards, Lane
<1>7. CASE SnippetNotFound
  <2>1. PICK a \in todo : /\ ~HasGuard(original, a)
                          /\ outcomes' = outcomes \cup {Outcome(Lane, a, <<>>)}
    BY <1>7 DEF SnippetNotFound
  <2>2. original = target
    BY <1>7 DEF SnippetNotFound, LanesInv, FileInv, Running
  <2>3. Outcome(Lane, a, <<>>).attack = a
    BY DEF Outcome
  <2>4. MutationFollowsTheGuards'
    BY <1>7, <2>1, <2>2, <2>3 DEF SnippetNotFound, MutationInv, MutationFollowsTheGuards
  <2>. QED BY <1>7, <2>4 DEF SnippetNotFound, MutationInv
<1>8. CASE DeleteGuard
  <2>1. results' = <<>>
    BY <1>8 DEF DeleteGuard, LanesInv, ResultsInv
  <2>. QED BY <1>8, <2>1 DEF DeleteGuard, MutationInv, MutationFollowsTheGuards
<1>9. CASE PatchClass
  BY <1>9 DEF PatchClass, MutationInv, MutationFollowsTheGuards
<1>10. CASE ChaosAttack
  <2>1. Lane = "chaos"
    BY <1>10 DEF ChaosAttack, LanesInv, PatchInv
  <2>. QED BY <1>10, <2>1 DEF ChaosAttack, MutationInv, MutationFollowsTheGuards, Outcome
<1>11. CASE AgentDone
  BY <1>11 DEF AgentDone, MutationInv, MutationFollowsTheGuards
<1>12. CASE TargetRaises
  BY <1>12 DEF TargetRaises, MutationInv, MutationFollowsTheGuards
<1>13. CASE ChaosCannotStart
  BY <1>13 DEF ChaosCannotStart, MutationInv, MutationFollowsTheGuards
<1>14. CASE UNCHANGED vars
  BY <1>14 DEF vars, MutationInv, MutationFollowsTheGuards, WeakLoads, Weak, Lane, Survivor
<1>. QED BY <1>1, <1>2, <1>3, <1>4, <1>5, <1>6, <1>7, <1>8, <1>9, <1>10, <1>11, <1>12, <1>13, <1>14 DEF Next

(***************************************************************************)
(* As long as the registry still loads without a guard, the mutation lane's *)
(* verdict says whether anything else in the target checks for the attack,  *)
(* whatever ran before it and however often the guard occurs.               *)
(***************************************************************************)
THEOREM MutationVerdicts == Spec => []MutationFollowsTheGuards
<1>1. Init => MutationInv
  BY DEF Init, MutationInv, MutationFollowsTheGuards
<1>2. MutationInv => MutationFollowsTheGuards
  BY DEF MutationInv
<1>. QED BY <1>1, <1>2, LanesInit, LanesNext, LanesTypeInit, LanesTypeNext, MutationNext, PTL DEF Spec
=============================================================================
