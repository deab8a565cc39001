---------------------------- MODULE ReplayProofs ----------------------------
(***************************************************************************)
(* What holds of Replay for every number of processes, receipts, versions   *)
(* and replays: the verdict on record is about the source on record, and    *)
(* the exit status, exit_code.txt and the record of a replay agree.         *)
(***************************************************************************)
EXTENDS Replay, TLAPS

\* What the receipt says the attack did.
Expected(x) == Observation(x[2], SealedOn(x))

\* How far a replay that is alone with its receipt has got.
Alone(p) ==
  LET x == Mine(p) IN
  /\ proc[p].pc \in {"attack", "hash_after", "compare", "refuse", "write_completed", "write_failed"} =>
       record[x].status = "running"
  /\ At(p, "refuse") => exitCode[x] = 5

\* What such a replay has observed, it has observed on the version it hashed
\* first, or else the source no longer is that version.
Honest(p) ==
  LET x == Mine(p)  h == proc[p].before IN
  /\ proc[p].pc \in {"write_running", "attack"} => workspace[x] = h \/ source # h
  /\ At(p, "hash_after") => proc[p].outcome = Observation(x[2], h) \/ source # h
  /\ At(p, "compare") => proc[p].outcome = Observation(x[2], h) \/ proc[p].after # h
  /\ At(p, "write_completed") => Observation(x[2], h) = Expected(x)
  /\ At(p, "write_failed") => Observation(x[2], h) # Expected(x)

\* Receipts of which nothing is promised.
Excused == contested \cup undone

Progress(p) ==
  ~At(p, "idle") =>
    /\ OnRecord(Mine(p))
    /\ ~At(p, "load") => proc[p].original = Expected(Mine(p))
    /\ Mine(p) \notin contested => Alone(p)
    /\ Mine(p) \notin Excused => Honest(p)

\* Two processes with one receipt have contested it.
OneReplay ==
  \A p, q \in Procs : p # q /\ ~At(p, "idle") /\ ~At(q, "idle") /\ Mine(p) = Mine(q) =>
    Mine(p) \in contested

\* The verdict on record for one receipt.
Verdict(x) ==
  /\ record[x].status = "completed" =>
       OnRecord(x) /\ Observation(x[2], record[x].before) = Expected(x)
  /\ record[x].status = "failed" /\ exitCode[x] = 2 =>
       OnRecord(x) /\ Observation(x[2], record[x].before) # Expected(x)

ReplayInv ==
  /\ OneReplay
  /\ \A p \in Procs : Progress(p)
  /\ \A x \in Receipts \ Excused : Verdict(x)

-----------------------------------------------------------------------------
(* Types.                                                                   *)

\* The sentinels are not versions, and results and versions are typed.
LEMMA ConstantTypes ==
  /\ Gone \notin Versions /\ Versions \subseteq Int /\ 0 \in Versions
  /\ NoReceipt \notin Receipts
  /\ \A c \in Cases, v \in Versions \cup {Gone} : Observation(c, v) \in Observations
BY ReplayAssumption DEF Versions, Gone, Observation, Observations

\* A step of p gives p its new state and leaves every other process alone.
LEMMA BecomeOnly ==
  ASSUME TypeOK, NEW p \in Procs, NEW P, Become(p, P)
  PROVE  proc'[p] = P /\ \A q \in Procs : q # p => proc'[q] = proc[q]
BY DEF TypeOK, Become

\* The part of the type invariant that is about processes.
ProcsTypeOK ==
  /\ proc \in [Procs -> Process]
  /\ \A p \in Procs : proc[p].pc # "idle" => proc[p].receipt \in Receipts

\* A process whose new state is well typed keeps all of them well typed.
LEMMA BecomeType ==
  ASSUME TypeOK, NEW p \in Procs, NEW P \in Process, Become(p, P),
         P.pc # "idle" => P.receipt \in Receipts
  PROVE  ProcsTypeOK'
<1>1. proc' \in [Procs -> Process] /\ proc'[p] = P /\ \A q \in Procs : q # p => proc'[q] = proc[q]
  BY DEF TypeOK, Become
<1>. QED BY <1>1 DEF TypeOK, ProcsTypeOK

\* Leaving the command with a status only changes the control point.
LEMMA ExitIdle ==
  ASSUME TypeOK, NEW p \in Procs, NEW code \in {0, 1, 2, 5}, Exit(p, code)
  PROVE  /\ ProcsTypeOK'
         /\ proc'[p].pc = "idle" /\ proc'[p].receipt = proc[p].receipt
         /\ \A q \in Procs : q # p => proc'[q] = proc[q]
<1>. DEFINE P == [Idle EXCEPT !.receipt = Mine(p), !.replay = proc[p].replay, !.exit = code]
<1>1. P \in Process /\ P.pc = "idle" /\ P.receipt = proc[p].receipt
  BY ConstantTypes DEF TypeOK, Process, Idle, Mine, Observations
<1>2. Become(p, P)
  BY DEF Exit
<1>. HIDE DEF P
<1>3. ProcsTypeOK'
  BY <1>1, <1>2, BecomeType
<1>4. proc'[p] = P /\ \A q \in Procs : q # p => proc'[q] = proc[q]
  BY <1>2, BecomeOnly
<1>. QED BY <1>1, <1>3, <1>4

\* The directory before the first replay is well typed.
LEMMA TypeInit == Init => TypeOK
<1>. SUFFICES ASSUME Init PROVE TypeOK
  OBVIOUS
<1>1. evidence \in [RunIds -> Holdings]
  <2>1. [c \in {} |-> Gone] \in [{} -> Versions]
    OBVIOUS
  <2>2. [c \in {} |-> Gone] \in Holdings
    BY <2>1 DEF Holdings
  <2>. QED BY <2>2 DEF Init, Sandbox!LedgerInit
<1>2. proc \in [Procs -> Process] /\ \A p \in Procs : proc[p].pc = "idle"
  BY ConstantTypes DEF Init, Idle, Process, Observations
<1>3. record \in [Receipts -> Record]
  BY ConstantTypes DEF Init, NoRecord, Record
<1>. QED BY <1>1, <1>2, <1>3, ConstantTypes DEF Init, TypeOK

\* A case that is added to a run keeps its holdings well typed.
LEMMA AddType ==
  ASSUME NEW h \in Holdings, NEW c \in Cases, NEW t \in Versions
  PROVE  [d \in DOMAIN h \cup {c} |-> IF d = c THEN t ELSE h[d]] \in Holdings
<1>1. PICK D \in SUBSET Cases : h \in [D -> Versions]
  BY DEF Holdings
<1>2. DOMAIN h = D /\ D \cup {c} \in SUBSET Cases
  BY <1>1
<1>3. [d \in D \cup {c} |-> IF d = c THEN t ELSE h[d]] \in [D \cup {c} -> Versions]
  BY <1>1
<1>. QED BY <1>2, <1>3 DEF Holdings

\* The sandbox runs only ever add evidence.
LEMMA EvidenceGrows ==
  ASSUME TypeOK, SandboxStep
  PROVE  /\ evidence' \in [RunIds -> Holdings]
         /\ \A x \in Receipts : OnRecord(x) => OnRecord(x)' /\ SealedOn(x)' = SealedOn(x)
<1>1. CASE UNCHANGED evidence
  BY <1>1 DEF TypeOK, OnRecord, SealedOn
<1>2. ASSUME NEW r \in RunIds, NEW c \in Cases, Sandbox!AddEvidence(r, c)
      PROVE  /\ evidence' \in [RunIds -> Holdings]
             /\ \A x \in Receipts : OnRecord(x) => OnRecord(x)' /\ SealedOn(x)' = SealedOn(x)
  <2>1. PICK t \in Versions :
          evidence' = [evidence EXCEPT ![r] =
                         [d \in DOMAIN evidence[r] \cup {c} |-> IF d = c THEN t ELSE evidence[r][d]]]
    BY <1>2 DEF Sandbox!AddEvidence
  <2>2. c \notin DOMAIN evidence[r]
    BY <1>2 DEF Sandbox!AddEvidence
  <2>3. evidence[r] \in Holdings
    BY DEF TypeOK
  <2>4. evidence' \in [RunIds -> Holdings]
    <3>1. [d \in DOMAIN evidence[r] \cup {c} |-> IF d = c THEN t ELSE evidence[r][d]] \in Holdings
      BY <2>3, AddType
    <3>. QED BY <2>1, <3>1 DEF TypeOK
  <2>5. ASSUME NEW x \in Receipts, OnRecord(x)
        PROVE  OnRecord(x)' /\ SealedOn(x)' = SealedOn(x)
    BY <2>1, <2>2, <2>5 DEF OnRecord, SealedOn, Receipts, TypeOK
  <2>. QED BY <2>4, <2>5
<1>. QED BY <1>1, <1>2 DEF SandboxStep, Sandbox!LedgerNext, Sandbox!Open, Sandbox!Publish, Sandbox!Refuse

\* The actions that only move the process on.
Moves(p) == Load(p) \/ HashBefore(p) \/ Attack(p) \/ HashAfter(p)

\* The actions that end with an exit status and touch at most the record.
Exits(p) ==
  LoadFails(p) \/ NotInCatalog(p) \/ CopyRefused(p) \/ Refuse(p) \/ WriteCompleted(p)
    \/ WriteFailed(p) \/ Die(p)

\* The actions that write something and go on.
Writes(p) ==
  ClearWorkspace(p) \/ Copy(p) \/ WriteRunning(p) \/ SourceMutated(p) \/ Reproduced(p) \/ Differs(p)

\* A step is one of the three kinds.
LEMMA StepKinds ==
  ASSUME NEW p \in Procs, Step(p) \/ Die(p)
  PROVE  Moves(p) \/ Exits(p) \/ Writes(p)
BY DEF Step, Moves, Exits, Writes

\* A process that makes a step is under way with a receipt.
LEMMA Underneath ==
  ASSUME TypeOK, NEW p \in Procs, Step(p) \/ Die(p)
  PROVE  ~At(p, "idle") /\ Mine(p) \in Receipts /\ proc[p] \in Process
<1>1. ~At(p, "idle")
  BY DEF Step, Die, At, LoadFails, NotInCatalog, Load, HashBefore, ClearWorkspace, Copy,
     CopyRefused, WriteRunning, Attack, HashAfter, SourceMutated, Reproduced, Differs,
     Refuse, WriteCompleted, WriteFailed
<1>. QED BY <1>1 DEF TypeOK, At, Mine

\* Moving keeps the process well typed: what it reads is a version or an
\* observation.
LEMMA MovesType ==
  ASSUME TypeOK, NEW p \in Procs, Moves(p)
  PROVE  ProcsTypeOK' /\ UNCHANGED <<environment, disk>> /\ proc'[p].receipt = proc[p].receipt
         /\ \A q \in Procs : q # p => proc'[q] = proc[q]
<1>1. Step(p)
  BY DEF Moves, Step
<1>2. proc[p] \in Process /\ Mine(p) \in Receipts /\ Mine(p) = proc[p].receipt
  BY <1>1, Underneath DEF Mine
<1>. SUFFICES ASSUME NEW P \in Process, P.receipt = proc[p].receipt, Become(p, P)
              PROVE  ProcsTypeOK' /\ proc'[p].receipt = proc[p].receipt
                     /\ \A q \in Procs : q # p => proc'[q] = proc[q]
  <2>1. CASE Load(p)
    <3>. DEFINE P == [proc[p] EXCEPT !.pc = "hash_before",
                                     !.original = Observation(Mine(p)[2], SealedOn(Mine(p)))]
    <3>1. Observation(Mine(p)[2], SealedOn(Mine(p))) \in Observations
      BY DEF Observation, Observations
    <3>2. P \in Process /\ P.receipt = proc[p].receipt
      BY <1>2, <3>1 DEF Process
    <3>. QED BY <2>1, <3>2 DEF Load
  <2>2. CASE HashBefore(p)
    <3>. DEFINE P == [proc[p] EXCEPT !.pc = "clear", !.before = source]
    <3>1. P \in Process /\ P.receipt = proc[p].receipt
      BY <1>2 DEF Process, TypeOK
    <3>. QED BY <2>2, <3>1 DEF HashBefore
  <2>3. CASE Attack(p)
    <3>. DEFINE P == [proc[p] EXCEPT !.pc = "hash_after",
                                     !.outcome = Observation(Mine(p)[2], workspace[Mine(p)])]
    <3>1. Observation(Mine(p)[2], workspace[Mine(p)]) \in Observations
      BY DEF Observation, Observations
    <3>2. P \in Process /\ P.receipt = proc[p].receipt
      BY <1>2, <3>1 DEF Process
    <3>. QED BY <2>3, <3>2 DEF Attack
  <2>4. CASE HashAfter(p)
    <3>. DEFINE P == [proc[p] EXCEPT !.pc = "compare", !.after = source]
    <3>1. P \in Process /\ P.receipt = proc[p].receipt
      BY <1>2 DEF Process, TypeOK
    <3>. QED BY <2>4, <3>1 DEF HashAfter
  <2>. QED BY <2>1, <2>2, <2>3, <2>4 DEF Moves, Load, HashBefore, Attack, HashAfter
<1>3. ProcsTypeOK'
  BY <1>2, BecomeType
<1>4. proc'[p] = P /\ \A q \in Procs : q # p => proc'[q] = proc[q]
  BY BecomeOnly
<1>. QED BY <1>3, <1>4

\* Ending writes at most the record of the receipt.
LEMMA ExitsType ==
  ASSUME TypeOK, NEW p \in Procs, Exits(p)
  PROVE  /\ ProcsTypeOK' /\ proc'[p].receipt = proc[p].receipt /\ proc'[p].pc = "idle"
         /\ \A q \in Procs : q # p => proc'[q] = proc[q]
         /\ record' \in [Receipts -> Record]
         /\ \A x \in Receipts : x # Mine(p) => record'[x] = record[x]
         /\ UNCHANGED <<ledgerVars, source, edits, corrupt, replays, contested, undone, workspace, exitCode>>
         /\ deaths' \in Nat
<1>1. Step(p) \/ Die(p)
  BY DEF Exits, Step
<1>2. proc[p] \in Process /\ Mine(p) \in Receipts
  BY <1>1, Underneath
<1>3. \E code \in {0, 1, 2, 5} : Exit(p, code)
  BY DEF Exits, LoadFails, NotInCatalog, CopyRefused, Refuse, WriteCompleted, WriteFailed, Die
<1>4. UNCHANGED record \/ \E status \in {"completed", "failed"} : WriteRecord(p, status)
  BY DEF Exits, LoadFails, NotInCatalog, CopyRefused, Refuse, WriteCompleted, WriteFailed, Die, disk
<1>5. /\ record' \in [Receipts -> Record]
      /\ \A x \in Receipts : x # Mine(p) => record'[x] = record[x]
  <2>1. CASE UNCHANGED record
    BY <2>1 DEF TypeOK
  <2>2. ASSUME NEW status \in {"completed", "failed"}, WriteRecord(p, status)
        PROVE  /\ record' \in [Receipts -> Record]
               /\ \A x \in Receipts : x # Mine(p) => record'[x] = record[x]
    <3>1. [status |-> status, replay |-> proc[p].replay, before |-> proc[p].before] \in Record
      BY <1>2 DEF Process, Record
    <3>. QED BY <2>2, <3>1 DEF WriteRecord, TypeOK
  <2>. QED BY <1>4, <2>1, <2>2
<1>6. /\ UNCHANGED <<ledgerVars, source, edits, corrupt, replays, contested, undone, workspace, exitCode>>
      /\ deaths' \in Nat
  BY DEF TypeOK, Exits, LoadFails, NotInCatalog, CopyRefused, Refuse, WriteCompleted,
     WriteFailed, Die, environment, disk
<1>. QED BY <1>3, <1>5, <1>6, ExitIdle

\* Writing and going on changes nothing of the process but its control point.
LEMMA WritesType ==
  ASSUME TypeOK, NEW p \in Procs, Writes(p)
  PROVE  /\ ProcsTypeOK'
         /\ \E point \in {"copy", "write_running", "attack", "refuse", "write_completed", "write_failed"} :
              proc'[p] = [proc[p] EXCEPT !.pc = point]
         /\ proc'[p].receipt = proc[p].receipt
         /\ \A q \in Procs : q # p => proc'[q] = proc[q]
         /\ UNCHANGED environment
<1>1. Step(p)
  BY DEF Writes, Step
<1>2. proc[p] \in Process /\ Mine(p) \in Receipts /\ Mine(p) = proc[p].receipt
  BY <1>1, Underneath DEF Mine
<1>3. PICK point \in {"copy", "write_running", "attack", "refuse", "write_completed", "write_failed"} :
        Become(p, [proc[p] EXCEPT !.pc = point])
  BY DEF Writes, ClearWorkspace, Copy, WriteRunning, SourceMutated, Reproduced, Differs, WriteExit
<1>. DEFINE P == [proc[p] EXCEPT !.pc = point]
<1>4. P \in Process /\ P.receipt = proc[p].receipt
  BY <1>2 DEF Process
<1>5. proc'[p] = P /\ \A q \in Procs : q # p => proc'[q] = proc[q]
  <2>. HIDE DEF P
  <2>1. Become(p, P)
    BY <1>3 DEF P
  <2>. QED BY <2>1, BecomeOnly
<1>6. ProcsTypeOK'
  <2>. HIDE DEF P
  <2>1. Become(p, P)
    BY <1>3 DEF P
  <2>. QED BY <2>1, <1>2, <1>4, BecomeType
<1>7. UNCHANGED environment
  BY DEF Writes, ClearWorkspace, Copy, WriteRunning, SourceMutated, Reproduced, Differs, WriteExit,
     environment
<1>. QED BY <1>4, <1>5, <1>6, <1>7

\* A write touches one file of the receipt and leaves the types alone.
LEMMA WritesDisk ==
  ASSUME TypeOK, NEW p \in Procs, Writes(p)
  PROVE  /\ workspace' \in [Receipts -> Versions \cup {Gone}]
         /\ record' \in [Receipts -> Record]
         /\ exitCode' \in [Receipts -> {Unset, 0, 2, 5}]
         /\ \A x \in Receipts : x # Mine(p) =>
              workspace'[x] = workspace[x] /\ record'[x] = record[x] /\ exitCode'[x] = exitCode[x]
<1>1. Step(p)
  BY DEF Writes, Step
<1>2. proc[p] \in Process /\ Mine(p) \in Receipts
  BY <1>1, Underneath
<1>3. CASE ClearWorkspace(p) \/ Copy(p)
  BY <1>2, <1>3 DEF ClearWorkspace, Copy, TypeOK
<1>4. CASE WriteRunning(p)
  <2>1. [status |-> "running", replay |-> proc[p].replay, before |-> proc[p].before] \in Record
    BY <1>2 DEF Process, Record
  <2>. QED BY <1>2, <1>4, <2>1 DEF WriteRunning, WriteRecord, TypeOK
<1>5. CASE SourceMutated(p) \/ Reproduced(p) \/ Differs(p)
  BY <1>2, <1>5 DEF SourceMutated, Reproduced, Differs, WriteExit, TypeOK
<1>. QED BY <1>3, <1>4, <1>5 DEF Writes

\* A new invocation is well typed; it is idle again at once when the receipt
\* does not verify.
LEMMA StartState ==
  ASSUME TypeOK, NEW p \in Procs, NEW x \in Receipts, Start(p, x)
  PROVE  /\ ProcsTypeOK'
         /\ proc'[p].receipt = x /\ proc'[p].pc \in {"idle", "load"}
         /\ \A q \in Procs : q # p => proc'[q] = proc[q]
<1>. DEFINE begun == [Idle EXCEPT !.receipt = x, !.replay = replays + 1]
            refused == [begun EXCEPT !.exit = 2]
            loading == [begun EXCEPT !.pc = "load"]
            P == IF x \in corrupt THEN refused ELSE loading
<1>0. begun \in Process /\ begun.receipt = x /\ begun.pc = "idle"
  <2>1. replays + 1 \in Nat
    BY DEF TypeOK
  <2>2. Idle \in Process /\ Idle.pc = "idle"
    BY ConstantTypes DEF Idle, Process, Observations
  <2>. QED BY <2>1, <2>2 DEF Process
<1>3. Become(p, P)
  BY DEF Start
<1>. HIDE DEF begun
<1>1. refused \in Process /\ refused.receipt = x /\ refused.pc = "idle"
  BY <1>0 DEF Process
<1>2. loading \in Process /\ loading.receipt = x /\ loading.pc = "load"
  BY <1>0 DEF Process
<1>. HIDE DEF refused, loading
<1>4. P \in Process /\ P.receipt = x /\ P.pc \in {"idle", "load"}
  BY <1>1, <1>2
<1>. HIDE DEF P
<1>. QED BY <1>3, <1>4, BecomeType, BecomeOnly

\* Every step keeps the types.
LEMMA TypeNext == TypeOK /\ [Next]_vars => TypeOK'
<1>. SUFFICES ASSUME TypeOK, [Next]_vars PROVE TypeOK'
  OBVIOUS
<1>1. CASE SandboxStep
  <2>1. evidence' \in [RunIds -> Holdings]
    BY <1>1, EvidenceGrows
  <2>. QED BY <1>1, <2>1 DEF SandboxStep, TypeOK, disk
<1>2. CASE Edit
  <2>1. undone' \subseteq Receipts
    BY <1>2 DEF Edit, TypeOK, BetweenHashes
  <2>. QED BY <1>2, <2>1 DEF Edit, TypeOK, ledgerVars, disk
<1>3. CASE Corrupt
  BY <1>3 DEF Corrupt, TypeOK, ledgerVars, disk
<1>4. ASSUME NEW p \in Procs, NEW x \in Receipts, Start(p, x) PROVE TypeOK'
  <2>1. ProcsTypeOK'
    BY <1>4, StartState
  <2>. QED BY <1>4, <2>1 DEF Start, TypeOK, ProcsTypeOK, ledgerVars, disk
<1>5. ASSUME NEW p \in Procs, Moves(p) PROVE TypeOK'
  <2>1. ProcsTypeOK' /\ UNCHANGED <<environment, disk>>
    BY <1>5, MovesType
  <2>. QED BY <2>1 DEF TypeOK, ProcsTypeOK, environment, ledgerVars, disk
<1>6. ASSUME NEW p \in Procs, Exits(p) PROVE TypeOK'
  <2>1. /\ ProcsTypeOK' /\ record' \in [Receipts -> Record] /\ deaths' \in Nat
        /\ UNCHANGED <<ledgerVars, source, edits, corrupt, replays, contested, undone, workspace, exitCode>>
    BY <1>6, ExitsType
  <2>. QED BY <2>1 DEF TypeOK, ProcsTypeOK, ledgerVars
<1>7. ASSUME NEW p \in Procs, Writes(p) PROVE TypeOK'
  <2>1. ProcsTypeOK' /\ UNCHANGED environment
    BY <1>7, WritesType
  <2>2. /\ workspace' \in [Receipts -> Versions \cup {Gone}]
        /\ record' \in [Receipts -> Record]
        /\ exitCode' \in [Receipts -> {Unset, 0, 2, 5}]
    BY <1>7, WritesDisk
  <2>. QED BY <2>1, <2>2 DEF TypeOK, ProcsTypeOK, environment, ledgerVars
<1>8. CASE UNCHANGED vars
  BY <1>8 DEF vars, environment, ledgerVars, disk, TypeOK
<1>. QED BY <1>1, <1>2, <1>3, <1>4, <1>5, <1>6, <1>7, <1>8, StepKinds DEF Next

\* Every reachable state is well typed.
THEOREM ReplayTypes == Spec => []TypeOK
BY TypeInit, TypeNext, PTL DEF Spec

-----------------------------------------------------------------------------
(* What a step leaves alone.                                                *)

\* No step takes evidence back.
Kept == \A x \in Receipts : OnRecord(x) => OnRecord(x)' /\ SealedOn(x)' = SealedOn(x)

\* The source is as it was, or to no replay between its hashes does it look
\* as if it were, unless its receipt is excused.
Noticed ==
  \/ UNCHANGED source
  \/ \A p \in Procs : BetweenHashes(p) /\ Mine(p) \notin undone' => source' # proc[p].before

\* Nothing is forgotten: evidence, which receipts are excused, and that the
\* source was edited.
Grows == Kept /\ Noticed /\ contested \subseteq contested' /\ undone \subseteq undone'

\* Every step only ever adds to what is known.
LEMMA StepGrows == TypeOK /\ [Next]_vars => Grows
<1>. SUFFICES ASSUME TypeOK, [Next]_vars PROVE Grows
  OBVIOUS
<1>1. CASE SandboxStep
  BY <1>1, EvidenceGrows DEF SandboxStep, Grows, Kept, Noticed
<1>2. CASE Edit
  <2>1. Noticed
    BY <1>2 DEF Edit, Noticed, Mine
  <2>. QED BY <1>2, <2>1 DEF Edit, Grows, Kept, OnRecord, SealedOn, ledgerVars
<1>3. CASE Corrupt
  BY <1>3 DEF Corrupt, Grows, Kept, Noticed, OnRecord, SealedOn, ledgerVars
<1>4. ASSUME NEW p \in Procs, NEW x \in Receipts, Start(p, x) PROVE Grows
  BY <1>4 DEF Start, Grows, Kept, Noticed, OnRecord, SealedOn, ledgerVars
<1>5. ASSUME NEW p \in Procs, Moves(p) PROVE Grows
  BY <1>5, MovesType DEF Grows, Kept, Noticed, OnRecord, SealedOn, environment, ledgerVars
<1>6. ASSUME NEW p \in Procs, Exits(p) PROVE Grows
  BY <1>6, ExitsType DEF Grows, Kept, Noticed, OnRecord, SealedOn, ledgerVars
<1>7. ASSUME NEW p \in Procs, Writes(p) PROVE Grows
  <2>1. UNCHANGED environment
    BY <1>7, WritesType
  <2>. QED BY <2>1 DEF Grows, Kept, Noticed, OnRecord, SealedOn, environment, ledgerVars
<1>8. CASE UNCHANGED vars
  BY <1>8 DEF vars, environment, ledgerVars, Grows, Kept, Noticed, OnRecord, SealedOn
<1>. QED BY <1>1, <1>2, <1>3, <1>4, <1>5, <1>6, <1>7, <1>8, StepKinds DEF Next

\* The files of a receipt are as they were.
Untouched(x) ==
  workspace'[x] = workspace[x] /\ record'[x] = record[x] /\ exitCode'[x] = exitCode[x]

\* A replay that does not move, and whose files nobody touches unless the
\* receipt is contested, stays as far as it was.
LEMMA ProgressKept ==
  ASSUME TypeOK, TypeOK', Grows, NEW p \in Procs, Progress(p), proc'[p] = proc[p],
         ~At(p, "idle") /\ Mine(p) \notin contested => Untouched(Mine(p))
  PROVE  Progress(p)'
<1>. SUFFICES ASSUME ~At(p, "idle") PROVE Progress(p)'
  BY DEF Progress, At
<1>. DEFINE x == Mine(p)
<1>1. x \in Receipts /\ Mine(p)' = x /\ proc[p] \in Process
  BY DEF TypeOK, At, Mine
<1>2. OnRecord(x)' /\ Expected(x)' = Expected(x)
  BY <1>1 DEF Progress, Grows, Kept, Expected
<1>3. ~At(p, "load") => proc[p].original = Expected(x)
  BY DEF Progress
<1>4. ASSUME x \notin contested' PROVE Alone(p)'
  <2>1. Alone(p) /\ Untouched(x)
    BY <1>4 DEF Progress, Grows
  <2>. QED BY <1>1, <2>1 DEF Alone, At, Untouched
<1>5. ASSUME x \notin Excused' PROVE Honest(p)'
  <2>1. Honest(p) /\ Untouched(x)
    BY <1>5 DEF Progress, Grows, Excused
  <2>2. UNCHANGED source \/ (BetweenHashes(p) => source' # proc[p].before)
    BY <1>5 DEF Grows, Noticed, Excused
  <2>3. CASE UNCHANGED source
    BY <1>1, <1>2, <2>1, <2>3 DEF Honest, At, Untouched
  <2>4. CASE BetweenHashes(p) /\ source' # proc[p].before
    BY <1>1, <2>4 DEF Honest, At, BetweenHashes
  <2>5. CASE ~BetweenHashes(p)
    BY <1>1, <1>2, <2>1, <2>5 DEF Honest, At, BetweenHashes
  <2>. QED BY <2>2, <2>3, <2>4, <2>5
<1>. QED BY <1>1, <1>2, <1>3, <1>4, <1>5 DEF Progress, At

\* A verdict stands as long as the record and exit code do.
LEMMA VerdictKept ==
  ASSUME Grows, NEW x \in Receipts, Verdict(x), record'[x] = record[x], exitCode'[x] = exitCode[x]
  PROVE  Verdict(x)'
BY DEF Grows, Kept, Verdict, Expected

-----------------------------------------------------------------------------
(* What a replay's own step achieves.                                       *)

\* The state a step gives p, and that it keeps its receipt.
LEMMA OwnState ==
  ASSUME TypeOK, NEW p \in Procs, NEW P, Become(p, P), P.receipt = proc[p].receipt
  PROVE  proc'[p] = P /\ Mine(p)' = Mine(p)
BY BecomeOnly DEF Mine

\* Moving on: the receipt's result, the source and the attack's outcome are
\* what they are said to be when they are read.
LEMMA MovesProgress ==
  ASSUME TypeOK, TypeOK', NEW p \in Procs, Progress(p), Moves(p)
  PROVE  Progress(p)'
<1>. DEFINE x == Mine(p)
<1>1. ~At(p, "idle") /\ x \in Receipts /\ proc[p] \in Process
  BY Underneath DEF Moves, Step
<1>2. UNCHANGED <<evidence, source, contested, undone, workspace, record, exitCode>>
  BY MovesType DEF environment, ledgerVars, disk
<1>3. /\ Mine(p)' = x /\ OnRecord(x) /\ OnRecord(x)' /\ Expected(x)' = Expected(x)
  BY <1>1, <1>2, MovesType DEF Mine, Progress, OnRecord, Expected, SealedOn
<1>4. Excused' = Excused
  BY <1>2 DEF Excused
<1>5. CASE Load(p)
  <2>1. proc'[p].pc = "hash_before" /\ proc'[p].original = Expected(x)
    BY <1>1, <1>5 DEF Load, Become, TypeOK, Process, Expected
  <2>. QED BY <1>3, <2>1 DEF Progress, Alone, Honest, At
<1>6. CASE HashBefore(p)
  <2>1. proc'[p].pc = "clear" /\ proc'[p].original = proc[p].original
    BY <1>1, <1>6 DEF HashBefore, Become, TypeOK, Process
  <2>2. proc[p].original = Expected(x)
    BY <1>1, <1>6 DEF HashBefore, Progress, At
  <2>. QED BY <1>3, <2>1, <2>2 DEF Progress, Alone, Honest, At
<1>7. CASE Attack(p)
  <2>1. /\ proc'[p].pc = "hash_after" /\ proc'[p].original = proc[p].original
        /\ proc'[p].before = proc[p].before
        /\ proc'[p].outcome = Observation(x[2], workspace[x])
    BY <1>1, <1>7 DEF Attack, Become, TypeOK, Process
  <2>2. proc[p].original = Expected(x)
    BY <1>1, <1>7 DEF Attack, Progress, At
  <2>3. ASSUME x \notin contested PROVE Alone(p)'
    <3>1. record[x].status = "running"
      BY <1>1, <1>7, <2>3 DEF Attack, Progress, Alone, At
    <3>. QED BY <1>2, <1>3, <2>1, <3>1 DEF Alone, At
  <2>4. ASSUME x \notin Excused PROVE Honest(p)'
    <3>1. workspace[x] = proc[p].before \/ source # proc[p].before
      BY <1>1, <1>7, <2>4 DEF Attack, Progress, Honest, At
    <3>. QED BY <1>2, <1>3, <2>1, <3>1 DEF Honest, At
  <2>. QED BY <1>2, <1>3, <1>4, <2>1, <2>2, <2>3, <2>4 DEF Progress, At
<1>8. CASE HashAfter(p)
  <2>1. /\ proc'[p].pc = "compare" /\ proc'[p].original = proc[p].original
        /\ proc'[p].before = proc[p].before /\ proc'[p].outcome = proc[p].outcome
        /\ proc'[p].after = source
    BY <1>1, <1>8 DEF HashAfter, Become, TypeOK, Process
  <2>2. proc[p].original = Expected(x)
    BY <1>1, <1>8 DEF HashAfter, Progress, At
  <2>3. ASSUME x \notin contested PROVE Alone(p)'
    <3>1. record[x].status = "running"
      BY <1>1, <1>8, <2>3 DEF HashAfter, Progress, Alone, At
    <3>. QED BY <1>2, <1>3, <2>1, <3>1 DEF Alone, At
  <2>4. ASSUME x \notin Excused PROVE Honest(p)'
    <3>1. proc[p].outcome = Observation(x[2], proc[p].before) \/ source # proc[p].before
      BY <1>1, <1>8, <2>4 DEF HashAfter, Progress, Honest, At
    <3>. QED BY <1>2, <1>3, <2>1, <3>1 DEF Honest, At
  <2>. QED BY <1>2, <1>3, <1>4, <2>1, <2>2, <2>3, <2>4 DEF Progress, At
<1>. QED BY <1>5, <1>6, <1>7, <1>8 DEF Moves

\* Writing and going on: the copy is the version that was hashed, or the
\* source has changed, and the exit code is decided by the comparison.
LEMMA WritesProgress ==
  ASSUME TypeOK, TypeOK', NEW p \in Procs, Progress(p), Writes(p)
  PROVE  Progress(p)'
<1>. DEFINE x == Mine(p)
            h == proc[p].before
<1>1. ~At(p, "idle") /\ x \in Receipts /\ proc[p] \in Process
  BY Underneath DEF Writes, Step
<1>2. UNCHANGED <<evidence, source, contested, undone>> /\ Excused' = Excused
  BY WritesType DEF environment, ledgerVars, Excused
<1>3. /\ Mine(p)' = x /\ OnRecord(x) /\ OnRecord(x)' /\ Expected(x)' = Expected(x)
  BY <1>1, <1>2, WritesType DEF Mine, Progress, OnRecord, Expected, SealedOn
<1>4. /\ proc'[p].original = proc[p].original /\ proc'[p].before = h
      /\ proc'[p].after = proc[p].after /\ proc'[p].outcome = proc[p].outcome
  BY <1>1, WritesType DEF Process
<1>5. proc[p].original = Expected(x)
  BY <1>1 DEF Writes, ClearWorkspace, Copy, WriteRunning, SourceMutated, Reproduced, Differs,
     Progress, At
<1>6. /\ x \notin contested => Alone(p)
      /\ x \notin Excused => Honest(p)
  BY <1>1 DEF Progress
<1>7. SUFFICES /\ x \notin contested => Alone(p)'
               /\ x \notin Excused => Honest(p)'
  BY <1>2, <1>3, <1>4, <1>5 DEF Progress
<1>8. CASE ClearWorkspace(p)
  <2>1. proc'[p].pc = "copy"
    BY <1>1, <1>8 DEF ClearWorkspace, Become, TypeOK, Process
  <2>. QED BY <2>1 DEF Alone, Honest, At
<1>9. CASE Copy(p)
  <2>1. proc'[p].pc = "write_running" /\ workspace'[x] = source
    BY <1>1, <1>9 DEF Copy, Become, TypeOK, Process
  <2>. QED BY <1>2, <1>3, <1>4, <2>1 DEF Alone, Honest, At
<1>10. CASE WriteRunning(p)
  <2>1. proc'[p].pc = "attack" /\ workspace' = workspace
    BY <1>1, <1>10 DEF WriteRunning, Become, TypeOK, Process
  <2>2. record'[x].status = "running"
    BY <1>1, <1>10 DEF WriteRunning, WriteRecord, TypeOK
  <2>3. x \notin Excused => workspace[x] = h \/ source # h
    BY <1>6, <1>10 DEF WriteRunning, Honest, At
  <2>. QED BY <1>2, <1>3, <1>4, <2>1, <2>2, <2>3 DEF Alone, Honest, At
<1>11. CASE SourceMutated(p) \/ Reproduced(p) \/ Differs(p)
  <2>1. x \notin contested => record'[x].status = "running"
    BY <1>6, <1>11 DEF SourceMutated, Reproduced, Differs, WriteExit, Alone, At
  <2>2. ASSUME x \notin Excused, ~Mutated(p) PROVE proc[p].outcome = Observation(x[2], h)
    BY <1>6, <1>11, <2>2 DEF SourceMutated, Reproduced, Differs, Honest, At, Mutated
  <2>3. CASE SourceMutated(p)
    <3>1. proc'[p].pc = "refuse" /\ exitCode'[x] = 5
      BY <1>1, <2>3 DEF SourceMutated, WriteExit, Become, TypeOK, Process
    <3>. QED BY <1>3, <2>1, <3>1 DEF Alone, Honest, At
  <2>4. CASE Reproduced(p)
    <3>1. proc'[p].pc = "write_completed"
      BY <1>1, <2>4 DEF Reproduced, WriteExit, Become, TypeOK, Process
    <3>2. x \notin Excused => Observation(x[2], h) = Expected(x)
      BY <1>5, <2>2, <2>4 DEF Reproduced, Matches
    <3>. QED BY <1>3, <1>4, <2>1, <3>1, <3>2 DEF Alone, Honest, At
  <2>5. CASE Differs(p)
    <3>1. proc'[p].pc = "write_failed"
      BY <1>1, <2>5 DEF Differs, WriteExit, Become, TypeOK, Process
    <3>2. x \notin Excused => Observation(x[2], h) # Expected(x)
      BY <1>5, <2>2, <2>5 DEF Differs, Matches
    <3>. QED BY <1>3, <1>4, <2>1, <3>1, <3>2 DEF Alone, Honest, At
  <2>. QED BY <1>11, <2>3, <2>4, <2>5
<1>. QED BY <1>8, <1>9, <1>10, <1>11 DEF Writes

\* Ending: only a comparison that came out equal is put on record as
\* completed, and only one that did not as failed with exit code 2.
LEMMA ExitsVerdict ==
  ASSUME TypeOK, NEW p \in Procs, Progress(p), Exits(p), Mine(p) \notin Excused, Verdict(Mine(p))
  PROVE  Verdict(Mine(p))'
<1>. DEFINE x == Mine(p)
<1>1. ~At(p, "idle") /\ x \in Receipts /\ proc[p] \in Process
  BY Underneath DEF Exits, Step
<1>2. UNCHANGED <<evidence, exitCode>> /\ Mine(p)' = x
  BY ExitsType DEF ledgerVars, Mine
<1>3. OnRecord(x) /\ OnRecord(x)' /\ Expected(x)' = Expected(x)
      /\ Alone(p) /\ Honest(p)
  BY <1>1, <1>2 DEF Progress, OnRecord, Expected, SealedOn, Excused
<1>4. CASE UNCHANGED record
  BY <1>2, <1>3, <1>4 DEF Verdict
<1>5. CASE Refuse(p)
  <2>1. exitCode'[x] = 5 /\ record'[x].status = "failed"
    BY <1>1, <1>2, <1>3, <1>5 DEF Refuse, WriteRecord, Alone, At, TypeOK
  <2>. QED BY <1>2, <2>1 DEF Verdict
<1>6. CASE WriteCompleted(p)
  <2>1. record'[x].status = "completed" /\ record'[x].before = proc[p].before
    BY <1>1, <1>6 DEF WriteCompleted, WriteRecord, TypeOK
  <2>2. Observation(x[2], proc[p].before) = Expected(x)
    BY <1>3, <1>6 DEF WriteCompleted, Honest
  <2>. QED BY <1>2, <1>3, <2>1, <2>2 DEF Verdict
<1>7. CASE WriteFailed(p)
  <2>1. record'[x].status = "failed" /\ record'[x].before = proc[p].before
    BY <1>1, <1>7 DEF WriteFailed, WriteRecord, TypeOK
  <2>2. Observation(x[2], proc[p].before) # Expected(x)
    BY <1>3, <1>7 DEF WriteFailed, Honest
  <2>. QED BY <1>2, <1>3, <2>1, <2>2 DEF Verdict
<1>. QED BY <1>4, <1>5, <1>6, <1>7 DEF Exits, LoadFails, NotInCatalog, CopyRefused, Die, disk

\* While a replay goes on, its record is not a final one, or it is the last
\* replay's and has not been touched.
LEMMA WritesVerdict ==
  ASSUME TypeOK, NEW p \in Procs, Progress(p), Writes(p), Mine(p) \notin Excused, Verdict(Mine(p))
  PROVE  Verdict(Mine(p))'
<1>. DEFINE x == Mine(p)
<1>1. ~At(p, "idle") /\ x \in Receipts /\ proc[p] \in Process
  BY Underneath DEF Writes, Step
<1>2. UNCHANGED evidence /\ Mine(p)' = x
  BY WritesType DEF environment, ledgerVars, Mine
<1>3. Expected(x)' = Expected(x) /\ (OnRecord(x) => OnRecord(x)') /\ Alone(p)
  BY <1>1, <1>2 DEF Progress, OnRecord, Expected, SealedOn, Excused
<1>4. CASE ClearWorkspace(p) \/ Copy(p)
  BY <1>2, <1>3, <1>4 DEF ClearWorkspace, Copy, Verdict
<1>5. CASE WriteRunning(p)
  <2>1. record'[x].status = "running"
    BY <1>1, <1>5 DEF WriteRunning, WriteRecord, TypeOK
  <2>. QED BY <1>2, <2>1 DEF Verdict
<1>6. CASE SourceMutated(p) \/ Reproduced(p) \/ Differs(p)
  <2>1. record'[x].status = "running"
    BY <1>3, <1>6 DEF SourceMutated, Reproduced, Differs, WriteExit, Alone, At
  <2>. QED BY <1>2, <2>1 DEF Verdict
<1>. QED BY <1>4, <1>5, <1>6 DEF Writes

-----------------------------------------------------------------------------
(* The inductive step.                                                      *)

\* A step of p that leaves the other processes and their receipts' files
\* alone preserves the invariant if it preserves p's own part of it.
LEMMA OwnStep ==
  ASSUME TypeOK, TypeOK', Grows, ReplayInv, NEW p \in Procs, ~At(p, "idle"),
         UNCHANGED <<contested, undone>>, Mine(p)' = Mine(p),
         \A q \in Procs : q # p => proc'[q] = proc[q],
         \A x \in Receipts : x # Mine(p) => Untouched(x),
         Progress(p)',
         Mine(p) \notin Excused => Verdict(Mine(p))'
  PROVE  ReplayInv'
<1>1. OneReplay'
  BY DEF ReplayInv, OneReplay, At, Mine
<1>2. ASSUME NEW q \in Procs, q # p PROVE Progress(q)'
  <2>1. Progress(q) /\ proc'[q] = proc[q]
    BY <1>2 DEF ReplayInv
  <2>2. ASSUME ~At(q, "idle"), Mine(q) \notin contested PROVE Untouched(Mine(q))
    <3>1. Mine(q) \in Receipts
      BY <2>2 DEF TypeOK, At, Mine
    <3>2. Mine(q) # Mine(p)
      BY <1>2, <2>2 DEF ReplayInv, OneReplay
    <3>. QED BY <3>1, <3>2
  <2>. QED BY <2>1, <2>2, ProgressKept
<1>3. ASSUME NEW x \in Receipts, x \notin Excused, x # Mine(p) PROVE Verdict(x)'
  BY <1>3, VerdictKept DEF ReplayInv, Untouched
<1>. QED BY <1>1, <1>2, <1>3 DEF ReplayInv, Excused

\* A step that leaves every process and every file alone preserves it too.
LEMMA StillStep ==
  ASSUME TypeOK, TypeOK', Grows, ReplayInv, UNCHANGED <<proc, workspace, record, exitCode, contested>>
  PROVE  ReplayInv'
<1>1. OneReplay'
  BY DEF ReplayInv, OneReplay, At, Mine
<1>2. ASSUME NEW q \in Procs PROVE Progress(q)'
  BY ProgressKept DEF ReplayInv, Untouched
<1>3. ASSUME NEW x \in Receipts, x \notin Excused' PROVE Verdict(x)'
  BY <1>3, VerdictKept DEF ReplayInv, Excused, Grows
<1>. QED BY <1>1, <1>2, <1>3 DEF ReplayInv

\* A replay that begins on a receipt another one is busy with contests it.
LEMMA StartStep ==
  ASSUME TypeOK, TypeOK', Grows, ReplayInv, NEW p \in Procs, NEW x \in Receipts, Start(p, x)
  PROVE  ReplayInv'
<1>1. /\ proc'[p].receipt = x /\ proc'[p].pc \in {"idle", "load"}
      /\ \A q \in Procs : q # p => proc'[q] = proc[q]
  BY StartState
<1>2. At(p, "idle") /\ UNCHANGED <<workspace, record, exitCode>>
      /\ contested' = IF Underway(x) THEN contested \cup {x} ELSE contested
  BY DEF Start, disk
<1>3. OneReplay'
  <2>1. ASSUME NEW q \in Procs, q # p, ~At(q, "idle"), Mine(q) = x PROVE x \in contested'
    BY <1>2, <2>1 DEF Underway, At
  <2>2. \A q \in Procs : q # p => (At(q, "idle"))' = At(q, "idle") /\ Mine(q)' = Mine(q)
    BY <1>1 DEF At, Mine
  <2>3. Mine(p)' = x
    BY <1>1 DEF Mine
  <2>. QED BY <1>2, <2>1, <2>2, <2>3 DEF ReplayInv, OneReplay
<1>4. ASSUME NEW q \in Procs, q # p PROVE Progress(q)'
  BY <1>1, <1>2, <1>4, ProgressKept DEF ReplayInv, Untouched
<1>5. Progress(p)'
  <2>1. OnRecord(x)'
    BY DEF Start, Grows, Kept
  <2>. QED BY <1>1, <2>1 DEF Progress, Alone, Honest, At, Mine
<1>6. ASSUME NEW y \in Receipts, y \notin Excused' PROVE Verdict(y)'
  BY <1>2, <1>6, VerdictKept DEF ReplayInv, Grows, Excused
<1>. QED BY <1>3, <1>4, <1>5, <1>6 DEF ReplayInv

\* Before the first replay nothing is on record.
LEMMA ReplayInit == Init => ReplayInv
<1>. SUFFICES ASSUME Init PROVE ReplayInv
  OBVIOUS
<1>1. \A p \in Procs : At(p, "idle")
  BY DEF Init, At, Idle
<1>2. \A x \in Receipts : record[x].status = "absent"
  BY DEF Init, NoRecord
<1>. QED BY <1>1, <1>2 DEF ReplayInv, OneReplay, Progress, Verdict

\* Every step preserves the invariant.
LEMMA ReplayNext == TypeOK /\ ReplayInv /\ [Next]_vars => ReplayInv'
<1>. SUFFICES ASSUME TypeOK, ReplayInv, [Next]_vars PROVE ReplayInv'
  OBVIOUS
<1>0. TypeOK' /\ Grows
  BY TypeNext, StepGrows
<1>1. CASE SandboxStep \/ Edit \/ Corrupt \/ UNCHANGED vars
  <2>1. UNCHANGED <<proc, workspace, record, exitCode, contested>>
    BY <1>1 DEF SandboxStep, Edit, Corrupt, vars, environment, disk
  <2>. QED BY <1>0, <2>1, StillStep
<1>2. ASSUME NEW p \in Procs, NEW x \in Receipts, Start(p, x) PROVE ReplayInv'
  BY <1>0, <1>2, StartStep
<1>3. ASSUME NEW p \in Procs, Moves(p) PROVE ReplayInv'
  <2>1. ~At(p, "idle") /\ Mine(p) \in Receipts
    BY <1>3, Underneath DEF Moves, Step
  <2>2. /\ UNCHANGED <<environment, disk>> /\ Mine(p)' = Mine(p)
        /\ \A q \in Procs : q # p => proc'[q] = proc[q]
    BY <1>3, MovesType DEF Mine
  <2>3. UNCHANGED <<contested, undone>> /\ \A x \in Receipts : Untouched(x)
    BY <2>2 DEF environment, disk, Untouched
  <2>4. Progress(p)'
    BY <1>0, <1>3, MovesProgress DEF ReplayInv
  <2>5. Mine(p) \notin Excused => Verdict(Mine(p))'
    <3>1. \A x \in Receipts \ Excused : Verdict(x)'
      BY <1>0, <2>3, VerdictKept DEF ReplayInv, Untouched
    <3>. QED BY <2>1, <2>2, <3>1 DEF Verdict, OnRecord, Expected, SealedOn
  <2>. QED BY <1>0, <2>1, <2>2, <2>3, <2>4, <2>5, OwnStep
<1>4. ASSUME NEW p \in Procs, Exits(p) PROVE ReplayInv'
  <2>1. ~At(p, "idle") /\ Mine(p) \in Receipts
    BY <1>4, Underneath DEF Exits, Step
  <2>2. /\ UNCHANGED <<contested, undone>> /\ Mine(p)' = Mine(p) /\ proc'[p].pc = "idle"
        /\ \A q \in Procs : q # p => proc'[q] = proc[q]
        /\ \A x \in Receipts : x # Mine(p) => Untouched(x)
    BY <1>4, ExitsType DEF Mine, Untouched
  <2>3. Progress(p)'
    BY <2>2 DEF Progress, At
  <2>4. Mine(p) \notin Excused => Verdict(Mine(p))'
    BY <1>4, <2>1, ExitsVerdict DEF ReplayInv
  <2>. QED BY <1>0, <2>1, <2>2, <2>3, <2>4, OwnStep
<1>5. ASSUME NEW p \in Procs, Writes(p) PROVE ReplayInv'
  <2>1. ~At(p, "idle") /\ Mine(p) \in Receipts
    BY <1>5, Underneath DEF Writes, Step
  <2>2. /\ UNCHANGED environment /\ Mine(p)' = Mine(p)
        /\ \A q \in Procs : q # p => proc'[q] = proc[q]
    <3>1. UNCHANGED environment
      BY <1>5, WritesType
    <3>2. \A q \in Procs : q # p => proc'[q] = proc[q]
      BY <1>5, WritesType
    <3>3. proc'[p].receipt = proc[p].receipt
      BY <1>5, WritesType
    <3>. QED BY <3>1, <3>2, <3>3 DEF Mine
  <2>3. UNCHANGED <<contested, undone>> /\ \A x \in Receipts : x # Mine(p) => Untouched(x)
    BY <1>5, <2>2, WritesDisk DEF environment, Untouched
  <2>4. Progress(p)'
    BY <1>0, <1>5, WritesProgress DEF ReplayInv
  <2>5. Mine(p) \notin Excused => Verdict(Mine(p))'
    BY <1>5, <2>1, WritesVerdict DEF ReplayInv
  <2>. QED BY <1>0, <2>1, <2>2, <2>3, <2>4, <2>5, OwnStep
<1>. QED BY <1>1, <1>2, <1>3, <1>4, <1>5, StepKinds DEF Next

(***************************************************************************)
(* replay_receipt's verdict, for every number of processes and replays: a   *)
(* receipt whose record says completed was reproduced on the version whose  *)
(* hash the record names, and one whose record says failed with exit code 2 *)
(* was not, unless two processes replayed it at once or an edit between the *)
(* two hashes was undone before the second.  The receipt itself is taken    *)
(* not to be written again (run ids are used once).                         *)
(***************************************************************************)
THEOREM VerdictSound == Spec => []VerdictIsAboutTheRecordedSource
<1>1. Spec => [](TypeOK /\ ReplayInv)
  BY TypeInit, ReplayInit, TypeNext, ReplayNext, PTL DEF Spec
<1>2. ReplayInv => VerdictIsAboutTheRecordedSource
  BY DEF ReplayInv, Excused, Verdict, Expected, VerdictIsAboutTheRecordedSource
<1>. QED BY <1>1, <1>2, PTL
-----------------------------------------------------------------------------
(* What the commands leave behind.                                          *)

\* The points at which the running record is the replay's own.
Late == {"attack", "hash_after", "compare", "refuse", "write_completed", "write_failed"}

Ended(p) == At(p, "idle") /\ proc[p].exit # Unset

\* Replays are numbered in the order in which they begin.
Numbered ==
  /\ \A p \in Procs : proc[p].replay <= replays
  /\ \A x \in Receipts : record[x].replay <= replays
  /\ \A p \in Procs : ~At(p, "idle") \/ Ended(p) => proc[p].replay > 0 /\ Mine(p) \in Receipts
  /\ \A p, q \in Procs : p # q /\ proc[p].replay = proc[q].replay => proc[p].replay = 0

\* What a replay that is alone with its receipt has written by now.
InHand(p) ==
  LET x == Mine(p) IN
  ~At(p, "idle") /\ x \notin contested =>
    /\ record[x].replay = proc[p].replay <=> proc[p].pc \in Late
    /\ At(p, "refuse") => exitCode[x] = 5
    /\ At(p, "write_completed") => exitCode[x] = 0
    /\ At(p, "write_failed") => exitCode[x] = 2

StatusFor(code) == CASE code = 0 -> "completed" [] code = 1 -> "running" [] OTHER -> "failed"

\* What a command that has ended has left, and that a replay which is under
\* way now began after it.
Left(p) ==
  LET x == Mine(p)  own == record[x].replay = proc[p].replay IN
  Ended(p) /\ x \notin contested =>
    /\ proc[p].exit \in {0, 5} => record[x].replay >= proc[p].replay
    /\ own => record[x].status = StatusFor(proc[p].exit)
    /\ own /\ proc[p].exit # 1 => exitCode[x] = proc[p].exit
    /\ \A q \in Procs : ~At(q, "idle") /\ Mine(q) = x => proc[p].replay < proc[q].replay

\* exit_code.txt and a final record tell the same.
Agrees(x) ==
  /\ record[x].status = "completed" => exitCode[x] = 0
  /\ record[x].status = "failed" => exitCode[x] \in {2, 5}

ArtifactInv ==
  /\ Numbered
  /\ \A p \in Procs : InHand(p) /\ Left(p)
  /\ \A x \in Receipts \ contested : Agrees(x)

\* Leaving with a status keeps the number of the replay.
LEMMA ExitFields ==
  ASSUME TypeOK, NEW p \in Procs, NEW code \in {0, 1, 2, 5}, Exit(p, code)
  PROVE  proc'[p].exit = code /\ proc'[p].replay = proc[p].replay
<1>. DEFINE P == [Idle EXCEPT !.receipt = Mine(p), !.replay = proc[p].replay, !.exit = code]
<1>1. P.exit = code /\ P.replay = proc[p].replay
  BY DEF Idle
<1>2. Become(p, P)
  BY DEF Exit
<1>. HIDE DEF P
<1>. QED BY <1>1, <1>2, BecomeOnly

\* A new invocation is numbered after all others, and is idle again at once
\* with exit status 2 when the receipt does not verify.
LEMMA StartFields ==
  ASSUME TypeOK, NEW p \in Procs, NEW x \in Receipts, Start(p, x)
  PROVE  /\ proc'[p].replay = replays + 1 /\ replays' = replays + 1
         /\ \/ proc'[p].pc = "idle" /\ proc'[p].exit = 2
            \/ proc'[p].pc = "load"
<1>. DEFINE begun == [Idle EXCEPT !.receipt = x, !.replay = replays + 1]
            refused == [begun EXCEPT !.exit = 2]
            loading == [begun EXCEPT !.pc = "load"]
            P == IF x \in corrupt THEN refused ELSE loading
<1>1. /\ refused.replay = replays + 1 /\ refused.pc = "idle" /\ refused.exit = 2
      /\ loading.replay = replays + 1 /\ loading.pc = "load"
  BY DEF Idle
<1>2. Become(p, P) /\ replays' = replays + 1
  BY DEF Start
<1>. HIDE DEF refused, loading
<1>3. P.replay = replays + 1 /\ ((P.pc = "idle" /\ P.exit = 2) \/ P.pc = "load")
  BY <1>1
<1>. HIDE DEF P
<1>4. proc'[p] = P
  BY <1>2, BecomeOnly
<1>. QED BY <1>2, <1>3, <1>4

\* A step of p keeps what the others have in hand and have left, if it leaves
\* the record and exit code of its receipt alone or makes the record its own.
LEMMA OwnArtifacts ==
  ASSUME TypeOK, TypeOK', ReplayInv, ArtifactInv, NEW p \in Procs, ~At(p, "idle"),
         UNCHANGED <<replays, contested>>, Mine(p)' = Mine(p), proc'[p].replay = proc[p].replay,
         \A q \in Procs : q # p => proc'[q] = proc[q],
         \A x \in Receipts : x # Mine(p) => Untouched(x),
         \/ record'[Mine(p)] = record[Mine(p)] /\ exitCode'[Mine(p)] = exitCode[Mine(p)]
         \/ Mine(p) \notin contested => record'[Mine(p)].replay = proc[p].replay,
         record'[Mine(p)].replay \in {record[Mine(p)].replay, proc[p].replay},
         InHand(p)', Left(p)', Mine(p) \notin contested => Agrees(Mine(p))'
  PROVE  ArtifactInv'
<1>. DEFINE x == Mine(p)
<1>1. x \in Receipts /\ proc[p].replay > 0 /\ proc[p].replay <= replays
  BY DEF ArtifactInv, Numbered
<1>2. Numbered'
  <2>1. \A q \in Procs : proc'[q].replay = proc[q].replay /\ Mine(q)' = Mine(q)
    BY DEF Mine
  <2>2. \A q \in Procs : q # p => (At(q, "idle")' <=> At(q, "idle")) /\ (Ended(q)' <=> Ended(q))
    BY DEF At, Ended
  <2>3. \A y \in Receipts : record'[y].replay <= replays
    BY <1>1 DEF Untouched, ArtifactInv, Numbered
  <2>4. \A q \in Procs : ~At(q, "idle")' \/ Ended(q)' => proc'[q].replay > 0 /\ Mine(q)' \in Receipts
    BY <1>1, <2>1, <2>2 DEF ArtifactInv, Numbered
  <2>. QED BY <2>1, <2>3, <2>4 DEF ArtifactInv, Numbered
<1>3. ASSUME NEW q \in Procs, q # p PROVE InHand(q)'
  <2>. SUFFICES ASSUME ~At(q, "idle"), Mine(q) \notin contested PROVE InHand(q)'
    BY <1>3 DEF InHand, At, Mine
  <2>1. Mine(q) \in Receipts /\ Mine(q) # x
    BY <1>3 DEF ReplayInv, OneReplay, TypeOK, At, Mine
  <2>2. Untouched(Mine(q)) /\ InHand(q) /\ Mine(q)' = Mine(q) /\ proc'[q] = proc[q]
    BY <1>3, <2>1 DEF ArtifactInv, Mine
  <2>. QED BY <2>2 DEF InHand, Untouched, At
<1>4. ASSUME NEW q \in Procs, q # p PROVE Left(q)'
  <2>. DEFINE y == Mine(q)
  <2>. SUFFICES ASSUME Ended(q), y \notin contested PROVE Left(q)'
    BY <1>3, <1>4 DEF Left, Ended, At, Mine
  <2>1. y \in Receipts /\ proc[q].replay > 0 /\ Left(q) /\ y' = y /\ proc'[q] = proc[q]
    BY <1>4 DEF ArtifactInv, Numbered, Mine
  <2>2. ASSUME NEW r \in Procs, ~At(r, "idle")', Mine(r)' = y PROVE proc[q].replay < proc'[r].replay
    <3>1. ~At(r, "idle") /\ Mine(r) = y /\ proc'[r].replay = proc[r].replay
      BY <2>2 DEF At, Mine
    <3>. QED BY <2>1, <3>1 DEF Left
  <2>3. CASE record'[y] = record[y] /\ exitCode'[y] = exitCode[y]
    BY <2>1, <2>2, <2>3 DEF Left, Ended, At
  <2>4. CASE y = x /\ record'[y].replay = proc[p].replay
    <3>1. proc[q].replay < proc[p].replay
      BY <2>1, <2>4 DEF Left
    <3>2. proc[q].replay \in Nat /\ proc[p].replay \in Nat
      BY DEF TypeOK, Process
    <3>3. record'[y].replay >= proc'[q].replay /\ record'[y].replay # proc'[q].replay
      BY <2>1, <2>4, <3>1, <3>2
    <3>. QED BY <2>1, <2>2, <3>3 DEF Left, Ended, At
  <2>. QED BY <2>1, <2>3, <2>4 DEF Untouched
<1>5. ASSUME NEW y \in Receipts, y \notin contested, y # x PROVE Agrees(y)'
  BY <1>5 DEF ArtifactInv, Agrees, Untouched
<1>. QED BY <1>2, <1>3, <1>4, <1>5 DEF ArtifactInv


\* Moving on touches no file, and stays on its side of the running record.
LEMMA MovesArtifacts ==
  ASSUME TypeOK, TypeOK', ReplayInv, ArtifactInv, NEW p \in Procs, Moves(p)
  PROVE  ArtifactInv'
<1>1. ~At(p, "idle") /\ Mine(p) \in Receipts /\ proc[p] \in Process
  BY Underneath DEF Moves, Step
<1>2. /\ UNCHANGED <<replays, contested, record, exitCode, workspace>> /\ Mine(p)' = Mine(p)
      /\ \A q \in Procs : q # p => proc'[q] = proc[q]
  BY MovesType DEF environment, disk, Mine
<1>3. /\ proc'[p].replay = proc[p].replay
      /\ proc'[p].pc \in {"hash_before", "clear", "hash_after", "compare"}
      /\ proc'[p].pc \in Late <=> proc[p].pc \in Late
  <2>1. CASE Load(p)
    BY <1>1, <2>1 DEF Load, At, Become, TypeOK, Process, Late
  <2>2. CASE HashBefore(p)
    BY <1>1, <2>2 DEF HashBefore, At, Become, TypeOK, Process, Late
  <2>3. CASE Attack(p)
    BY <1>1, <2>3 DEF Attack, At, Become, TypeOK, Process, Late
  <2>4. CASE HashAfter(p)
    BY <1>1, <2>4 DEF HashAfter, At, Become, TypeOK, Process, Late
  <2>. QED BY <2>1, <2>2, <2>3, <2>4 DEF Moves
<1>4. InHand(p)'
  BY <1>1, <1>2, <1>3 DEF ArtifactInv, InHand, At
<1>5. Left(p)'
  BY <1>3 DEF Left, Ended, At
<1>6. Mine(p) \notin contested => Agrees(Mine(p))'
  BY <1>1, <1>2 DEF ArtifactInv, Agrees
<1>. QED BY <1>1, <1>2, <1>3, <1>4, <1>5, <1>6, OwnArtifacts DEF Untouched

\* Writing: the running record becomes the replay's own, and exit_code.txt
\* is written under it.
LEMMA WritesArtifacts ==
  ASSUME TypeOK, TypeOK', ReplayInv, ArtifactInv, NEW p \in Procs, Writes(p)
  PROVE  ArtifactInv'
<1>. DEFINE x == Mine(p)
<1>1. ~At(p, "idle") /\ x \in Receipts /\ proc[p] \in Process
  BY Underneath DEF Writes, Step
<1>2. /\ UNCHANGED environment /\ Mine(p)' = x
      /\ \A q \in Procs : q # p => proc'[q] = proc[q]
  <2>1. UNCHANGED environment /\ proc'[p].receipt = proc[p].receipt
        /\ \A q \in Procs : q # p => proc'[q] = proc[q]
    BY WritesType
  <2>. QED BY <2>1 DEF Mine
<1>3. UNCHANGED <<replays, contested>>
  BY <1>2 DEF environment
<1>4. \A y \in Receipts : y # x => Untouched(y)
  BY WritesDisk DEF Untouched
<1>5. /\ proc'[p].replay = proc[p].replay
      /\ proc'[p].pc \in {"copy", "write_running", "attack", "refuse", "write_completed", "write_failed"}
  BY <1>1, WritesType DEF Process
<1>6. Left(p)'
  BY <1>5 DEF Left, Ended, At
<1>7. CASE ClearWorkspace(p) \/ Copy(p)
  <2>1. UNCHANGED <<record, exitCode>> /\ proc'[p].pc \in {"copy", "write_running"} /\ proc[p].pc \notin Late
    BY <1>1, <1>7 DEF ClearWorkspace, Copy, At, Become, TypeOK, Process, Late
  <2>2. InHand(p)'
    BY <1>1, <1>2, <1>3, <1>5, <2>1 DEF ArtifactInv, InHand, At, Late
  <2>3. x \notin contested => Agrees(x)'
    BY <1>1, <1>2, <2>1 DEF ArtifactInv, Agrees
  <2>. QED BY <1>1, <1>2, <1>3, <1>4, <1>5, <1>6, <2>1, <2>2, <2>3, OwnArtifacts
<1>8. CASE WriteRunning(p)
  <2>1. /\ record'[x].status = "running" /\ record'[x].replay = proc[p].replay
        /\ proc'[p].pc = "attack"
    BY <1>1, <1>8 DEF WriteRunning, WriteRecord, Become, TypeOK, Process
  <2>2. InHand(p)'
    BY <1>2, <1>5, <2>1 DEF InHand, At, Late
  <2>3. Agrees(x)'
    BY <1>2, <2>1 DEF Agrees
  <2>. QED BY <1>1, <1>2, <1>3, <1>4, <1>5, <1>6, <2>1, <2>2, <2>3, OwnArtifacts
<1>9. CASE SourceMutated(p) \/ Reproduced(p) \/ Differs(p)
  <2>1. UNCHANGED record /\ proc[p].pc \in Late /\ proc'[p].pc \in Late
    BY <1>1, <1>9 DEF SourceMutated, Reproduced, Differs, WriteExit, At, Become, TypeOK, Process, Late
  <2>2. \/ proc'[p].pc = "refuse" /\ exitCode'[x] = 5
        \/ proc'[p].pc = "write_completed" /\ exitCode'[x] = 0
        \/ proc'[p].pc = "write_failed" /\ exitCode'[x] = 2
    BY <1>1, <1>9 DEF SourceMutated, Reproduced, Differs, WriteExit, Become, TypeOK, Process
  <2>3. x \notin contested => record[x].replay = proc[p].replay /\ record[x].status = "running"
    BY <1>1, <2>1 DEF ArtifactInv, InHand, ReplayInv, Progress, Alone, Late
  <2>4. InHand(p)'
    BY <1>2, <1>3, <1>5, <2>1, <2>2, <2>3 DEF InHand, At
  <2>5. x \notin contested => Agrees(x)'
    BY <1>2, <2>1, <2>3 DEF Agrees
  <2>. QED BY <1>1, <1>2, <1>3, <1>4, <1>5, <1>6, <2>1, <2>3, <2>4, <2>5, OwnArtifacts
<1>. QED BY <1>7, <1>8, <1>9 DEF Writes

\* Ending: the status of the command is that of the record it leaves, or the
\* record is not its own.
LEMMA ExitsArtifacts ==
  ASSUME TypeOK, TypeOK', ReplayInv, ArtifactInv, NEW p \in Procs, Exits(p)
  PROVE  ArtifactInv'
<1>. DEFINE x == Mine(p)
<1>1. ~At(p, "idle") /\ x \in Receipts /\ proc[p] \in Process
  BY Underneath DEF Exits, Step
<1>2. /\ UNCHANGED <<replays, contested, workspace, exitCode>> /\ Mine(p)' = x /\ proc'[p].pc = "idle"
      /\ \A q \in Procs : q # p => proc'[q] = proc[q]
      /\ \A y \in Receipts : y # x => Untouched(y)
  BY ExitsType DEF Mine, Untouched
<1>3. proc'[p].replay = proc[p].replay
  BY <1>1, ExitFields DEF Exits, LoadFails, NotInCatalog, CopyRefused, Refuse, WriteCompleted,
     WriteFailed, Die
<1>4. InHand(p)'
  BY <1>2 DEF InHand, At
<1>5. ASSUME x \notin contested, NEW q \in Procs, ~At(q, "idle")', Mine(q)' = x
      PROVE  FALSE
  BY <1>1, <1>2, <1>5 DEF ReplayInv, OneReplay, At, Mine
<1>6. x \notin contested => InHand(p) /\ Alone(p) /\ Agrees(x)
  BY <1>1 DEF ArtifactInv, ReplayInv, Progress
<1>7. proc[p].replay \in Nat
  BY <1>1 DEF Process
<1>8. CASE LoadFails(p) \/ NotInCatalog(p) \/ CopyRefused(p) \/ Die(p)
  <2>1. UNCHANGED record /\ proc'[p].exit = 1
    BY <1>8, ExitFields DEF LoadFails, NotInCatalog, CopyRefused, Die, disk
  <2>2. x \notin contested /\ record[x].replay = proc[p].replay => record[x].status = "running"
    BY <1>1, <1>6 DEF InHand, Alone, Late
  <2>3. Left(p)'
    BY <1>2, <1>3, <1>5, <2>1, <2>2 DEF Left, StatusFor
  <2>4. x \notin contested => Agrees(x)'
    BY <1>2, <1>6, <2>1 DEF Agrees
  <2>. QED BY <1>1, <1>2, <1>3, <1>4, <2>1, <2>3, <2>4, OwnArtifacts
<1>9. CASE Refuse(p) \/ WriteCompleted(p) \/ WriteFailed(p)
  <2>1. record'[x].replay = proc[p].replay
    BY <1>1, <1>9 DEF Refuse, WriteCompleted, WriteFailed, WriteRecord, TypeOK
  <2>2. \/ At(p, "refuse") /\ record'[x].status = "failed" /\ proc'[p].exit = 5
        \/ At(p, "write_completed") /\ record'[x].status = "completed" /\ proc'[p].exit = 0
        \/ At(p, "write_failed") /\ record'[x].status = "failed" /\ proc'[p].exit = 2
    BY <1>1, <1>9, ExitFields DEF Refuse, WriteCompleted, WriteFailed, WriteRecord, TypeOK
  <2>3. x \notin contested => exitCode'[x] = proc'[p].exit
    BY <1>1, <1>2, <1>6, <2>2 DEF InHand
  <2>4. record'[x].status = StatusFor(proc'[p].exit)
    BY <2>2 DEF StatusFor
  <2>5. Left(p)'
    BY <1>2, <1>3, <1>5, <1>7, <2>1, <2>3, <2>4 DEF Left
  <2>6. x \notin contested => Agrees(x)'
    BY <1>2, <2>2, <2>3 DEF Agrees
  <2>. QED BY <1>1, <1>2, <1>3, <1>4, <2>1, <2>5, <2>6, OwnArtifacts
<1>. QED BY <1>8, <1>9 DEF Exits


\* A replay that begins is later than all that have ended, and has left
\* nothing yet when it is refused at once.
LEMMA StartArtifacts ==
  ASSUME TypeOK, TypeOK', ArtifactInv, NEW p \in Procs, NEW x \in Receipts, Start(p, x)
  PROVE  ArtifactInv'
<1>1. /\ proc'[p].replay = replays + 1 /\ replays' = replays + 1
      /\ \/ proc'[p].pc = "idle" /\ proc'[p].exit = 2
         \/ proc'[p].pc = "load"
      /\ Mine(p)' = x
      /\ \A q \in Procs : q # p => proc'[q] = proc[q]
  BY StartFields, StartState DEF Mine
<1>2. At(p, "idle") /\ UNCHANGED <<record, exitCode>>
      /\ contested' = IF Underway(x) THEN contested \cup {x} ELSE contested
  BY DEF Start, disk
<1>3. \A q \in Procs : q # p => /\ Mine(q)' = Mine(q)
                                /\ At(q, "idle")' <=> At(q, "idle")
                                /\ Ended(q)' <=> Ended(q)
  BY <1>1 DEF Mine, At, Ended
<1>4. replays \in Nat /\ \A q \in Procs : proc[q].replay \in Nat /\ proc[q].replay <= replays
  BY DEF TypeOK, Process, ArtifactInv, Numbered
<1>5. \A y \in Receipts : record[y].replay \in Nat /\ record[y].replay <= replays
  BY DEF TypeOK, Record, ArtifactInv, Numbered
<1>6. Numbered'
  <2>1. \A q \in Procs : ~At(q, "idle")' \/ Ended(q)' => proc'[q].replay > 0 /\ Mine(q)' \in Receipts
    BY <1>1, <1>3, <1>4 DEF ArtifactInv, Numbered
  <2>2. \A q \in Procs : proc'[q].replay <= replays'
    BY <1>1, <1>4
  <2>3. \A y \in Receipts : record'[y].replay <= replays'
    BY <1>1, <1>2, <1>4, <1>5
  <2>4. ASSUME NEW q \in Procs, NEW r \in Procs, q # r, proc'[q].replay = proc'[r].replay
        PROVE  proc'[q].replay = 0
    BY <1>1, <1>4, <2>4 DEF ArtifactInv, Numbered
  <2>. QED BY <2>1, <2>2, <2>3, <2>4 DEF Numbered
<1>7. contested \subseteq contested'
  BY <1>2
<1>8. ASSUME NEW q \in Procs, q # p PROVE InHand(q)'
  BY <1>1, <1>2, <1>3, <1>7, <1>8 DEF ArtifactInv, InHand, At
<1>9. ASSUME NEW q \in Procs, q # p PROVE Left(q)'
  <2>. SUFFICES ASSUME Ended(q), Mine(q) \notin contested PROVE Left(q)'
    BY <1>3, <1>7, <1>9 DEF Left
  <2>1. Left(q) /\ proc'[q] = proc[q] /\ Mine(q)' = Mine(q)
    BY <1>1, <1>3, <1>9 DEF ArtifactInv
  <2>2. ASSUME NEW r \in Procs, ~At(r, "idle")', Mine(r)' = Mine(q)
        PROVE  proc[q].replay < proc'[r].replay
    <3>1. CASE r = p
      BY <1>1, <1>4, <3>1
    <3>2. CASE r # p
      BY <1>1, <1>3, <2>1, <2>2, <3>2 DEF Left
    <3>. QED BY <3>1, <3>2
  <2>. QED BY <1>2, <2>1, <2>2 DEF Left, Ended, At
<1>10. InHand(p)'
  BY <1>1, <1>2, <1>4, <1>5 DEF InHand, At, Late
<1>11. Left(p)'
  <2>. SUFFICES ASSUME Ended(p)', x \notin contested' PROVE Left(p)'
    BY <1>1 DEF Left
  <2>1. proc'[p].exit = 2 /\ record'[x].replay # proc'[p].replay
    BY <1>1, <1>2, <1>4, <1>5 DEF Ended, At
  <2>2. ASSUME NEW r \in Procs, ~At(r, "idle")', Mine(r)' = x PROVE FALSE
    <3>1. r # p
      BY <2>2 DEF Ended, At
    <3>2. Underway(x)
      BY <1>3, <2>2, <3>1 DEF Underway, At
    <3>. QED BY <1>2, <3>2
  <2>. QED BY <1>1, <2>1, <2>2 DEF Left
<1>12. ASSUME NEW y \in Receipts, y \notin contested' PROVE Agrees(y)'
  BY <1>2, <1>7, <1>12 DEF ArtifactInv, Agrees
<1>. QED BY <1>6, <1>8, <1>9, <1>10, <1>11, <1>12 DEF ArtifactInv

\* A step that touches no process and no file changes nothing of this.
LEMMA StillArtifacts ==
  ASSUME ArtifactInv, UNCHANGED <<proc, record, exitCode, replays, contested>>
  PROVE  ArtifactInv'
<1>1. Numbered'
  BY DEF ArtifactInv, Numbered, At, Ended, Mine
<1>2. ASSUME NEW p \in Procs PROVE InHand(p)' /\ Left(p)'
  BY DEF ArtifactInv, InHand, Left, At, Ended, Mine
<1>3. ASSUME NEW x \in Receipts, x \notin contested PROVE Agrees(x)'
  BY <1>3 DEF ArtifactInv, Agrees
<1>. QED BY <1>1, <1>2, <1>3 DEF ArtifactInv

\* Before the first command nothing is numbered, written or left.
LEMMA ArtifactInit == Init => ArtifactInv
<1>. SUFFICES ASSUME Init PROVE ArtifactInv
  OBVIOUS
<1>1. ASSUME NEW p \in Procs
      PROVE  At(p, "idle") /\ proc[p].exit = Unset /\ proc[p].replay = 0
  <2>1. proc = [q \in Procs |-> Idle]
    BY DEF Init
  <2>2. proc[p] = Idle
    BY <2>1, Zenon
  <2>3. Idle.pc = "idle" /\ Idle.exit = Unset /\ Idle.replay = 0
    BY DEF Idle
  <2>. QED BY <2>2, <2>3, Zenon DEF At
<1>2. \A x \in Receipts : record[x].status = "absent" /\ record[x].replay = 0
  BY DEF Init, NoRecord
<1>3. replays = 0
  BY DEF Init
<1>. QED BY <1>1, <1>2, <1>3 DEF ArtifactInv, Numbered, InHand, Left, Ended, Agrees

\* Every step preserves it.
LEMMA ArtifactNext == TypeOK /\ ReplayInv /\ ArtifactInv /\ [Next]_vars => ArtifactInv'
<1>. SUFFICES ASSUME TypeOK, ReplayInv, ArtifactInv, [Next]_vars PROVE ArtifactInv'
  OBVIOUS
<1>0. TypeOK'
  BY TypeNext
<1>1. CASE SandboxStep \/ Edit \/ Corrupt \/ UNCHANGED vars
  <2>1. UNCHANGED <<proc, record, exitCode, replays, contested>>
    BY <1>1 DEF SandboxStep, Edit, Corrupt, vars, environment, disk
  <2>. QED BY <2>1, StillArtifacts
<1>2. ASSUME NEW p \in Procs, NEW x \in Receipts, Start(p, x) PROVE ArtifactInv'
  BY <1>0, <1>2, StartArtifacts
<1>3. ASSUME NEW p \in Procs, Step(p) \/ Die(p) PROVE ArtifactInv'
  BY <1>0, <1>3, StepKinds, MovesArtifacts, WritesArtifacts, ExitsArtifacts
<1>. QED BY <1>1, <1>2, <1>3 DEF Next

(***************************************************************************)
(* For every number of processes and replays, exit_code.txt and the final   *)
(* record of a receipt agree, unless two processes replayed it at once:     *)
(* replay_receipt writes them one after the other, and no earlier replay's  *)
(* code is left under a later one's record.                                 *)
(***************************************************************************)
THEOREM ExitCodeSound == Spec => []ExitCodeAgrees
<1>1. Spec => [](TypeOK /\ ReplayInv /\ ArtifactInv)
  BY TypeInit, ReplayInit, ArtifactInit, TypeNext, ReplayNext, ArtifactNext, PTL DEF Spec
<1>2. ArtifactInv => ExitCodeAgrees
  BY DEF ArtifactInv, Agrees, ExitCodeAgrees
<1>. QED BY <1>1, <1>2, PTL

(***************************************************************************)
(* For every number of processes and replays, the exit status of cmd_replay *)
(* is the one that its record and exit_code.txt carry, as long as they are  *)
(* its own, and what it ended with 0 or 5 is on record until a later replay *)
(* of the receipt writes, unless two processes replayed it at once.         *)
(***************************************************************************)
THEOREM ExitStatusSound == Spec => []ExitStatusMatchesArtifacts
<1>1. Spec => [](TypeOK /\ ReplayInv /\ ArtifactInv)
  BY TypeInit, ReplayInit, ArtifactInit, TypeNext, ReplayNext, ArtifactNext, PTL DEF Spec
<1>2. ArtifactInv => ExitStatusMatchesArtifacts
  <2>1. ASSUME NEW p \in Procs, Left(p), Ended(p), Mine(p) \notin contested
        PROVE  LET x == Mine(p)  own == record[x].replay = proc[p].replay IN
               /\ proc[p].exit \in {0, 5} => record[x].replay >= proc[p].replay
               /\ own => record[x].status = StatusFor(proc[p].exit)
               /\ own /\ proc[p].exit # 1 => exitCode[x] = proc[p].exit
    BY <2>1 DEF Left
  <2>. QED BY <2>1 DEF ArtifactInv, ExitStatusMatchesArtifacts, Ended, At, StatusFor
<1>. QED BY <1>1, <1>2, PTL
=============================================================================
