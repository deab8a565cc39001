--------------------------- MODULE EvidenceLedger ---------------------------
(***************************************************************************)
(* What a sandbox run promises to whoever reads the sandbox directory, with *)
(* no word about how files get there.  A run is opened once.  While it is   *)
(* open, evidence is added to it, one failure case at a time, and evidence  *)
(* once added is never changed.  A run ends published, naming the one       *)
(* source tree on which all of its evidence was observed, or refused, and   *)
(* then it has no evidence at all.                                          *)
(***************************************************************************)
CONSTANTS RunIds, Cases, Trees, NoSubject

VARIABLES
  standing,  \* of each run: "none", "open", "published" or "refused"
  evidence,  \* of each run: the tree each case on record was observed on
  subject    \* of each published run: the tree it vouches for

ledger == <<standing, evidence, subject>>

LedgerInit ==
  /\ standing = [r \in RunIds |-> "none"]
  /\ evidence = [r \in RunIds |-> [c \in {} |-> NoSubject]]
  /\ subject = [r \in RunIds |-> NoSubject]

Open(r) ==
  /\ standing[r] = "none"
  /\ standing' = [standing EXCEPT ![r] = "open"]
  /\ UNCHANGED <<evidence, subject>>

AddEvidence(r, c) ==
  /\ standing[r] = "open"
  /\ c \notin DOMAIN evidence[r]
  /\ \E t \in Trees :
       evidence' = [evidence EXCEPT ![r] =
                      [d \in DOMAIN evidence[r] \cup {c} |->
                         IF d = c THEN t ELSE evidence[r][d]]]
  /\ UNCHANGED <<standing, subject>>

Publish(r) ==
  /\ standing[r] = "open"
  /\ \E t \in Trees :
       /\ \A c \in DOMAIN evidence[r] : evidence[r][c] = t
       /\ subject' = [subject EXCEPT ![r] = t]
  /\ standing' = [standing EXCEPT ![r] = "published"]
  /\ UNCHANGED evidence

Refuse(r) ==
  /\ standing[r] = "open"
  /\ DOMAIN evidence[r] = {}
  /\ standing' = [standing EXCEPT ![r] = "refused"]
  /\ UNCHANGED <<evidence, subject>>

LedgerNext ==
  \E r \in RunIds :
    \/ Open(r)
    \/ \E c \in Cases : AddEvidence(r, c)
    \/ Publish(r)
    \/ Refuse(r)

LedgerSpec == LedgerInit /\ [][LedgerNext]_ledger

(***************************************************************************)
(* Published or refused is for good: nothing is added to the evidence of a  *)
(* run that has ended, nothing is taken away, and it vouches for no other   *)
(* tree than before.                                                        *)
(***************************************************************************)
EndedRunsStay ==
  [][\A r \in RunIds : standing[r] \in {"published", "refused"} =>
       standing'[r] = standing[r] /\ evidence'[r] = evidence[r] /\ subject'[r] = subject[r]]_ledger
=============================================================================
