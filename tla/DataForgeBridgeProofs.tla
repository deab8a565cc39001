------------------------- MODULE DataForgeBridgeProofs -------------------------
(***************************************************************************)
(* Machine-checked proofs about the DataForge client, for any number of     *)
(* sandbox runs beside it, of pushes and of late requests.  The client      *)
(* writes nothing into the sandbox directory, so what is proved of          *)
(* SandboxRun holds beside it.                                              *)
(***************************************************************************)
EXTENDS DataForgeBridge, FreshRunProofs

\* A step of the composition is a step of the sandbox or none.
LEMMA SandboxStep == [BridgeNext]_allVars => [Next]_vars
BY DEF BridgeNext, allVars

(***************************************************************************)
(* The client does not disturb the sandbox: beside it, the directory        *)
(* behaves as it does alone.                                                *)
(***************************************************************************)
THEOREM ClientReadsOnly == BridgeSpec => Spec
<1>1. BridgeInit => Init
  BY DEF BridgeInit
<1>. QED BY <1>1, SandboxStep, PTL DEF BridgeSpec, Spec

-----------------------------------------------------------------------------
(* Types.                                                                   *)

\* What the client holds before it has read anything.
LEMMA NoPushType == NoPush \in Push
<1>1. NoReceipts \in Parsed
  BY ConstantTypes DEF Parsed, NoReceipts, NoReceipt
<1>. QED BY <1>1, ConstantTypes DEF NoPush, Push

\* A bundle is made of requests.
LEMMA BundleType == push \in Push /\ push.run \in RunIds => Bundle \subseteq Request
<1>. SUFFICES ASSUME push \in Push, push.run \in RunIds PROVE Bundle \subseteq Request
  OBVIOUS
<1>1. \A c \in Cases : push.got[c] \in Receipt
  BY DEF Push, Parsed, Receipts
<1>2. push.report \in Report
  BY DEF Push
<1>. QED BY <1>1, <1>2 DEF Bundle, Request, Harvested

\* The service stays well typed when it keeps a well-typed request.
LEMMA KeepType ==
  ASSUME stored \in Store, NEW q \in Request, Keep(q),
         q.kind = "receipt" => q.receipt.state # "torn"
  PROVE  stored' \in Store
<1>1. CASE q.kind = "run"
  <2>1. q.run \in RunIds
    BY <1>1 DEF Request
  <2>. QED BY <1>1, <2>1 DEF Keep, Store
<1>2. CASE q.kind = "case"
  <2>1. q.case \in Cases
    BY <1>2 DEF Request
  <2>. QED BY <1>2, <2>1 DEF Keep, Store
<1>3. CASE q.kind = "receipt"
  <2>1. q.run \in RunIds /\ q.case \in Cases /\ q.receipt \in Receipt
    BY <1>3 DEF Request
  <2>2. stored.receipts \in [RunIds -> Parsed]
    BY DEF Store
  <2>3. [stored.receipts[q.run] EXCEPT ![q.case] = q.receipt] \in Parsed
    BY <1>3, <2>1, <2>2 DEF Parsed, Receipts
  <2>. QED BY <1>3, <2>1, <2>2, <2>3 DEF Keep, Store
<1>4. CASE q.kind = "report"
  <2>1. q.run \in RunIds /\ q.report \in Report
    BY <1>4 DEF Request
  <2>. QED BY <1>4, <2>1 DEF Keep, Store
<1>. QED BY <1>1, <1>2, <1>3, <1>4 DEF Request

\* The types, and what the service's types rest on: nothing torn is sent.
BridgeTypeInv ==
  /\ BridgeTypeOK
  /\ push.pc # "idle" => push.run \in RunIds
  /\ \A q \in UnderWay : q.kind = "receipt" => q.receipt.state # "torn"

\* One case per thing the client does by itself.
LEMMA ClientType ==
  ASSUME BridgeTypeInv, ClientStep, UNCHANGED vars
  PROVE  BridgeTypeInv'
<1>. USE DEF BridgeTypeInv, BridgeTypeOK, UnderWay
<1>1. TypeOK'
  BY DEF TypeOK, vars, environment, disk
<1>2. CASE ListReceipts \/ ListReports
  <2>1. PICK pc \in {"filter", "reports"}, files \in SUBSET (RunIds \X Cases),
             reports \in SUBSET RunIds :
          /\ push' = [push EXCEPT !.pc = pc, !.files = files, !.reports = reports]
          /\ UNCHANGED <<pushes, late, stored>> /\ push.pc # "idle"
    <3>1. CASE ListReceipts
      <4>. DEFINE listed == {f \in RunIds \X Cases : receipts[f[1]][f[2]].state # "absent"}
      <4>1. push' = [push EXCEPT !.pc = "filter", !.files = listed]
        BY <3>1 DEF ListReceipts
      <4>2. listed \in SUBSET (RunIds \X Cases)
        OBVIOUS
      <4>. HIDE DEF listed
      <4>3. push' = [push EXCEPT !.pc = "filter", !.files = listed, !.reports = push.reports]
        BY <4>1 DEF Push
      <4>. QED BY <3>1, <4>2, <4>3 DEF ListReceipts, Pushing, Push
    <3>2. CASE ListReports
      <4>. DEFINE listed == {r \in RunIds : report[r].state # "absent"}
      <4>1. push' = [push EXCEPT !.pc = "reports", !.files = push.files, !.reports = listed]
        BY <3>2 DEF ListReports, Push
      <4>. QED BY <3>2, <4>1 DEF ListReports, Pushing, Push
    <3>. QED BY <1>2, <3>1, <3>2
  <2>. QED BY <1>1, <2>1 DEF Push
<1>3. CASE RaiseOnReceipt \/ RaiseOnReport
  BY <1>1, <1>3 DEF RaiseOnReceipt, RaiseOnReport, Raise, Pushing, Push
<1>4. CASE FilterReceipt
  <2>1. PICK f \in push.files :
          push' = IF f[1] = push.run THEN [push EXCEPT !.match = {f}]
                  ELSE [push EXCEPT !.files = @ \ {f}]
    BY <1>4 DEF FilterReceipt
  <2>. QED BY <1>1, <1>4, <2>1 DEF FilterReceipt, Pushing, Push
<1>5. CASE ReadReceipt
  <2>1. PICK f \in push.match :
          /\ Readable(f)
          /\ push' = [push EXCEPT !.match = {}, !.files = @ \ {f},
                                  !.got = [@ EXCEPT ![f[2]] = receipts[f[1]][f[2]]]]
    BY <1>5 DEF ReadReceipt
  <2>2. f[1] \in RunIds /\ f[2] \in Cases
    BY <2>1 DEF Push
  <2>3. receipts[f[1]][f[2]] \in Receipt /\ receipts[f[1]][f[2]].state = "sealed"
    BY <2>1, <2>2 DEF Readable, TypeOK, Receipts
  <2>4. [push.got EXCEPT ![f[2]] = receipts[f[1]][f[2]]] \in Parsed
    BY <2>2, <2>3 DEF Push, Parsed, Receipts
  <2>. QED BY <1>1, <1>5, <2>1, <2>4 DEF ReadReceipt, Pushing, Push
<1>6. CASE ReadReport
  <2>1. PICK r \in push.reports :
          push' = IF r = push.run THEN [push EXCEPT !.reports = {}, !.report = report[r]]
                  ELSE [push EXCEPT !.reports = @ \ {r}]
    BY <1>6 DEF ReadReport
  <2>2. report[r] \in Report
    BY <2>1 DEF Push, TypeOK
  <2>. QED BY <1>1, <1>6, <2>1, <2>2 DEF ReadReport, Pushing, Push
<1>7. CASE StartPosting
  <2>1. push.run \in RunIds
    BY <1>7 DEF StartPosting, Pushing
  <2>2. Bundle \subseteq Request
    BY <2>1, BundleType
  <2>3. \A q \in Bundle : q.kind = "receipt" => q.receipt.state # "torn"
    BY <2>1 DEF Bundle, Harvested, Push, Parsed
  <2>4. push' = [push EXCEPT !.pc = "post", !.todo = Bundle] /\ UNCHANGED <<pushes, late, stored>>
    BY <1>7 DEF StartPosting
  <2>5. push' \in Push /\ push'.run = push.run /\ push'.todo = Bundle
    BY <2>2, <2>4 DEF Push
  <2>. QED BY <1>1, <2>1, <2>3, <2>4, <2>5
<1>8. CASE TransportFailure
  <2>1. PICK q \in push.todo :
          /\ push' = [push EXCEPT !.todo = @ \ {q}, !.ok = FALSE]
          /\ late' = IF Cardinality(late) < MaxLate THEN late \cup {q} ELSE late
    BY <1>8 DEF TransportFailure, NextRequests
  <2>2. push' \in Push /\ push'.todo \subseteq push.todo /\ push'.run = push.run
          /\ push'.pc = push.pc
    BY <2>1 DEF Push
  <2>3. late' \subseteq late \cup push.todo /\ late' \subseteq Request
    BY <2>1 DEF Push
  <2>. QED BY <1>1, <1>8, <2>2, <2>3 DEF TransportFailure
<1>9. CASE Return
  BY <1>1, <1>9 DEF Return, Pushing, Push
<1>. QED BY <1>2, <1>3, <1>4, <1>5, <1>6, <1>7, <1>8, <1>9 DEF ClientStep

\* One case per thing the service does.
LEMMA ServiceType ==
  ASSUME BridgeTypeInv, ServiceStep, UNCHANGED vars
  PROVE  BridgeTypeInv'
<1>. USE DEF BridgeTypeInv, BridgeTypeOK, UnderWay
<1>1. TypeOK'
  BY DEF TypeOK, vars, environment, disk
<1>2. CASE Accepted
  <2>1. PICK q \in push.todo : Keep(q) /\ push' = [push EXCEPT !.todo = @ \ {q}]
    BY <1>2 DEF Accepted, NextRequests
  <2>2. q \in Request
    BY <2>1 DEF Push
  <2>3. stored' \in Store
    BY <2>1, <2>2, KeepType
  <2>4. push' \in Push /\ push'.todo \subseteq push.todo /\ push'.run = push.run
          /\ push'.pc = push.pc
    BY <2>1 DEF Push
  <2>. QED BY <1>1, <1>2, <2>3, <2>4 DEF Accepted
<1>3. CASE Rejected
  <2>1. PICK q \in push.todo : push' = [push EXCEPT !.todo = @ \ {q}, !.ok = FALSE]
    BY <1>3 DEF Rejected, NextRequests
  <2>2. push' \in Push /\ push'.todo \subseteq push.todo /\ push'.run = push.run
          /\ push'.pc = push.pc
    BY <2>1 DEF Push
  <2>. QED BY <1>1, <1>3, <2>2 DEF Rejected
<1>4. CASE ArriveLate
  <2>1. PICK q \in late : late' = late \ {q} /\ (Keep(q) \/ UNCHANGED stored)
    BY <1>4 DEF ArriveLate
  <2>2. q \in Request
    BY <2>1
  <2>3. stored' \in Store
    BY <2>1, <2>2, KeepType
  <2>. QED BY <1>1, <1>4, <2>1, <2>3 DEF ArriveLate
<1>. QED BY <1>2, <1>3, <1>4 DEF ServiceStep

\* The service has nothing yet.
LEMMA BridgeTypeInit == BridgeInit => BridgeTypeInv
<1>. SUFFICES ASSUME BridgeInit PROVE BridgeTypeInv
  OBVIOUS
<1>1. TypeOK
  BY TypeInit DEF BridgeInit
<1>2. NoReceipts \in Parsed
  BY ConstantTypes DEF Parsed, NoReceipts, NoReceipt
<1>3. stored \in Store
  BY <1>2, ConstantTypes DEF BridgeInit, Store
<1>4. push = NoPush /\ pushes = 0 /\ late = {} /\ push.todo = {} /\ push.pc = "idle"
  BY DEF BridgeInit, NoPush
<1>. QED BY <1>1, <1>3, <1>4, NoPushType DEF BridgeTypeInv, BridgeTypeOK, UnderWay

\* Every step keeps the types.
LEMMA BridgeTypeNext == BridgeTypeInv /\ [BridgeNext]_allVars => BridgeTypeInv'
<1>. SUFFICES ASSUME BridgeTypeInv, [BridgeNext]_allVars PROVE BridgeTypeInv'
  OBVIOUS
<1>1. TypeOK'
  BY SandboxStep, TypeNext DEF BridgeTypeInv, BridgeTypeOK
<1>2. CASE UNCHANGED bridge
  BY <1>1, <1>2 DEF bridge, BridgeTypeInv, BridgeTypeOK, UnderWay
<1>3. ASSUME NEW r \in RunIds, BeginPush(r) PROVE BridgeTypeInv'
  <2>1. runFile[r] \in RunRecord
    BY DEF BridgeTypeInv, BridgeTypeOK, TypeOK
  <2>2. /\ pushes' = pushes + 1 /\ UNCHANGED <<late, stored>>
        /\ push' \in {[NoPush EXCEPT !.run = r, !.outcome = "raised"],
                      [NoPush EXCEPT !.run = r, !.record = runFile[r], !.pc = "list"]}
    BY <1>3 DEF BeginPush
  <2>3. push' \in Push /\ push'.run = r /\ push'.todo = {}
    BY <2>1, <2>2, NoPushType DEF NoPush, Push
  <2>. QED BY <1>1, <2>2, <2>3 DEF BridgeTypeInv, BridgeTypeOK, UnderWay
<1>. QED BY <1>2, <1>3, ClientType, ServiceType DEF BridgeNext, allVars

(***************************************************************************)
(* Every variable of the composition keeps its type.                        *)
(***************************************************************************)
THEOREM BridgeTypes == BridgeSpec => []BridgeTypeOK
<1>1. BridgeTypeInv => BridgeTypeOK
  BY DEF BridgeTypeInv
<1>. QED BY <1>1, BridgeTypeInit, BridgeTypeNext, PTL DEF BridgeSpec

-----------------------------------------------------------------------------
(* What the service has is what is on disk.                                 *)

\* The client holds, and sends, only receipts that are sealed on disk.
MirrorInv ==
  /\ ServiceMirrorsDisk
  /\ \A c \in Cases : push.got[c] # NoReceipt =>
       /\ push.run \in RunIds
       /\ Sealed(push.run, c) /\ push.got[c] = receipts[push.run][c]
  /\ \A f \in push.match : f[1] = push.run

\* A sealed receipt stays sealed and keeps its contents.
LEMMA SealedStays ==
  ASSUME FreshInv, [Next]_vars, NEW r \in RunIds, NEW c \in Cases, Sealed(r, c)
  PROVE  receipts'[r][c] = receipts[r][c] /\ Sealed(r, c)'
BY SealedKept DEF Sealed

\* A receipt the service has after a step is one it had or the one it was sent.
LEMMA KeepEffect ==
  ASSUME stored \in Store, NEW q \in Request, Keep(q), NEW r \in RunIds, NEW c \in Cases
  PROVE  \/ stored'.receipts[r][c] = stored.receipts[r][c]
         \/ /\ q.kind = "receipt" /\ q.run = r /\ q.case = c
            /\ stored'.receipts[r][c] = q.receipt
<1>1. CASE q.kind \in {"run", "case", "report"}
  BY <1>1 DEF Keep, Store
<1>2. CASE q.kind = "receipt"
  <2>1. stored' = [stored EXCEPT !.receipts[q.run][q.case] = q.receipt]
    BY <1>2 DEF Keep
  <2>2. stored.receipts \in [RunIds -> [Cases -> Receipt]]
    BY DEF Store, Parsed, Receipts
  <2>3. q.run \in RunIds /\ q.case \in Cases
    BY <1>2 DEF Request
  <2>. QED BY <1>2, <2>1, <2>2, <2>3 DEF Store
<1>. QED BY <1>1, <1>2 DEF Request

\* The sandbox goes on while a push is under way.
LEMMA MirrorBesideSandbox ==
  ASSUME FreshInv, BridgeTypeInv, MirrorInv, [Next]_vars, UNCHANGED bridge
  PROVE  MirrorInv'
<1>1. ASSUME NEW r \in RunIds, NEW c \in Cases, stored'.receipts[r][c] # NoReceipt
      PROVE  Sealed(r, c)' /\ stored'.receipts[r][c] = receipts'[r][c]
  BY <1>1, SealedStays DEF MirrorInv, ServiceMirrorsDisk, bridge
<1>2. ASSUME NEW q \in UnderWay, q.kind = "receipt"
      PROVE  Sealed(q.run, q.case)' /\ q.receipt = receipts'[q.run][q.case]
  <2>1. q.run \in RunIds /\ q.case \in Cases
    BY <1>2 DEF UnderWay, BridgeTypeInv, BridgeTypeOK, Push, Request
  <2>2. Sealed(q.run, q.case) /\ q.receipt = receipts[q.run][q.case]
    BY <1>2 DEF MirrorInv, ServiceMirrorsDisk
  <2>. QED BY <2>1, <2>2, SealedStays DEF Sealed
<1>3. UnderWay' = UnderWay /\ push' = push
  BY DEF UnderWay, bridge
<1>4. ASSUME NEW c \in Cases, push.got[c] # NoReceipt
      PROVE  Sealed(push.run, c)' /\ push.got[c] = receipts'[push.run][c]
  <2>1. push.run \in RunIds /\ Sealed(push.run, c) /\ push.got[c] = receipts[push.run][c]
    BY <1>4 DEF MirrorInv
  <2>. QED BY <1>3, <2>1, SealedStays DEF Sealed
<1>. QED BY <1>1, <1>2, <1>3, <1>4 DEF MirrorInv, ServiceMirrorsDisk, Sealed

\* The client reads a receipt when it is sealed, and sends what it read.
LEMMA MirrorClient ==
  ASSUME BridgeTypeInv, MirrorInv, ClientStep, UNCHANGED vars
  PROVE  MirrorInv'
<1>0. receipts' = receipts /\ push \in Push
  BY DEF vars, disk, BridgeTypeInv, BridgeTypeOK
<1>1. CASE /\ UNCHANGED stored /\ UnderWay' \subseteq UnderWay
           /\ push'.got = push.got /\ push'.run = push.run
           /\ \A f \in push'.match : f[1] = push.run
  BY <1>0, <1>1 DEF MirrorInv, ServiceMirrorsDisk, Sealed
<1>2. CASE ListReceipts \/ ListReports \/ RaiseOnReceipt \/ RaiseOnReport \/ Return
  <2>1. /\ UNCHANGED <<stored, late>> /\ push'.todo = push.todo /\ push'.match = push.match
        /\ push'.got = push.got /\ push'.run = push.run
    BY <1>0, <1>2 DEF ListReceipts, ListReports, RaiseOnReceipt, RaiseOnReport, Raise, Return, Push
  <2>. QED BY <1>1, <2>1 DEF UnderWay, MirrorInv
<1>3. CASE FilterReceipt
  <2>1. PICK f \in push.files :
          push' = IF f[1] = push.run THEN [push EXCEPT !.match = {f}]
                  ELSE [push EXCEPT !.files = @ \ {f}]
    BY <1>3 DEF FilterReceipt
  <2>2. /\ UNCHANGED <<stored, late>> /\ push'.todo = push.todo
        /\ push'.got = push.got /\ push'.run = push.run
        /\ \A g \in push'.match : g \in push.match \/ g[1] = push.run
    BY <1>0, <1>3, <2>1 DEF FilterReceipt, Push
  <2>. QED BY <1>1, <2>2 DEF UnderWay, MirrorInv
<1>4. CASE ReadReceipt
  <2>1. PICK f \in push.match :
          /\ Readable(f)
          /\ push' = [push EXCEPT !.match = {}, !.files = @ \ {f},
                                  !.got = [@ EXCEPT ![f[2]] = receipts[f[1]][f[2]]]]
    BY <1>4 DEF ReadReceipt
  <2>2. f[1] \in RunIds /\ f[2] \in Cases /\ f[1] = push.run
    BY <1>0, <2>1 DEF Push, MirrorInv
  <2>3. /\ UNCHANGED <<stored, late>> /\ push'.todo = push.todo /\ push'.run = push.run
        /\ push'.match = {}
        /\ push'.got = [push.got EXCEPT ![f[2]] = receipts[f[1]][f[2]]]
    BY <1>0, <1>4, <2>1 DEF ReadReceipt, Push
  <2>4. ASSUME NEW c \in Cases, push'.got[c] # NoReceipt
        PROVE  /\ push.run \in RunIds
               /\ Sealed(push.run, c) /\ push'.got[c] = receipts[push.run][c]
    <3>1. push.got \in [Cases -> Receipt]
      BY <1>0 DEF Push, Parsed, Receipts
    <3>2. CASE c = f[2]
      BY <2>1, <2>2, <2>3, <3>1, <3>2 DEF Readable, Sealed
    <3>3. CASE c # f[2]
      BY <2>2, <2>3, <2>4, <3>1, <3>3 DEF MirrorInv
    <3>. QED BY <3>2, <3>3
  <2>5. UnderWay' = UnderWay
    BY <2>3 DEF UnderWay
  <2>. QED BY <1>0, <2>3, <2>4, <2>5 DEF MirrorInv, ServiceMirrorsDisk, Sealed
<1>5. CASE ReadReport
  <2>1. /\ UNCHANGED <<stored, late>> /\ push'.todo = push.todo /\ push'.match = push.match
        /\ push'.got = push.got /\ push'.run = push.run
    BY <1>0, <1>5 DEF ReadReport, Push
  <2>. QED BY <1>1, <2>1 DEF UnderWay, MirrorInv
<1>6. CASE StartPosting
  <2>1. /\ UNCHANGED <<stored, late>> /\ push'.todo = Bundle /\ push'.match = push.match
        /\ push'.got = push.got /\ push'.run = push.run
    BY <1>0, <1>6 DEF StartPosting, Push
  <2>2. ASSUME NEW q \in Bundle, q.kind = "receipt"
        PROVE  Sealed(q.run, q.case) /\ q.receipt = receipts[q.run][q.case]
    BY <2>2 DEF Bundle, Harvested, MirrorInv
  <2>. QED BY <1>0, <2>1, <2>2 DEF MirrorInv, ServiceMirrorsDisk, Sealed, UnderWay
<1>7. CASE TransportFailure
  <2>1. PICK q \in push.todo :
          /\ push' = [push EXCEPT !.todo = @ \ {q}, !.ok = FALSE]
          /\ late' = IF Cardinality(late) < MaxLate THEN late \cup {q} ELSE late
    BY <1>7 DEF TransportFailure, NextRequests
  <2>2. /\ push'.todo = push.todo \ {q} /\ push'.match = push.match
        /\ push'.got = push.got /\ push'.run = push.run
    BY <1>0, <2>1 DEF Push
  <2>3. UnderWay' \subseteq UnderWay
    BY <2>1, <2>2 DEF UnderWay
  <2>. QED BY <1>1, <1>7, <2>2, <2>3 DEF TransportFailure, MirrorInv
<1>. QED BY <1>2, <1>3, <1>4, <1>5, <1>6, <1>7 DEF ClientStep

\* What the service takes in was under way, in time or late.
LEMMA MirrorService ==
  ASSUME BridgeTypeInv, MirrorInv, ServiceStep, UNCHANGED vars
  PROVE  MirrorInv'
<1>0. receipts' = receipts /\ push \in Push /\ stored \in Store /\ late \subseteq Request
  BY DEF vars, disk, BridgeTypeInv, BridgeTypeOK
<1>1. PICK q \in UnderWay : Keep(q) \/ UNCHANGED stored
  BY DEF ServiceStep, Accepted, Rejected, ArriveLate, NextRequests, UnderWay
<1>2. /\ UnderWay' \subseteq UnderWay /\ push'.match = push.match
      /\ push'.got = push.got /\ push'.run = push.run
  <2>1. CASE Accepted \/ Rejected
    BY <1>0, <2>1 DEF Accepted, Rejected, UnderWay, Push
  <2>2. CASE ArriveLate
    BY <2>2 DEF ArriveLate, UnderWay
  <2>. QED BY <2>1, <2>2 DEF ServiceStep
<1>3. ASSUME NEW r \in RunIds, NEW c \in Cases, stored'.receipts[r][c] # NoReceipt
      PROVE  Sealed(r, c) /\ stored'.receipts[r][c] = receipts[r][c]
  <2>1. q \in Request
    BY <1>0 DEF UnderWay, Push
  <2>2. \/ stored'.receipts[r][c] = stored.receipts[r][c]
        \/ /\ q.kind = "receipt" /\ q.run = r /\ q.case = c
           /\ stored'.receipts[r][c] = q.receipt
    BY <1>0, <1>1, <2>1, KeepEffect
  <2>. QED BY <1>3, <2>2 DEF MirrorInv, ServiceMirrorsDisk
<1>. QED BY <1>0, <1>2, <1>3 DEF MirrorInv, ServiceMirrorsDisk, Sealed

\* Nothing is sent and nothing is stored yet.
LEMMA MirrorInit == BridgeInit => MirrorInv
<1>. SUFFICES ASSUME BridgeInit PROVE MirrorInv
  OBVIOUS
<1>1. push.got = NoReceipts /\ push.match = {} /\ UnderWay = {}
  BY DEF BridgeInit, NoPush, UnderWay
<1>2. \A r \in RunIds : stored.receipts[r] = NoReceipts
  BY DEF BridgeInit
<1>. QED BY <1>1, <1>2 DEF MirrorInv, ServiceMirrorsDisk, NoReceipts

\* Every step keeps the service a mirror of the disk.
LEMMA MirrorNext ==
  ASSUME FreshInv, BridgeTypeInv, MirrorInv, [BridgeNext]_allVars
  PROVE  MirrorInv'
<1>1. ASSUME NEW r \in RunIds, BeginPush(r), UNCHANGED vars PROVE MirrorInv'
  <2>1. push'.got = NoReceipts /\ push'.match = {} /\ push'.todo = {} /\ UNCHANGED <<late, stored>>
    BY <1>1 DEF BeginPush, NoPush
  <2>2. UnderWay' \subseteq UnderWay /\ receipts' = receipts
    BY <1>1, <2>1 DEF UnderWay, vars, disk
  <2>. QED BY <2>1, <2>2 DEF MirrorInv, ServiceMirrorsDisk, NoReceipts, Sealed
<1>. QED BY <1>1, MirrorBesideSandbox, MirrorClient, MirrorService, SandboxStep
         DEF BridgeNext, allVars

(***************************************************************************)
(* With run ids that are never used twice, every receipt the service has or *)
(* can still get is the sealed file on disk: a retry of a push is never     *)
(* answered with a conflict of hashes.                                      *)
(***************************************************************************)
THEOREM ServiceMirrors ==
  ASSUME Reuse = "fresh"
  PROVE  BridgeSpec => []ServiceMirrorsDisk
<1>1. BridgeInit => FreshInv /\ BridgeTypeInv /\ MirrorInv
  BY FreshInit, BridgeTypeInit, MirrorInit DEF BridgeInit
<1>2. FreshInv /\ BridgeTypeInv /\ MirrorInv /\ [BridgeNext]_allVars
        => (FreshInv /\ BridgeTypeInv /\ MirrorInv)'
  BY SandboxStep, FreshNext, BridgeTypeNext, MirrorNext
<1>3. MirrorInv => ServiceMirrorsDisk
  BY DEF MirrorInv
<1>. QED BY <1>1, <1>2, <1>3, PTL DEF BridgeSpec

-----------------------------------------------------------------------------
(* What a push that says all_accepted has left behind.                      *)

\* Where the receipt of a case of the plan is, or that it was not accepted.
OnItsWay(c) ==
  /\ push.pc = "filter" => <<push.run, c>> \in push.files \/ push.got[c] # NoReceipt
  /\ push.pc = "reports" => push.got[c] # NoReceipt
  /\ push.pc = "post" \/ push.outcome = "summary" =>
       \/ ~push.ok
       \/ \E q \in push.todo : q.kind = "receipt" /\ q.case = c
       \/ stored.receipts[push.run][c] # NoReceipt

\* The record and the report are still what the client read.
AsRead ==
  /\ push.record.status = "completed" =>
       push.run \in RunIds /\ runFile[push.run] = push.record
  /\ push.report.state = "written" =>
       push.run \in RunIds /\ report[push.run] = push.report

BundleInv ==
  /\ AsRead
  /\ push.record.status = "completed" => \A c \in push.record.plan : OnItsWay(c)
  /\ push.pc # "idle" => push.outcome = "none"
  /\ push.outcome = "summary" => push.todo = {}
  /\ \A q \in push.todo : q.kind = "receipt" => q.run = push.run

\* The sandbox goes on while a push is under way.
LEMMA BundleBesideSandbox ==
  ASSUME FreshInv, BundleInv, [Next]_vars, UNCHANGED bridge
  PROVE  BundleInv'
<1>1. push' = push /\ stored' = stored
  BY DEF bridge
<1>2. AsRead'
  BY <1>1, CompletedKept, ReportKept DEF BundleInv, AsRead
<1>. QED BY <1>1, <1>2 DEF BundleInv, OnItsWay

\* The client loses no receipt of the plan on the way from the directory.
LEMMA BundleClient ==
  ASSUME FreshInv, BridgeTypeInv, MirrorInv, BundleInv, ClientStep, UNCHANGED vars
  PROVE  BundleInv'
<1>0. /\ UNCHANGED <<runFile, receipts, report>> /\ push \in Push
      /\ push.record.status = "completed" => push.record.plan \subseteq Cases
  BY DEF vars, disk, BridgeTypeInv, BridgeTypeOK, Push, RunRecord
<1>1. CASE ListReceipts
  <2>. DEFINE listed == {f \in RunIds \X Cases : receipts[f[1]][f[2]].state # "absent"}
  <2>1. /\ push' = [push EXCEPT !.pc = "filter", !.files = listed] /\ push.pc = "list"
        /\ UNCHANGED stored
    BY <1>1 DEF ListReceipts, Pushing
  <2>2. ASSUME push.record.status = "completed", NEW c \in push.record.plan
        PROVE  <<push.run, c>> \in listed
    <3>1. push.run \in RunIds /\ c \in Cases /\ c \in Plan(push.run)
            /\ runFile[push.run].status = "completed"
      BY <1>0, <2>2 DEF BundleInv, AsRead, Plan
    <3>2. receipts[push.run][c].state = "sealed"
      BY <3>1 DEF FreshInv, OrderInv, CompletedRunHasItsEvidence, Sealed
    <3>. QED BY <3>1, <3>2
  <2>. HIDE DEF listed
  <2>3. /\ push'.pc = "filter" /\ push'.files = listed /\ push'.run = push.run
        /\ push'.record = push.record /\ push'.report = push.report
        /\ push'.outcome = push.outcome /\ push'.todo = push.todo /\ push'.got = push.got
    BY <1>0, <2>1 DEF Push
  <2>. QED BY <1>0, <2>1, <2>2, <2>3 DEF BundleInv, AsRead, OnItsWay
<1>2. CASE RaiseOnReceipt \/ RaiseOnReport
  <2>1. /\ push'.pc = "idle" /\ push'.outcome = "raised" /\ push'.run = push.run
        /\ push'.record = push.record /\ push'.report = push.report /\ push'.todo = push.todo
    BY <1>0, <1>2 DEF RaiseOnReceipt, RaiseOnReport, Raise, Push
  <2>. QED BY <1>0, <2>1 DEF BundleInv, AsRead, OnItsWay
<1>3. CASE FilterReceipt
  <2>1. PICK f \in push.files :
          push' = IF f[1] = push.run THEN [push EXCEPT !.match = {f}]
                  ELSE [push EXCEPT !.files = @ \ {f}]
    BY <1>3 DEF FilterReceipt
  <2>2. /\ push'.pc = push.pc /\ push'.outcome = push.outcome /\ push'.run = push.run
        /\ push'.record = push.record /\ push'.report = push.report
        /\ push'.todo = push.todo /\ push'.got = push.got
    BY <1>0, <2>1 DEF Push
  <2>3. \A c \in Cases : <<push.run, c>> \in push.files => <<push.run, c>> \in push'.files
    BY <1>0, <2>1 DEF Push
  <2>. QED BY <1>0, <1>3, <2>2, <2>3 DEF FilterReceipt, Pushing, BundleInv, AsRead, OnItsWay
<1>4. CASE ReadReceipt
  <2>1. PICK f \in push.match :
          /\ Readable(f)
          /\ push' = [push EXCEPT !.match = {}, !.files = @ \ {f},
                                  !.got = [@ EXCEPT ![f[2]] = receipts[f[1]][f[2]]]]
    BY <1>4 DEF ReadReceipt
  <2>2. f \in RunIds \X Cases /\ f[1] = push.run
    BY <1>0, <2>1 DEF Push, MirrorInv
  <2>3. /\ push'.pc = push.pc /\ push'.outcome = push.outcome /\ push'.run = push.run
        /\ push'.record = push.record /\ push'.report = push.report
        /\ push'.todo = push.todo /\ push'.files = push.files \ {f}
        /\ push'.got = [push.got EXCEPT ![f[2]] = receipts[f[1]][f[2]]]
    BY <1>0, <2>1 DEF Push
  <2>4. \A c \in Cases : push.got[c] # NoReceipt \/ c = f[2] => push'.got[c] # NoReceipt
    BY <1>0, <2>1, <2>2, <2>3 DEF Push, Parsed, Receipts, Readable, NoReceipt
  <2>5. \A c \in Cases : <<push.run, c>> \in push.files
                            => <<push.run, c>> \in push'.files \/ c = f[2]
    BY <2>2, <2>3
  <2>. QED BY <1>0, <1>4, <2>3, <2>4, <2>5
           DEF ReadReceipt, Pushing, BundleInv, AsRead, OnItsWay
<1>5. CASE ListReports
  <2>. DEFINE listed == {r \in RunIds : report[r].state # "absent"}
  <2>1. /\ push' = [push EXCEPT !.pc = "reports", !.reports = listed]
        /\ push.pc = "filter" /\ push.files = {}
    BY <1>5 DEF ListReports, Pushing
  <2>. HIDE DEF listed
  <2>2. /\ push'.pc = "reports" /\ push'.outcome = push.outcome /\ push'.run = push.run
        /\ push'.record = push.record /\ push'.report = push.report
        /\ push'.todo = push.todo /\ push'.got = push.got
    BY <1>0, <2>1 DEF Push
  <2>. QED BY <1>0, <2>1, <2>2 DEF BundleInv, AsRead, OnItsWay
<1>6. CASE ReadReport
  <2>1. PICK r \in push.reports :
          push' = IF r = push.run THEN [push EXCEPT !.reports = {}, !.report = report[r]]
                  ELSE [push EXCEPT !.reports = @ \ {r}]
    BY <1>6 DEF ReadReport
  <2>2. /\ push'.pc = push.pc /\ push'.outcome = push.outcome /\ push'.run = push.run
        /\ push'.record = push.record /\ push'.todo = push.todo /\ push'.got = push.got
        /\ push'.report \in {push.report, report[r]}
        /\ push'.report # push.report => r = push.run
    BY <1>0, <2>1 DEF Push
  <2>3. r \in RunIds
    BY <1>0 DEF Push
  <2>. QED BY <1>0, <1>6, <2>2, <2>3 DEF ReadReport, Pushing, BundleInv, AsRead, OnItsWay
<1>7. CASE StartPosting
  <2>1. /\ push'.pc = "post" /\ push'.outcome = push.outcome /\ push'.run = push.run
        /\ push'.record = push.record /\ push'.report = push.report /\ push'.todo = Bundle
        /\ push.pc = "reports"
    BY <1>0, <1>7 DEF StartPosting, Pushing, Push
  <2>2. \A q \in Bundle : q.kind = "receipt" => q.run = push.run
    BY DEF Bundle
  <2>3. ASSUME NEW c \in Cases, push.got[c] # NoReceipt
        PROVE  \E q \in Bundle : q.kind = "receipt" /\ q.case = c
    <3>. DEFINE q == [kind |-> "receipt", run |-> push.run, case |-> c, receipt |-> push.got[c]]
    <3>1. q \in Bundle
      BY <2>3 DEF Bundle, Harvested
    <3>. QED BY <3>1
  <2>. QED BY <1>0, <2>1, <2>2, <2>3 DEF BundleInv, AsRead, OnItsWay
<1>8. CASE TransportFailure
  <2>1. PICK q \in push.todo : push' = [push EXCEPT !.todo = @ \ {q}, !.ok = FALSE]
    BY <1>8 DEF TransportFailure, NextRequests
  <2>2. /\ push'.pc = push.pc /\ push'.outcome = push.outcome /\ push'.run = push.run
        /\ push'.record = push.record /\ push'.report = push.report
        /\ push'.todo = push.todo \ {q} /\ push'.ok = FALSE /\ push'.got = push.got
        /\ push'.files = push.files
    BY <1>0, <2>1 DEF Push
  <2>. QED BY <1>0, <1>8, <2>2 DEF TransportFailure, Pushing, BundleInv, AsRead, OnItsWay
<1>9. CASE Return
  <2>1. /\ push'.pc = "idle" /\ push'.outcome = "summary" /\ push'.run = push.run
        /\ push'.record = push.record /\ push'.report = push.report
        /\ push'.todo = {} /\ push'.ok = push.ok /\ push.todo = {} /\ push.pc = "post"
        /\ UNCHANGED stored
    BY <1>0, <1>9 DEF Return, Pushing, Push
  <2>. QED BY <1>0, <2>1 DEF BundleInv, AsRead, OnItsWay
<1>. QED BY <1>1, <1>2, <1>3, <1>4, <1>5, <1>6, <1>7, <1>8, <1>9 DEF ClientStep

\* A receipt the service has it keeps.
LEMMA StoredStays ==
  ASSUME BridgeTypeInv, MirrorInv, NEW q \in UnderWay, Keep(q) \/ UNCHANGED stored,
         NEW r \in RunIds, NEW c \in Cases,
         \/ stored.receipts[r][c] # NoReceipt
         \/ Keep(q) /\ q.kind = "receipt" /\ q.run = r /\ q.case = c
  PROVE  stored'.receipts[r][c] # NoReceipt
<1>1. q \in Request /\ stored \in Store
  BY DEF UnderWay, BridgeTypeInv, BridgeTypeOK, Push
<1>2. q.kind = "receipt" => q.receipt # NoReceipt
  BY DEF MirrorInv, ServiceMirrorsDisk, Sealed, NoReceipt
<1>3. CASE Keep(q) /\ q.kind = "receipt" /\ q.run = r /\ q.case = c
  <2>1. stored' = [stored EXCEPT !.receipts[r][c] = q.receipt]
    BY <1>3 DEF Keep
  <2>2. stored.receipts \in [RunIds -> [Cases -> Receipt]]
    BY <1>1 DEF Store, Parsed, Receipts
  <2>. QED BY <1>1, <1>2, <1>3, <2>1, <2>2 DEF Store
<1>4. CASE stored.receipts[r][c] # NoReceipt
  BY <1>1, <1>2, <1>4, KeepEffect
<1>. QED BY <1>3, <1>4

\* A request leaves the bundle when the service has it or the push failed.
LEMMA BundleService ==
  ASSUME BridgeTypeInv, MirrorInv, BundleInv, ServiceStep, UNCHANGED vars
  PROVE  BundleInv'
<1>0. /\ UNCHANGED <<runFile, report>> /\ push \in Push
      /\ push.record.status = "completed" => push.run \in RunIds /\ push.record.plan \subseteq Cases
  BY DEF vars, disk, BridgeTypeInv, BridgeTypeOK, Push, RunRecord, BundleInv, AsRead
<1>1. CASE Accepted
  <2>1. PICK q \in push.todo : Keep(q) /\ push' = [push EXCEPT !.todo = @ \ {q}]
    BY <1>1 DEF Accepted, NextRequests
  <2>2. /\ push'.pc = push.pc /\ push'.outcome = push.outcome /\ push'.run = push.run
        /\ push'.record = push.record /\ push'.report = push.report
        /\ push'.todo = push.todo \ {q} /\ push'.ok = push.ok /\ push.pc = "post"
    BY <1>0, <1>1, <2>1 DEF Accepted, Pushing, Push
  <2>3. ASSUME NEW c \in push.record.plan, push.record.status = "completed", push.ok
        PROVE  \/ \E o \in push'.todo : o.kind = "receipt" /\ o.case = c
               \/ stored'.receipts[push.run][c] # NoReceipt
    <3>1. \/ \E o \in push.todo : o.kind = "receipt" /\ o.case = c
          \/ stored.receipts[push.run][c] # NoReceipt
      BY <2>2, <2>3 DEF BundleInv, OnItsWay
    <3>2. CASE q.kind = "receipt" /\ q.case = c
      <4>1. q.run = push.run
        BY <3>2 DEF BundleInv
      <4>. QED BY <1>0, <2>1, <2>3, <3>2, <4>1, StoredStays DEF UnderWay
    <3>3. CASE stored.receipts[push.run][c] # NoReceipt
      BY <1>0, <2>1, <2>3, <3>3, StoredStays DEF UnderWay
    <3>. QED BY <2>2, <3>1, <3>2, <3>3
  <2>. QED BY <1>0, <2>2, <2>3 DEF BundleInv, AsRead, OnItsWay
<1>2. CASE Rejected
  <2>1. PICK q \in push.todo : push' = [push EXCEPT !.todo = @ \ {q}, !.ok = FALSE]
    BY <1>2 DEF Rejected, NextRequests
  <2>2. /\ push'.pc = push.pc /\ push'.outcome = push.outcome /\ push'.run = push.run
        /\ push'.record = push.record /\ push'.report = push.report
        /\ push'.todo = push.todo \ {q} /\ push'.ok = FALSE /\ push.pc = "post"
    BY <1>0, <1>2, <2>1 DEF Rejected, Pushing, Push
  <2>. QED BY <1>0, <2>2 DEF BundleInv, AsRead, OnItsWay
<1>3. CASE ArriveLate
  <2>1. PICK q \in late : Keep(q) \/ UNCHANGED stored
    BY <1>3 DEF ArriveLate
  <2>2. push' = push
    BY <1>3 DEF ArriveLate
  <2>3. ASSUME NEW c \in push.record.plan, push.record.status = "completed",
               stored.receipts[push.run][c] # NoReceipt
        PROVE  stored'.receipts[push.run][c] # NoReceipt
    BY <1>0, <2>1, <2>3, StoredStays DEF UnderWay
  <2>. QED BY <1>0, <2>2, <2>3 DEF BundleInv, AsRead, OnItsWay
<1>. QED BY <1>1, <1>2, <1>3 DEF ServiceStep

\* Every step keeps the account of the bundle.
LEMMA BundleNext ==
  ASSUME FreshInv, BridgeTypeInv, MirrorInv, BundleInv, [BridgeNext]_allVars
  PROVE  BundleInv'
<1>1. ASSUME NEW r \in RunIds, BeginPush(r), UNCHANGED vars PROVE BundleInv'
  <2>1. /\ push'.run = r /\ push'.todo = {} /\ push'.report = NoReport
        /\ push'.pc \in {"idle", "list"} /\ push'.outcome \in {"none", "raised"}
        /\ push'.pc # "idle" => push'.outcome = "none"
        /\ push'.record \in {NoRecord, runFile[r]}
    BY <1>1 DEF BeginPush, NoPush
  <2>2. UNCHANGED <<runFile, report>>
    BY <1>1 DEF vars, disk
  <2>. QED BY <2>1, <2>2 DEF BundleInv, AsRead, OnItsWay, NoRecord, NoReport
<1>. QED BY <1>1, BundleBesideSandbox, BundleClient, BundleService, SandboxStep
         DEF BridgeNext, allVars

\* No push has been begun.
LEMMA BundleInit == BridgeInit => BundleInv
BY DEF BridgeInit, NoPush, BundleInv, AsRead, OnItsWay, NoRecord, NoReport

\* A completed record, sealed receipts and a mirror of them: nothing is missing.
LEMMA NothingMissing ==
  ASSUME FreshInv, BridgeTypeInv, MirrorInv, BundleInv
  PROVE  AcceptedBundleIsComplete
<1>. SUFFICES ASSUME push.outcome = "summary", push.ok, push.record.status = "completed"
              PROVE  LET held == stored.receipts[push.run] IN
                     /\ \A c \in push.record.plan :
                          held[c].state = "sealed" /\ held[c].attempt = push.record.attempt
                     /\ push.report.state = "written" => push.report.body = held
  BY DEF AcceptedBundleIsComplete
<1>. DEFINE r == push.run
            held == stored.receipts[r]
<1>1. /\ r \in RunIds /\ runFile[r] = push.record /\ push.record.plan \subseteq Cases
      /\ push.todo = {}
  BY DEF BundleInv, AsRead, BridgeTypeInv, BridgeTypeOK, Push, RunRecord
<1>2. ASSUME NEW c \in push.record.plan
      PROVE  held[c] # NoReceipt /\ held[c] = receipts[r][c] /\ Sealed(r, c)
               /\ receipts[r][c].attempt = push.record.attempt
  <2>1. held[c] # NoReceipt
    BY <1>1 DEF BundleInv, OnItsWay
  <2>2. held[c] = receipts[r][c] /\ Sealed(r, c)
    BY <1>1, <2>1 DEF MirrorInv, ServiceMirrorsDisk
  <2>3. receipts[r][c].attempt = push.record.attempt
    BY <1>1 DEF FreshInv, OrderInv, CompletedRunHasItsEvidence, Plan
  <2>. QED BY <2>1, <2>2, <2>3
<1>3. ASSUME push.report.state = "written"
      PROVE  push.report.body = held
  <2>1. report[r] = push.report /\ push.report.body = receipts[r]
    BY <1>1, <1>3 DEF BundleInv, AsRead, FreshInv, FilesInv, RunFiles
  <2>2. ASSUME NEW c \in Cases \ push.record.plan PROVE held[c] = receipts[r][c]
    <3>1. receipts[r][c] = NoReceipt
      BY <1>1 DEF FreshInv, FilesInv, RunFiles, Plan
    <3>2. ~Sealed(r, c)
      BY <3>1 DEF Sealed, NoReceipt
    <3>3. held[c] = NoReceipt
      BY <1>1, <3>2 DEF MirrorInv, ServiceMirrorsDisk
    <3>. QED BY <3>1, <3>3
  <2>3. held \in [Cases -> Receipt] /\ receipts[r] \in [Cases -> Receipt]
    BY <1>1 DEF BridgeTypeInv, BridgeTypeOK, TypeOK, Store, Parsed, Receipts
  <2>4. \A c \in Cases : held[c] = receipts[r][c]
    BY <1>2, <2>2
  <2>5. held = receipts[r]
    BY <2>3, <2>4
  <2>. QED BY <2>1, <2>5
<1>. QED BY <1>2, <1>3 DEF Sealed

(***************************************************************************)
(* With run ids that are never used twice, a push that read a completed     *)
(* record and reports all_accepted has left the service with every receipt  *)
(* the record counts and with no report about anything else.                *)
(***************************************************************************)
THEOREM AcceptedComplete ==
  ASSUME Reuse = "fresh"
  PROVE  BridgeSpec => []AcceptedBundleIsComplete
<1>. DEFINE Inv == FreshInv /\ BridgeTypeInv /\ MirrorInv /\ BundleInv
<1>1. BridgeInit => Inv
  BY FreshInit, BridgeTypeInit, MirrorInit, BundleInit DEF BridgeInit
<1>2. Inv /\ [BridgeNext]_allVars => Inv'
  BY SandboxStep, FreshNext, BridgeTypeNext, MirrorNext, BundleNext
<1>3. Inv => AcceptedBundleIsComplete
  BY NothingMissing
<1>. QED BY <1>1, <1>2, <1>3, PTL DEF BridgeSpec

-----------------------------------------------------------------------------
(* What leaves the directory is evidence the sandbox vouches for.           *)

\* What the service has or can get of a run is sealed on disk.
LEMMA ServedIsSealed ==
  ASSUME MirrorInv, NEW r \in RunIds, NEW e \in Served(r), BridgeTypeOK
  PROVE  \E c \in Cases : Sealed(r, c) /\ e = receipts[r][c]
<1>1. CASE e \in {stored.receipts[r][c] : c \in Cases} \ {NoReceipt}
  <2>1. PICK c \in Cases : e = stored.receipts[r][c] /\ e # NoReceipt
    BY <1>1
  <2>. QED BY <2>1 DEF MirrorInv, ServiceMirrorsDisk
<1>2. CASE e \in {q.receipt : q \in {o \in UnderWay : o.kind = "receipt" /\ o.run = r}}
  <2>1. PICK q \in UnderWay : q.kind = "receipt" /\ q.run = r /\ e = q.receipt
    BY <1>2
  <2>2. Sealed(r, q.case) /\ e = receipts[r][q.case]
    BY <2>1 DEF MirrorInv, ServiceMirrorsDisk
  <2>3. q \in Request
    BY <2>1 DEF UnderWay, BridgeTypeOK, Push
  <2>4. q.case \in Cases
    BY <2>1, <2>3 DEF Request
  <2>. QED BY <2>2, <2>4
<1>. QED BY <1>1, <1>2 DEF Served

\* A failed run has no sealed receipt; those of a completed one are of its
\* plan, and so were observed on the tree its record names.
LEMMA OnlyAccepted ==
  ASSUME FreshInv, TreeInv, MirrorInv, BridgeTypeOK
  PROVE  ServedEvidenceIsAccepted
<1>. SUFFICES ASSUME NEW r \in RunIds
              PROVE  /\ runFile[r].status = "failed" => Served(r) = {}
                     /\ runFile[r].status = "completed" => \A e \in Served(r) : e.seen = runFile[r].before
  BY DEF ServedEvidenceIsAccepted
<1>1. ASSUME runFile[r].status = "failed", NEW e \in Served(r) PROVE FALSE
  <2>1. PICK c \in Cases : Sealed(r, c)
    BY <1>1, ServedIsSealed
  <2>2. receipts[r][c] = NoReceipt
    BY <1>1 DEF FreshInv, FailInv, FailClosed, NoReceipts
  <2>. QED BY <2>1, <2>2 DEF Sealed, NoReceipt
<1>2. ASSUME runFile[r].status = "completed", NEW e \in Served(r) PROVE e.seen = runFile[r].before
  <2>1. PICK c \in Cases : Sealed(r, c) /\ e = receipts[r][c]
    BY <1>2, ServedIsSealed
  <2>2. c \in Plan(r)
    <3>1. c \notin Plan(r) => receipts[r][c] = NoReceipt
      BY <1>2 DEF FreshInv, FilesInv, RunFiles
    <3>. QED BY <2>1, <3>1 DEF Sealed, NoReceipt
  <2>. QED BY <1>2, <2>1, <2>2 DEF TreeInv, EvidenceFromRecordedSource
<1>. QED BY <1>1, <1>2

(***************************************************************************)
(* With run ids that are used once and no edit that restores a version, the *)
(* service never gets a receipt of a run that is refused, and what it gets  *)
(* of a completed run was observed on the tree the record names, however    *)
(* pushes, edits, crashes and late requests fall between the run's steps.   *)
(***************************************************************************)
THEOREM ServedAccepted ==
  ASSUME Reuse = "fresh", ~Restores
  PROVE  BridgeSpec => []ServedEvidenceIsAccepted
<1>. DEFINE Inv == FreshInv /\ TreeInv /\ BridgeTypeInv /\ MirrorInv
<1>1. BridgeInit => Inv
  BY FreshInit, TreeInit, BridgeTypeInit, MirrorInit DEF BridgeInit, FreshInv
<1>2. Inv /\ [BridgeNext]_allVars => Inv'
  BY SandboxStep, FreshNext, TreeNext, BridgeTypeNext, MirrorNext DEF FreshInv, NotShared
<1>3. Inv => ServedEvidenceIsAccepted
  BY OnlyAccepted DEF BridgeTypeInv
<1>. QED BY <1>1, <1>2, <1>3, PTL DEF BridgeSpec
=============================================================================
