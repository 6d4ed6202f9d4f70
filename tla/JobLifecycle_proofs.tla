------------------------ MODULE JobLifecycle_proofs -------------------------
(***************************************************************************)
(* Theorems about JobLifecycle for every set of jobs and requests and      *)
(* every bound: its types, its safety properties from the inductive        *)
(* invariants of JobInvariants, and its refinement of PiiGate. Each        *)
(* invariant has one lemma with one step per action.                       *)
(***************************************************************************)
EXTENDS JobInvariants, SequenceTheorems, TLAPS

(* Every request and every processing task is about one of the jobs.       *)
LEMMA RequestFields == \A r \in Requests : r.job \in Jobs /\ r.verdict \in {"approved", "denied"}
BY ConstantsAssumption DEF Decision

LEMMA RunFields == \A t \in Runs : t.job \in Jobs
BY RequestFields DEF Runs, Direct

LEMMA DirectRuns == \A j \in Jobs : Direct(j) \in Runs /\ Direct(j).job = j
BY DEF Runs, Direct

(* The queue stays a sequence of jobs.                                     *)
LEMMA QueueTyped ==
    ASSUME NEW q \in Seq(Jobs), NEW j \in Jobs
    PROVE  /\ Append(q, j) \in Seq(Jobs)
           /\ q # <<>> => Head(q) \in Jobs /\ Tail(q) \in Seq(Jobs)
OBVIOUS

(* What storing an object changes.                                         *)
LEMMA StoreTyped ==
    ASSUME TypeOK, NEW t \in Runs, NEW step \in RunSteps,
           NEW object \in {"markdown", "ledger"}, Store(t, object, step)
    PROVE  /\ run' \in [Runs -> RunSteps]
           /\ result' \in [Jobs -> SUBSET {"markdown", "ledger"}]
<1>1. run \in [Runs -> RunSteps] /\ result \in [Jobs -> SUBSET {"markdown", "ledger"}]
    BY DEF TypeOK
<1>2. run' \in [Runs -> RunSteps]
    <2>1. "fail" \in RunSteps
        BY DEF RunSteps
    <2> QED BY <1>1, <2>1 DEF Store, RunGoes
<1>3. result' \in [Jobs -> SUBSET {"markdown", "ledger"}]
    <2>1. t.job \in Jobs
        BY RunFields
    <2>2. result[t.job] \cup {object} \in SUBSET {"markdown", "ledger"}
        BY <1>1, <2>1
    <2> QED BY <1>1, <2>1, <2>2 DEF Store
<1> QED BY <1>2, <1>3

-----------------------------------------------------------------------------
(* Type correctness.                                                       *)

(* The helpers the actions are built from keep the types.                  *)
LEMMA StatusTyped ==
    ASSUME TypeOK, NEW j \in Jobs, NEW s \in Statuses, UpdateStatus(j, s) \/ UpdateState(j, s)
    PROVE  status' \in [Jobs -> Statuses] /\ idle' \in [Jobs -> Nat]
<1>1. status \in [Jobs -> Statuses] /\ idle \in [Jobs -> Nat]
    BY DEF TypeOK
<1>2. CASE UpdateStatus(j, s)
    BY <1>1, <1>2 DEF UpdateStatus
<1>3. CASE UpdateState(j, s)
    BY <1>1, <1>3 DEF UpdateState
<1> QED BY <1>2, <1>3

LEMMA FaultTyped == TypeOK /\ Fault => faults' \in Nat
BY DEF TypeOK, Fault

LEMMA DeleteTyped ==
    ASSUME TypeOK, NEW j \in Jobs, DeleteUpload(j)
    PROVE  temp' \subseteq Jobs /\ faults' \in Nat
BY DEF TypeOK, DeleteUpload, Fault

LEMMA ScanTyped ==
    ASSUME TypeOK, NEW j \in Jobs, NEW step \in ScanSteps, ScanGoes(j, step)
    PROVE  scan' \in [Jobs -> ScanSteps]
BY DEF TypeOK, ScanGoes

LEMMA RequestTyped ==
    ASSUME TypeOK, NEW r \in Requests, NEW step \in RequestSteps, RequestGoes(r, step)
    PROVE  req' \in [Requests -> RequestSteps]
BY DEF TypeOK, RequestGoes

LEMMA RunTyped ==
    ASSUME TypeOK, NEW t \in Runs, NEW step \in RunSteps, RunGoes(t, step)
    PROVE  run' \in [Runs -> RunSteps]
BY DEF TypeOK, RunGoes

LEMMA HandTyped ==
    ASSUME TypeOK, NEW j \in Jobs, NEW step \in {"none", "drop", "fail", "untrack"},
           HandGoes(j, step)
    PROVE  hand' \in [Jobs -> {"none", "drop", "fail", "untrack"}]
BY DEF TypeOK, HandGoes

LEMMA OlderTyped ==
    ASSUME NEW clock \in [Jobs -> Nat], NEW limit, NEW S
    PROVE  Older(clock, limit, S) \in [Jobs -> Nat]
BY DEF Older

LEMMA TypeInit == Init => TypeOK
<1> SUFFICES ASSUME Init PROVE TypeOK
    OBVIOUS
<1>1. status \in [Jobs -> Statuses] /\ scan \in [Jobs -> ScanSteps]
    BY DEF Init, Statuses, ScanSteps
<1>2. req \in [Requests -> RequestSteps] /\ run \in [Runs -> RunSteps]
    BY DEF Init, RequestSteps, RunSteps
<1>3. piiQueue \in Seq(Jobs) /\ result \in [Jobs -> SUBSET {"markdown", "ledger"}]
    BY DEF Init
<1> QED BY <1>1, <1>2, <1>3 DEF Init, TypeOK

(* The submit request.                                                     *)
LEMMA SubmitTypes ==
    ASSUME TypeOK,
           \E j \in Jobs : SubmitStore(j) \/ SubmitStep(j)
    PROVE  TypeOK'
<1> USE DEF TypeOK, redis, s3, process, patrol, history, bounds, Statuses, Terminal, ScanSteps,
            RequestSteps, RunSteps
<1>1. ASSUME NEW j \in Jobs, SubmitStore(j) PROVE TypeOK'
    BY <1>1
       DEF SubmitStore
<1>2. ASSUME NEW j \in Jobs, SubmitCreateSkipped(j) PROVE TypeOK'
    <2>1. run' \in [Runs -> RunSteps]
        BY <1>2, RunTyped, DirectRuns DEF SubmitCreateSkipped, CreateJob
    <2>2. faults' \in Nat
        BY <1>2, FaultTyped DEF SubmitCreateSkipped, CreateJob
    <2>3. status' \in [Jobs -> Statuses] /\ idle' \in [Jobs -> Nat]
        BY <1>2 DEF SubmitCreateSkipped, CreateJob, UpdateStatus
    <2>4. skipped' \subseteq Jobs /\ submit' \in [Jobs -> {"none", "stored", "created", "done"}]
        BY <1>2 DEF SubmitCreateSkipped, CreateJob
    <2> QED BY <1>2, <2>1, <2>2, <2>3, <2>4 DEF SubmitCreateSkipped, CreateJob
<1>3. ASSUME NEW j \in Jobs, SubmitCreateScanned(j) PROVE TypeOK'
    BY <1>3, StatusTyped
       DEF SubmitCreateScanned, CreateJob
<1>4. ASSUME NEW j \in Jobs, SubmitEnqueue(j) PROVE TypeOK'
    BY <1>4, QueueTyped
       DEF SubmitEnqueue, Enqueue
<1>5. ASSUME NEW j \in Jobs, SubmitError(j) PROVE TypeOK'
    BY <1>5, FaultTyped
       DEF SubmitError
<1> QED BY <1>1, <1>2, <1>3, <1>4, <1>5 DEF SubmitStep

(* The PII worker.                                                         *)
LEMMA ScanTypes ==
    ASSUME TypeOK,
           ScanDequeue \/ \E j \in Jobs : ScanStep(j)
    PROVE  TypeOK'
<1> USE DEF TypeOK, redis, s3, process, patrol, history, bounds, Statuses, Terminal, ScanSteps,
            RequestSteps, RunSteps
<1>1. ASSUME ScanDequeue PROVE TypeOK'
    <2>1. Head(piiQueue) \in Jobs /\ Tail(piiQueue) \in Seq(Jobs)
        BY <1>1, QueueTyped DEF ScanDequeue, Dequeue
    <2>2. scan' \in [Jobs -> ScanSteps]
        BY <1>1, <2>1, ScanTyped DEF ScanDequeue, Dequeue
    <2> QED BY <1>1, <2>1, <2>2 DEF ScanDequeue, Dequeue
<1>2. ASSUME NEW j \in Jobs, ScanRequeue(j) PROVE TypeOK'
    <2>1. piiQueue' \in Seq(Jobs)
        <3>1. Append(piiQueue, j) \in Seq(Jobs)
            BY QueueTyped
        <3> QED BY <1>2, <3>1 DEF ScanRequeue, Enqueue
    <2>2. scan' \in [Jobs -> ScanSteps]
        BY <1>2, ScanTyped DEF ScanRequeue, Enqueue
    <2>3. disturbed' \subseteq Jobs /\ faults' \in Nat
        BY <1>2, FaultTyped DEF ScanRequeue, Enqueue
    <2> QED BY <1>2, <2>1, <2>2, <2>3 DEF ScanRequeue, Enqueue
<1>3. ASSUME NEW j \in Jobs, ScanMark(j) PROVE TypeOK'
    BY <1>3, StatusTyped, ScanTyped
       DEF ScanMark
<1>4. ASSUME NEW j \in Jobs, ScanAnalyze(j) PROVE TypeOK'
    <2>1. findings' \in [Jobs -> {"unknown", "clean", "pii"}]
        <3>1. findings \in [Jobs -> {"unknown", "clean", "pii"}]
            OBVIOUS
        <3> HIDE DEF TypeOK
        <3> QED BY <1>4, <3>1 DEF ScanAnalyze
    <2>2. scan' \in [Jobs -> ScanSteps]
        BY <1>4, ScanTyped DEF ScanAnalyze, Route
    <2> QED BY <1>4, <2>1, <2>2 DEF ScanAnalyze
<1>5. ASSUME NEW j \in Jobs, ScanPublish(j) PROVE TypeOK'
    <2>1. status' \in [Jobs -> Statuses] /\ idle' \in [Jobs -> Nat]
        BY <1>5, StatusTyped DEF ScanPublish
    <2>2. wait' \in [Jobs -> Nat]
        BY <1>5 DEF ScanPublish
    <2>3. scan' \in [Jobs -> ScanSteps]
        BY <1>5, ScanTyped DEF ScanPublish
    <2>4. disturbed' \subseteq Jobs /\ faults' \in Nat
        BY <1>5, FaultTyped DEF ScanPublish
    <2>5. licence' \subseteq Jobs
        BY <1>5 DEF ScanPublish
    <2>6. UNCHANGED <<skipped, age, piiQueue, tracked, mapped, locks, s3, submit, req, run, patrol,
                      stopping, findings, accepted, lapsed, crashes>>
        BY <1>5 DEF ScanPublish
    <2> QED BY <2>1, <2>2, <2>3, <2>4, <2>5, <2>6
<1>6. ASSUME NEW j \in Jobs, ScanTrack(j) PROVE TypeOK'
    BY <1>6, ScanTyped
       DEF ScanTrack
<1>7. ASSUME NEW j \in Jobs, ScanMap(j) PROVE TypeOK'
    BY <1>7, ScanTyped
       DEF ScanMap
<1>8. ASSUME NEW j \in Jobs, ScanClear(j) PROVE TypeOK'
    BY <1>8, StatusTyped, ScanTyped
       DEF ScanClear
<1>9. ASSUME NEW j \in Jobs, ScanLaunch(j) PROVE TypeOK'
    <2>1. run' \in [Runs -> RunSteps]
        BY <1>9, RunTyped, DirectRuns DEF ScanLaunch
    <2>2. scan' \in [Jobs -> ScanSteps]
        BY <1>9, ScanTyped DEF ScanLaunch
    <2>3. faults' \in Nat
        BY <1>9, FaultTyped DEF ScanLaunch
    <2> QED BY <1>9, <2>1, <2>2, <2>3 DEF ScanLaunch
<1>10. ASSUME NEW j \in Jobs, ScanError(j) PROVE TypeOK'
    BY <1>10, FaultTyped, ScanTyped
       DEF ScanError
<1>11. ASSUME NEW j \in Jobs, ScanFail(j) PROVE TypeOK'
    <2>1. status' \in [Jobs -> Statuses] /\ idle' \in [Jobs -> Nat]
        BY <1>11, StatusTyped DEF ScanFail
    <2>2. scan' \in [Jobs -> ScanSteps]
        BY <1>11, ScanTyped DEF ScanFail
    <2>3. disturbed' \subseteq Jobs /\ faults' \in Nat
        BY <1>11, FaultTyped DEF ScanFail
    <2> QED BY <1>11, <2>1, <2>2, <2>3 DEF ScanFail
<1> QED BY <1>1, <1>2, <1>3, <1>4, <1>5, <1>6, <1>7, <1>8, <1>9, <1>10, <1>11 DEF ScanStep

(* Decisions and their background tasks.                                   *)
LEMMA DecisionTypes ==
    ASSUME TypeOK,
           \E r \in Requests : DecisionRead(r) \/ DecisionStep(r)
    PROVE  TypeOK'
<1> USE DEF TypeOK, redis, s3, process, patrol, history, bounds, Statuses, Terminal, ScanSteps,
            RequestSteps, RunSteps
<1>lost. ASSUME NEW r \in Requests, NEW step \in RequestSteps, ReplyLost(r, step)
         PROVE  /\ req' \in [Requests -> RequestSteps]
                /\ disturbed' \subseteq Jobs /\ faults' \in Nat
    BY <1>lost, FaultTyped, RequestTyped, RequestFields DEF ReplyLost
<1>1. ASSUME NEW r \in Requests, DecisionRead(r) PROVE TypeOK'
    BY <1>1, RequestTyped, RequestFields
       DEF DecisionRead
<1>2. ASSUME NEW r \in Requests, QuickApprove(r) PROVE TypeOK'
    <2>1. /\ req' \in [Requests -> RequestSteps]
          /\ disturbed' \subseteq Jobs /\ faults' \in Nat
        BY <1>2, <1>lost, RequestTyped DEF QuickApprove
    <2>2. status' \in [Jobs -> Statuses] /\ idle' \in [Jobs -> Nat]
        BY <1>2, StatusTyped, RequestFields DEF QuickApprove
    <2>3. accepted' \subseteq Requests /\ licence' \subseteq Jobs
        BY <1>2, RequestFields DEF QuickApprove
    <2> QED BY <1>2, <2>1, <2>2, <2>3 DEF QuickApprove
<1>3. ASSUME NEW r \in Requests, QuickDeny(r) PROVE TypeOK'
    <2>1. status' \in [Jobs -> Statuses] /\ idle' \in [Jobs -> Nat]
        BY <1>3, StatusTyped, RequestFields DEF QuickDeny
    <2>2. /\ req' \in [Requests -> RequestSteps]
          /\ disturbed' \subseteq Jobs /\ faults' \in Nat
        BY <1>3, <1>lost, RequestTyped DEF QuickDeny
    <2>3. accepted' \subseteq Requests
        BY <1>3 DEF QuickDeny
    <2> QED BY <1>3, <2>1, <2>2, <2>3 DEF QuickDeny
<1>4. ASSUME NEW r \in Requests, DecisionUntrack(r) PROVE TypeOK'
    BY <1>4, RequestTyped, RequestFields
       DEF DecisionUntrack
<1>5. ASSUME NEW r \in Requests, ApproveLock(r) PROVE TypeOK'
    BY SMTT(30), <1>5, RequestTyped, RequestFields
       DEF ApproveLock
<1>6. ASSUME NEW r \in Requests, ApproveCheck(r) PROVE TypeOK'
    BY <1>6, RequestTyped, RequestFields
       DEF ApproveCheck
<1>7. ASSUME NEW r \in Requests, ApproveUpdate(r) PROVE TypeOK'
    <2>1. /\ req' \in [Requests -> RequestSteps]
          /\ disturbed' \subseteq Jobs /\ faults' \in Nat
        BY <1>7, <1>lost, RequestTyped DEF ApproveUpdate
    <2>2. status' \in [Jobs -> Statuses] /\ idle' \in [Jobs -> Nat]
        BY <1>7, StatusTyped, RequestFields DEF ApproveUpdate
    <2>3. run' \in [Runs -> RunSteps] /\ licence' \subseteq Jobs
        BY <1>7, RunTyped DEF ApproveUpdate, Runs
    <2> QED BY <1>7, <2>1, <2>2, <2>3 DEF ApproveUpdate
<1>8. ASSUME NEW r \in Requests, ApproveUnlock(r) PROVE TypeOK'
    BY <1>8, RequestTyped, RequestFields
       DEF ApproveUnlock
<1>9. ASSUME NEW r \in Requests, DenyClean(r) PROVE TypeOK'
    BY <1>9, DeleteTyped, RequestTyped, RequestFields
       DEF DenyClean
<1>10. ASSUME NEW r \in Requests, DenyRecord(r) PROVE TypeOK'
    BY <1>10, StatusTyped, RequestTyped, RequestFields
       DEF DenyRecord
<1>11. ASSUME NEW r \in Requests, DecisionError(r) PROVE TypeOK'
    <2>1. faults' \in Nat
        BY <1>11, FaultTyped DEF DecisionError
    <2>2. disturbed' \subseteq Jobs
        BY <1>11, RequestFields DEF DecisionError
    <2>3. req' \in [Requests -> RequestSteps]
        BY <1>11, RequestTyped, RequestFields DEF DecisionError
    <2> QED BY <1>11, <2>1, <2>2, <2>3 DEF DecisionError
<1> QED BY <1>1, <1>2, <1>3, <1>4, <1>5, <1>6, <1>7, <1>8, <1>9, <1>10, <1>11 DEF DecisionStep

(* The processing tasks.                                                   *)
LEMMA RunTypes ==
    ASSUME TypeOK,
           \E t \in Runs : RunStep(t)
    PROVE  TypeOK'
<1> USE DEF TypeOK, redis, s3, process, patrol, history, bounds, Statuses, Terminal, ScanSteps,
            RequestSteps, RunSteps
<1>1. ASSUME NEW t \in Runs, RunBegin(t) PROVE TypeOK'
    <2>1. status' \in [Jobs -> Statuses] /\ idle' \in [Jobs -> Nat]
        BY <1>1, StatusTyped, RunFields DEF RunBegin
    <2>2. faults' \in Nat
        BY <1>1, FaultTyped DEF RunBegin, RunFails
    <2>3. run' \in [Runs -> RunSteps]
        BY <1>1, RunTyped DEF RunBegin, RunFails
    <2> QED BY <1>1, <2>1, <2>2, <2>3 DEF RunBegin
<1>2. ASSUME NEW t \in Runs, RunDownload(t) PROVE TypeOK'
    BY <1>2, RunTyped, RunFields
       DEF RunDownload
<1>3. ASSUME NEW t \in Runs, RunConvert(t) PROVE TypeOK'
    BY <1>3, RunTyped, RunFields
       DEF RunConvert
<1>4. ASSUME NEW t \in Runs, RunStoreMarkdown(t) PROVE TypeOK'
    BY <1>4, StoreTyped, RunFields
       DEF RunStoreMarkdown, Store
<1>5. ASSUME NEW t \in Runs, RunStoreLedger(t) PROVE TypeOK'
    BY <1>5, StoreTyped, RunFields
       DEF RunStoreLedger, Store
<1>6. ASSUME NEW t \in Runs, RunFinish(t) PROVE TypeOK'
    <2>1. status' \in [Jobs -> Statuses] /\ idle' \in [Jobs -> Nat]
        BY <1>6, StatusTyped, RunFields DEF RunFinish
    <2>2. faults' \in Nat
        BY <1>6, FaultTyped DEF RunFinish, RunFails
    <2>3. run' \in [Runs -> RunSteps]
        BY <1>6, RunTyped DEF RunFinish, RunFails
    <2> QED BY <1>6, <2>1, <2>2, <2>3 DEF RunFinish
<1>7. ASSUME NEW t \in Runs, RunFail(t) PROVE TypeOK'
    BY <1>7, StatusTyped, RunTyped, RunFields
       DEF RunFail
<1>8. ASSUME NEW t \in Runs, RunError(t) PROVE TypeOK'
    BY <1>8, FaultTyped, RunTyped, RunFields
       DEF RunError, RunFails
<1> QED BY <1>1, <1>2, <1>3, <1>4, <1>5, <1>6, <1>7, <1>8 DEF RunStep

(* The timeout worker.                                                     *)
LEMMA PatrolTypes ==
    ASSUME TypeOK,
           StartApprovalCheck \/ CleanTemps \/ StartStuckSweep \/ PatrolStep
    PROVE  TypeOK'
<1> USE DEF TypeOK, redis, s3, process, patrol, history, bounds, Statuses, Terminal, ScanSteps,
            RequestSteps, RunSteps
<1>1. ASSUME StartApprovalCheck PROVE TypeOK'
    BY <1>1
       DEF StartApprovalCheck
<1>2. ASSUME CleanTemps PROVE TypeOK'
    <2>1. temp' \subseteq Jobs /\ faults' \in Nat
        BY <1>2, FaultTyped DEF CleanTemps
    <2> QED BY <1>2, <2>1 DEF CleanTemps
<1>3. ASSUME StartStuckSweep PROVE TypeOK'
    BY <1>3
       DEF StartStuckSweep, UpdatedBefore, Existing
<1>4. ASSUME EndDuty PROVE TypeOK'
    BY <1>4
       DEF EndDuty
<1>5. ASSUME NEW j \in Jobs, ExamineExpired(j) PROVE TypeOK'
    BY <1>5, HandTyped
       DEF ExamineExpired
<1>6. ASSUME NEW j \in Jobs, FailExpired(j) PROVE TypeOK'
    BY <1>6, StatusTyped, HandTyped
       DEF FailExpired
<1>7. ASSUME NEW j \in Jobs, Untrack(j) PROVE TypeOK'
    BY <1>7, HandTyped
       DEF Untrack
<1>8. ASSUME NEW j \in Jobs, ExamineStuck(j) PROVE TypeOK'
    BY <1>8, HandTyped
       DEF ExamineStuck
<1>9. ASSUME NEW j \in Jobs, FailStuck(j) PROVE TypeOK'
    BY <1>9, StatusTyped, DeleteTyped, HandTyped
       DEF FailStuck
<1>10. ASSUME NEW j \in Jobs, PatrolError(j) PROVE TypeOK'
    BY <1>10, FaultTyped, HandTyped
       DEF PatrolError
<1> QED BY <1>1, <1>2, <1>3, <1>4, <1>5, <1>6, <1>7, <1>8, <1>9, <1>10 DEF PatrolStep

(* Locks, restarts and clocks.                                             *)
LEMMA ProcessTypes ==
    ASSUME TypeOK,
           (\E j \in Jobs : LockExpires(j)) \/ Shutdown \/ Restart \/ Tick
    PROVE  TypeOK'
<1> USE DEF TypeOK, redis, s3, process, patrol, history, bounds, Statuses, Terminal, ScanSteps,
            RequestSteps, RunSteps
<1>1. ASSUME NEW j \in Jobs, LockExpires(j) PROVE TypeOK'
    <2>1. faults' \in Nat /\ lapsed' \subseteq Jobs
        BY <1>1, FaultTyped DEF LockExpires
    <2>2. locks' \subseteq Jobs
        BY <1>1 DEF LockExpires
    <2> QED BY <1>1, <2>1, <2>2 DEF LockExpires
<1>2. ASSUME Shutdown PROVE TypeOK'
    BY <1>2
       DEF Shutdown
<1>3. ASSUME Restart PROVE TypeOK'
    <2>1. req' \in [Requests -> RequestSteps] /\ run' \in [Runs -> RunSteps]
        BY <1>3 DEF Restart
    <2>2. /\ submit' \in [Jobs -> {"none", "stored", "created", "done"}]
          /\ scan' \in [Jobs -> ScanSteps]
          /\ hand' \in [Jobs -> {"none", "drop", "fail", "untrack"}]
        BY <1>3 DEF Restart
    <2>3. disturbed' \subseteq Jobs /\ crashes' \in Nat
        BY <1>3, RequestFields DEF Restart
    <2> QED BY <1>3, <2>1, <2>2, <2>3 DEF Restart
<1>4. ASSUME Tick PROVE TypeOK'
    BY <1>4, OlderTyped
       DEF Tick
<1> QED BY <1>1, <1>2, <1>3, <1>4

(* Every step, and a stuttering step, keeps the types.                      *)
LEMMA TypeStep == TypeOK /\ [Next]_vars => TypeOK'
<1> SUFFICES ASSUME TypeOK, [Next]_vars PROVE TypeOK'
    OBVIOUS
<1>1. CASE UNCHANGED vars
    BY <1>1 DEF vars, redis, s3, process, history, bounds, TypeOK
<1>2. CASE Next
    BY <1>2, SubmitTypes, ScanTypes, DecisionTypes, RunTypes, PatrolTypes, ProcessTypes
       DEF Next, TaskStep
<1> QED BY <1>1, <1>2

(* The variables keep their types in every behaviour.                      *)
THEOREM TypeCorrect == Spec => []TypeOK
BY TypeInit, TypeStep, PTL DEF Spec

-----------------------------------------------------------------------------
(* Safety.                                                                 *)

(* The routing, the decisions and the processing tasks agree with the      *)
(* findings after every step.                                              *)
LEMMA GateStep == TypeOK /\ GateInv /\ [Next]_vars => GateInv'
<1> SUFFICES ASSUME TypeOK, GateInv, [Next]_vars PROVE GateInv'
    OBVIOUS
<1> DEFINE Types ==
        /\ status \in [Jobs -> Statuses]
        /\ scan \in [Jobs -> ScanSteps]
        /\ findings \in [Jobs -> {"unknown", "clean", "pii"}]
        /\ req \in [Requests -> RequestSteps]
        /\ run \in [Runs -> RunSteps]
        /\ accepted \subseteq Requests
<1>types. Types
    BY DEF TypeOK
<1> USE <1>types, RequestFields, RunFields
    DEF GateInv, ScanAgrees, RequestAgrees, OnlyClearedIsConverted, Cleared, Approved, redis, s3,
        process, patrol, history, bounds, UpdateStatus, UpdateState, Fault, ReplyLost, Ended,
        DeleteUpload, ScanGoes, RequestGoes, RunGoes, RunFails, HandGoes, Store, Holding, Older,
        Existing, OldUploads
<1>1. ASSUME NEW j \in Jobs, SubmitStore(j) PROVE GateInv'
    BY <1>1 DEF SubmitStore
<1>2. ASSUME NEW j \in Jobs, SubmitCreateSkipped(j) PROVE GateInv'
    BY <1>2, DirectRuns DEF SubmitCreateSkipped, CreateJob
<1>3. ASSUME NEW j \in Jobs, SubmitCreateScanned(j) PROVE GateInv'
    BY <1>3 DEF SubmitCreateScanned, CreateJob
<1>4. ASSUME NEW j \in Jobs, SubmitEnqueue(j) PROVE GateInv'
    BY <1>4 DEF SubmitEnqueue, Enqueue
<1>5. ASSUME NEW j \in Jobs, SubmitError(j) PROVE GateInv'
    BY <1>5 DEF SubmitError
<1>6. ASSUME ScanDequeue PROVE GateInv'
    BY <1>6 DEF ScanDequeue, Dequeue, ScanIdle
<1>7. ASSUME NEW j \in Jobs, ScanRequeue(j) PROVE GateInv'
    BY <1>7 DEF ScanRequeue, Enqueue
<1>8. ASSUME NEW j \in Jobs, ScanMark(j) PROVE GateInv'
    BY <1>8 DEF ScanMark
<1>9. ASSUME NEW j \in Jobs, ScanAnalyze(j) PROVE GateInv'
    BY <1>9 DEF ScanAnalyze, Route
<1>10. ASSUME NEW j \in Jobs, ScanPublish(j) PROVE GateInv'
    BY <1>10 DEF ScanPublish
<1>11. ASSUME NEW j \in Jobs, ScanTrack(j) PROVE GateInv'
    BY <1>11 DEF ScanTrack
<1>12. ASSUME NEW j \in Jobs, ScanMap(j) PROVE GateInv'
    BY <1>12 DEF ScanMap
<1>13. ASSUME NEW j \in Jobs, ScanClear(j) PROVE GateInv'
    BY <1>13 DEF ScanClear
<1>14. ASSUME NEW j \in Jobs, ScanLaunch(j) PROVE GateInv'
    BY <1>14, DirectRuns DEF ScanLaunch
<1>15. ASSUME NEW j \in Jobs, ScanError(j) PROVE GateInv'
    BY <1>15 DEF ScanError
<1>16. ASSUME NEW j \in Jobs, ScanFail(j) PROVE GateInv'
    BY <1>16 DEF ScanFail
<1>17. ASSUME NEW r \in Requests, DecisionRead(r) PROVE GateInv'
    BY <1>17 DEF DecisionRead, DecisionValid
<1>18. ASSUME NEW r \in Requests, QuickApprove(r) PROVE GateInv'
    BY <1>18 DEF QuickApprove
<1>19. ASSUME NEW r \in Requests, QuickDeny(r) PROVE GateInv'
    BY <1>19 DEF QuickDeny
<1>20. ASSUME NEW r \in Requests, DecisionUntrack(r) PROVE GateInv'
    BY <1>20 DEF DecisionUntrack
<1>21. ASSUME NEW r \in Requests, ApproveLock(r) PROVE GateInv'
    BY <1>21 DEF ApproveLock
<1>22. ASSUME NEW r \in Requests, ApproveCheck(r) PROVE GateInv'
    BY <1>22 DEF ApproveCheck, Startable
<1>23. ASSUME NEW r \in Requests, ApproveUpdate(r) PROVE GateInv'
    BY <1>23 DEF ApproveUpdate
<1>24. ASSUME NEW r \in Requests, ApproveUnlock(r) PROVE GateInv'
    BY <1>24 DEF ApproveUnlock
<1>25. ASSUME NEW r \in Requests, DenyClean(r) PROVE GateInv'
    BY <1>25 DEF DenyClean
<1>26. ASSUME NEW r \in Requests, DenyRecord(r) PROVE GateInv'
    BY <1>26 DEF DenyRecord
<1>27. ASSUME NEW r \in Requests, DecisionError(r) PROVE GateInv'
    BY <1>27 DEF DecisionError
<1>28. ASSUME NEW t \in Runs, RunBegin(t) PROVE GateInv'
    BY <1>28 DEF RunBegin
<1>29. ASSUME NEW t \in Runs, RunDownload(t) PROVE GateInv'
    BY <1>29 DEF RunDownload
<1>30. ASSUME NEW t \in Runs, RunConvert(t) PROVE GateInv'
    BY <1>30 DEF RunConvert
<1>31. ASSUME NEW t \in Runs, RunStoreMarkdown(t) PROVE GateInv'
    BY <1>31 DEF RunStoreMarkdown
<1>32. ASSUME NEW t \in Runs, RunStoreLedger(t) PROVE GateInv'
    BY <1>32 DEF RunStoreLedger
<1>33. ASSUME NEW t \in Runs, RunFinish(t) PROVE GateInv'
    BY <1>33 DEF RunFinish
<1>34. ASSUME NEW t \in Runs, RunFail(t) PROVE GateInv'
    BY <1>34 DEF RunFail
<1>35. ASSUME NEW t \in Runs, RunError(t) PROVE GateInv'
    BY <1>35 DEF RunError
<1>36. ASSUME StartApprovalCheck PROVE GateInv'
    BY <1>36 DEF StartApprovalCheck
<1>37. ASSUME CleanTemps PROVE GateInv'
    BY <1>37 DEF CleanTemps
<1>38. ASSUME StartStuckSweep PROVE GateInv'
    BY <1>38 DEF StartStuckSweep, UpdatedBefore
<1>39. ASSUME EndDuty PROVE GateInv'
    BY <1>39 DEF EndDuty, HandsFree
<1>40. ASSUME NEW j \in Jobs, ExamineExpired(j) PROVE GateInv'
    BY <1>40 DEF ExamineExpired, StillAwaiting, HandsFree
<1>41. ASSUME NEW j \in Jobs, FailExpired(j) PROVE GateInv'
    BY <1>41 DEF FailExpired
<1>42. ASSUME NEW j \in Jobs, Untrack(j) PROVE GateInv'
    BY <1>42 DEF Untrack
<1>43. ASSUME NEW j \in Jobs, ExamineStuck(j) PROVE GateInv'
    BY <1>43 DEF ExamineStuck, InWork, TooOld, HandsFree
<1>44. ASSUME NEW j \in Jobs, FailStuck(j) PROVE GateInv'
    BY <1>44 DEF FailStuck
<1>45. ASSUME NEW j \in Jobs, PatrolError(j) PROVE GateInv'
    BY <1>45 DEF PatrolError
<1>46. ASSUME NEW j \in Jobs, LockExpires(j) PROVE GateInv'
    BY <1>46 DEF LockExpires
<1>47. ASSUME Shutdown PROVE GateInv'
    BY <1>47 DEF Shutdown
<1>48. ASSUME Restart PROVE GateInv'
    BY <1>48 DEF Restart
<1>49. ASSUME Tick PROVE GateInv'
    BY <1>49 DEF Tick
<1>50. CASE UNCHANGED vars
    BY <1>50 DEF vars
<1> QED BY <1>1, <1>2, <1>3, <1>4, <1>5, <1>6, <1>7, <1>8, <1>9, <1>10, <1>11, <1>12, <1>13,
           <1>14, <1>15, <1>16, <1>17, <1>18, <1>19, <1>20, <1>21, <1>22, <1>23, <1>24, <1>25,
           <1>26, <1>27, <1>28, <1>29, <1>30, <1>31, <1>32, <1>33, <1>34, <1>35, <1>36, <1>37,
           <1>38, <1>39, <1>40, <1>41, <1>42, <1>43, <1>44, <1>45, <1>46, <1>47, <1>48, <1>49,
           <1>50
       DEF Next, TaskStep, SubmitStep, ScanStep, DecisionStep, RunStep, PatrolStep

(* A task is past a store only with the object in the bucket.              *)
LEMMA ResultStep == TypeOK /\ ResultInv /\ [Next]_vars => ResultInv'
<1> SUFFICES ASSUME TypeOK, ResultInv, [Next]_vars PROVE ResultInv'
    OBVIOUS
<1> DEFINE Types ==
        /\ status \in [Jobs -> Statuses]
        /\ run \in [Runs -> RunSteps]
        /\ result \in [Jobs -> SUBSET {"markdown", "ledger"}]
<1>types. Types
    BY DEF TypeOK
<1> USE <1>types, RequestFields, RunFields
    DEF ResultInv, CompletedHasResult, redis, s3, process, patrol, history, bounds, UpdateStatus,
        UpdateState, Fault, ReplyLost, Ended, DeleteUpload, ScanGoes, RequestGoes, RunGoes, RunFails,
        HandGoes, Store, Holding, Older, Existing, OldUploads
<1>1. ASSUME NEW j \in Jobs, SubmitStore(j) PROVE ResultInv'
    BY <1>1 DEF SubmitStore
<1>2. ASSUME NEW j \in Jobs, SubmitCreateSkipped(j) PROVE ResultInv'
    BY <1>2, DirectRuns DEF SubmitCreateSkipped, CreateJob
<1>3. ASSUME NEW j \in Jobs, SubmitCreateScanned(j) PROVE ResultInv'
    BY <1>3 DEF SubmitCreateScanned, CreateJob
<1>4. ASSUME NEW j \in Jobs, SubmitEnqueue(j) PROVE ResultInv'
    BY <1>4 DEF SubmitEnqueue, Enqueue
<1>5. ASSUME NEW j \in Jobs, SubmitError(j) PROVE ResultInv'
    BY <1>5 DEF SubmitError
<1>6. ASSUME ScanDequeue PROVE ResultInv'
    BY <1>6 DEF ScanDequeue, Dequeue, ScanIdle
<1>7. ASSUME NEW j \in Jobs, ScanRequeue(j) PROVE ResultInv'
    BY <1>7 DEF ScanRequeue, Enqueue
<1>8. ASSUME NEW j \in Jobs, ScanMark(j) PROVE ResultInv'
    BY <1>8 DEF ScanMark
<1>9. ASSUME NEW j \in Jobs, ScanAnalyze(j) PROVE ResultInv'
    BY <1>9 DEF ScanAnalyze, Route
<1>10. ASSUME NEW j \in Jobs, ScanPublish(j) PROVE ResultInv'
    BY <1>10 DEF ScanPublish
<1>11. ASSUME NEW j \in Jobs, ScanTrack(j) PROVE ResultInv'
    BY <1>11 DEF ScanTrack
<1>12. ASSUME NEW j \in Jobs, ScanMap(j) PROVE ResultInv'
    BY <1>12 DEF ScanMap
<1>13. ASSUME NEW j \in Jobs, ScanClear(j) PROVE ResultInv'
    BY <1>13 DEF ScanClear
<1>14. ASSUME NEW j \in Jobs, ScanLaunch(j) PROVE ResultInv'
    BY <1>14, DirectRuns DEF ScanLaunch
<1>15. ASSUME NEW j \in Jobs, ScanError(j) PROVE ResultInv'
    BY <1>15 DEF ScanError
<1>16. ASSUME NEW j \in Jobs, ScanFail(j) PROVE ResultInv'
    BY <1>16 DEF ScanFail
<1>17. ASSUME NEW r \in Requests, DecisionRead(r) PROVE ResultInv'
    BY <1>17 DEF DecisionRead, DecisionValid
<1>18. ASSUME NEW r \in Requests, QuickApprove(r) PROVE ResultInv'
    BY <1>18 DEF QuickApprove
<1>19. ASSUME NEW r \in Requests, QuickDeny(r) PROVE ResultInv'
    BY <1>19 DEF QuickDeny
<1>20. ASSUME NEW r \in Requests, DecisionUntrack(r) PROVE ResultInv'
    BY <1>20 DEF DecisionUntrack
<1>21. ASSUME NEW r \in Requests, ApproveLock(r) PROVE ResultInv'
    BY <1>21 DEF ApproveLock
<1>22. ASSUME NEW r \in Requests, ApproveCheck(r) PROVE ResultInv'
    BY <1>22 DEF ApproveCheck, Startable
<1>23. ASSUME NEW r \in Requests, ApproveUpdate(r) PROVE ResultInv'
    BY <1>23 DEF ApproveUpdate
<1>24. ASSUME NEW r \in Requests, ApproveUnlock(r) PROVE ResultInv'
    BY <1>24 DEF ApproveUnlock
<1>25. ASSUME NEW r \in Requests, DenyClean(r) PROVE ResultInv'
    BY <1>25 DEF DenyClean
<1>26. ASSUME NEW r \in Requests, DenyRecord(r) PROVE ResultInv'
    BY <1>26 DEF DenyRecord
<1>27. ASSUME NEW r \in Requests, DecisionError(r) PROVE ResultInv'
    BY <1>27 DEF DecisionError
<1>28. ASSUME NEW t \in Runs, RunBegin(t) PROVE ResultInv'
    BY <1>28 DEF RunBegin
<1>29. ASSUME NEW t \in Runs, RunDownload(t) PROVE ResultInv'
    BY <1>29 DEF RunDownload
<1>30. ASSUME NEW t \in Runs, RunConvert(t) PROVE ResultInv'
    BY <1>30 DEF RunConvert
<1>31. ASSUME NEW t \in Runs, RunStoreMarkdown(t) PROVE ResultInv'
    BY <1>31 DEF RunStoreMarkdown
<1>32. ASSUME NEW t \in Runs, RunStoreLedger(t) PROVE ResultInv'
    BY <1>32 DEF RunStoreLedger
<1>33. ASSUME NEW t \in Runs, RunFinish(t) PROVE ResultInv'
    BY <1>33 DEF RunFinish
<1>34. ASSUME NEW t \in Runs, RunFail(t) PROVE ResultInv'
    BY <1>34 DEF RunFail
<1>35. ASSUME NEW t \in Runs, RunError(t) PROVE ResultInv'
    BY <1>35 DEF RunError
<1>36. ASSUME StartApprovalCheck PROVE ResultInv'
    BY <1>36 DEF StartApprovalCheck
<1>37. ASSUME CleanTemps PROVE ResultInv'
    BY <1>37 DEF CleanTemps
<1>38. ASSUME StartStuckSweep PROVE ResultInv'
    BY <1>38 DEF StartStuckSweep, UpdatedBefore
<1>39. ASSUME EndDuty PROVE ResultInv'
    BY <1>39 DEF EndDuty, HandsFree
<1>40. ASSUME NEW j \in Jobs, ExamineExpired(j) PROVE ResultInv'
    BY <1>40 DEF ExamineExpired, StillAwaiting, HandsFree
<1>41. ASSUME NEW j \in Jobs, FailExpired(j) PROVE ResultInv'
    BY <1>41 DEF FailExpired
<1>42. ASSUME NEW j \in Jobs, Untrack(j) PROVE ResultInv'
    BY <1>42 DEF Untrack
<1>43. ASSUME NEW j \in Jobs, ExamineStuck(j) PROVE ResultInv'
    BY <1>43 DEF ExamineStuck, InWork, TooOld, HandsFree
<1>44. ASSUME NEW j \in Jobs, FailStuck(j) PROVE ResultInv'
    BY <1>44 DEF FailStuck
<1>45. ASSUME NEW j \in Jobs, PatrolError(j) PROVE ResultInv'
    BY <1>45 DEF PatrolError
<1>46. ASSUME NEW j \in Jobs, LockExpires(j) PROVE ResultInv'
    BY <1>46 DEF LockExpires
<1>47. ASSUME Shutdown PROVE ResultInv'
    BY <1>47 DEF Shutdown
<1>48. ASSUME Restart PROVE ResultInv'
    BY <1>48 DEF Restart
<1>49. ASSUME Tick PROVE ResultInv'
    BY <1>49 DEF Tick
<1>50. CASE UNCHANGED vars
    BY <1>50 DEF vars
<1> QED BY <1>1, <1>2, <1>3, <1>4, <1>5, <1>6, <1>7, <1>8, <1>9, <1>10, <1>11, <1>12, <1>13,
           <1>14, <1>15, <1>16, <1>17, <1>18, <1>19, <1>20, <1>21, <1>22, <1>23, <1>24, <1>25,
           <1>26, <1>27, <1>28, <1>29, <1>30, <1>31, <1>32, <1>33, <1>34, <1>35, <1>36, <1>37,
           <1>38, <1>39, <1>40, <1>41, <1>42, <1>43, <1>44, <1>45, <1>46, <1>47, <1>48, <1>49,
           <1>50
       DEF Next, TaskStep, SubmitStep, ScanStep, DecisionStep, RunStep, PatrolStep

(* One task per job holds the lock, and startable jobs have a licence.     *)
LEMMA LockStep == TypeOK /\ LockInv /\ [Next]_vars => LockInv'
<1> SUFFICES ASSUME TypeOK, LockInv, [Next]_vars PROVE LockInv'
    OBVIOUS
<1> DEFINE Types ==
        /\ status \in [Jobs -> Statuses]
        /\ req \in [Requests -> RequestSteps]
<1>types. Types
    BY DEF TypeOK
<1> USE <1>types, RequestFields, RunFields
    DEF LockInv, StartsAreLicensed, redis, s3, process, patrol, history, bounds, UpdateStatus,
        UpdateState, Fault, ReplyLost, Ended, DeleteUpload, ScanGoes, RequestGoes, RunGoes, RunFails,
        HandGoes, Store, Holding, Older, Existing, OldUploads
<1>1. ASSUME NEW j \in Jobs, SubmitStore(j) PROVE LockInv'
    BY <1>1 DEF SubmitStore
<1>2. ASSUME NEW j \in Jobs, SubmitCreateSkipped(j) PROVE LockInv'
    BY <1>2, DirectRuns DEF SubmitCreateSkipped, CreateJob
<1>3. ASSUME NEW j \in Jobs, SubmitCreateScanned(j) PROVE LockInv'
    BY <1>3 DEF SubmitCreateScanned, CreateJob
<1>4. ASSUME NEW j \in Jobs, SubmitEnqueue(j) PROVE LockInv'
    BY <1>4 DEF SubmitEnqueue, Enqueue
<1>5. ASSUME NEW j \in Jobs, SubmitError(j) PROVE LockInv'
    BY <1>5 DEF SubmitError
<1>6. ASSUME ScanDequeue PROVE LockInv'
    BY <1>6 DEF ScanDequeue, Dequeue, ScanIdle
<1>7. ASSUME NEW j \in Jobs, ScanRequeue(j) PROVE LockInv'
    BY <1>7 DEF ScanRequeue, Enqueue
<1>8. ASSUME NEW j \in Jobs, ScanMark(j) PROVE LockInv'
    BY <1>8 DEF ScanMark
<1>9. ASSUME NEW j \in Jobs, ScanAnalyze(j) PROVE LockInv'
    BY <1>9 DEF ScanAnalyze, Route
<1>10. ASSUME NEW j \in Jobs, ScanPublish(j) PROVE LockInv'
    BY <1>10 DEF ScanPublish
<1>11. ASSUME NEW j \in Jobs, ScanTrack(j) PROVE LockInv'
    BY <1>11 DEF ScanTrack
<1>12. ASSUME NEW j \in Jobs, ScanMap(j) PROVE LockInv'
    BY <1>12 DEF ScanMap
<1>13. ASSUME NEW j \in Jobs, ScanClear(j) PROVE LockInv'
    BY <1>13 DEF ScanClear
<1>14. ASSUME NEW j \in Jobs, ScanLaunch(j) PROVE LockInv'
    BY <1>14, DirectRuns DEF ScanLaunch
<1>15. ASSUME NEW j \in Jobs, ScanError(j) PROVE LockInv'
    BY <1>15 DEF ScanError
<1>16. ASSUME NEW j \in Jobs, ScanFail(j) PROVE LockInv'
    BY <1>16 DEF ScanFail
<1>17. ASSUME NEW r \in Requests, DecisionRead(r) PROVE LockInv'
    BY <1>17 DEF DecisionRead, DecisionValid
<1>18. ASSUME NEW r \in Requests, QuickApprove(r) PROVE LockInv'
    BY <1>18 DEF QuickApprove
<1>19. ASSUME NEW r \in Requests, QuickDeny(r) PROVE LockInv'
    BY <1>19 DEF QuickDeny
<1>20. ASSUME NEW r \in Requests, DecisionUntrack(r) PROVE LockInv'
    BY <1>20 DEF DecisionUntrack
<1>21. ASSUME NEW r \in Requests, ApproveLock(r) PROVE LockInv'
    BY <1>21 DEF ApproveLock
<1>22. ASSUME NEW r \in Requests, ApproveCheck(r) PROVE LockInv'
    BY <1>22 DEF ApproveCheck, Startable
<1>23. ASSUME NEW r \in Requests, ApproveUpdate(r) PROVE LockInv'
    BY <1>23 DEF ApproveUpdate
<1>24. ASSUME NEW r \in Requests, ApproveUnlock(r) PROVE LockInv'
    BY <1>24 DEF ApproveUnlock
<1>25. ASSUME NEW r \in Requests, DenyClean(r) PROVE LockInv'
    BY <1>25 DEF DenyClean
<1>26. ASSUME NEW r \in Requests, DenyRecord(r) PROVE LockInv'
    BY <1>26 DEF DenyRecord
<1>27. ASSUME NEW r \in Requests, DecisionError(r) PROVE LockInv'
    BY <1>27 DEF DecisionError
<1>28. ASSUME NEW t \in Runs, RunBegin(t) PROVE LockInv'
    BY <1>28 DEF RunBegin
<1>29. ASSUME NEW t \in Runs, RunDownload(t) PROVE LockInv'
    BY <1>29 DEF RunDownload
<1>30. ASSUME NEW t \in Runs, RunConvert(t) PROVE LockInv'
    BY <1>30 DEF RunConvert
<1>31. ASSUME NEW t \in Runs, RunStoreMarkdown(t) PROVE LockInv'
    BY <1>31 DEF RunStoreMarkdown
<1>32. ASSUME NEW t \in Runs, RunStoreLedger(t) PROVE LockInv'
    BY <1>32 DEF RunStoreLedger
<1>33. ASSUME NEW t \in Runs, RunFinish(t) PROVE LockInv'
    BY <1>33 DEF RunFinish
<1>34. ASSUME NEW t \in Runs, RunFail(t) PROVE LockInv'
    BY <1>34 DEF RunFail
<1>35. ASSUME NEW t \in Runs, RunError(t) PROVE LockInv'
    BY <1>35 DEF RunError
<1>36. ASSUME StartApprovalCheck PROVE LockInv'
    BY <1>36 DEF StartApprovalCheck
<1>37. ASSUME CleanTemps PROVE LockInv'
    BY <1>37 DEF CleanTemps
<1>38. ASSUME StartStuckSweep PROVE LockInv'
    BY <1>38 DEF StartStuckSweep, UpdatedBefore
<1>39. ASSUME EndDuty PROVE LockInv'
    BY <1>39 DEF EndDuty, HandsFree
<1>40. ASSUME NEW j \in Jobs, ExamineExpired(j) PROVE LockInv'
    BY <1>40 DEF ExamineExpired, StillAwaiting, HandsFree
<1>41. ASSUME NEW j \in Jobs, FailExpired(j) PROVE LockInv'
    BY <1>41 DEF FailExpired
<1>42. ASSUME NEW j \in Jobs, Untrack(j) PROVE LockInv'
    BY <1>42 DEF Untrack
<1>43. ASSUME NEW j \in Jobs, ExamineStuck(j) PROVE LockInv'
    BY <1>43 DEF ExamineStuck, InWork, TooOld, HandsFree
<1>44. ASSUME NEW j \in Jobs, FailStuck(j) PROVE LockInv'
    BY <1>44 DEF FailStuck
<1>45. ASSUME NEW j \in Jobs, PatrolError(j) PROVE LockInv'
    BY <1>45 DEF PatrolError
<1>46. ASSUME NEW j \in Jobs, LockExpires(j) PROVE LockInv'
    BY <1>46 DEF LockExpires
<1>47. ASSUME Shutdown PROVE LockInv'
    BY <1>47 DEF Shutdown
<1>48. ASSUME Restart PROVE LockInv'
    BY <1>48 DEF Restart
<1>49. ASSUME Tick PROVE LockInv'
    BY <1>49 DEF Tick
<1>50. CASE UNCHANGED vars
    BY <1>50 DEF vars
<1> QED BY <1>1, <1>2, <1>3, <1>4, <1>5, <1>6, <1>7, <1>8, <1>9, <1>10, <1>11, <1>12, <1>13,
           <1>14, <1>15, <1>16, <1>17, <1>18, <1>19, <1>20, <1>21, <1>22, <1>23, <1>24, <1>25,
           <1>26, <1>27, <1>28, <1>29, <1>30, <1>31, <1>32, <1>33, <1>34, <1>35, <1>36, <1>37,
           <1>38, <1>39, <1>40, <1>41, <1>42, <1>43, <1>44, <1>45, <1>46, <1>47, <1>48, <1>49,
           <1>50
       DEF Next, TaskStep, SubmitStep, ScanStep, DecisionStep, RunStep, PatrolStep

(* Uploads go only after a denial or past the age of the sweeps.           *)
LEMMA SourceStep == TypeOK /\ GateInv /\ SourceInv /\ [Next]_vars => SourceInv'
<1> SUFFICES ASSUME TypeOK, GateInv, SourceInv, [Next]_vars PROVE SourceInv'
    OBVIOUS
<1> DEFINE Types ==
        /\ submit \in [Jobs -> {"none", "stored", "created", "done"}]
        /\ run \in [Runs -> RunSteps]
        /\ scan \in [Jobs -> ScanSteps]
        /\ findings \in [Jobs -> {"unknown", "clean", "pii"}]
        /\ age \in [Jobs -> Nat]
        /\ hand \in [Jobs -> {"none", "drop", "fail", "untrack"}]
        /\ piiQueue \in Seq(Jobs)
        /\ RequestAgrees
        /\ \A r \in accepted : r \in Requests /\ findings[r.job] = "pii"
<1>types. Types
    BY DEF TypeOK, GateInv, RequestAgrees, OnlyClearedIsConverted
<1> USE <1>types, RequestFields, RunFields, ConstantsAssumption
    DEF RequestAgrees, SourceInv, Denied, HandsFree, redis, s3, process, patrol, history, bounds,
        UpdateStatus, UpdateState, Fault, ReplyLost, Ended, DeleteUpload, ScanGoes, RequestGoes,
        RunGoes, RunFails, HandGoes, Store, Holding, Older, Existing, OldUploads
<1>1. ASSUME NEW j \in Jobs, SubmitStore(j) PROVE SourceInv'
    BY <1>1 DEF SubmitStore
<1>2. ASSUME NEW j \in Jobs, SubmitCreateSkipped(j) PROVE SourceInv'
    BY <1>2, DirectRuns DEF SubmitCreateSkipped, CreateJob
<1>3. ASSUME NEW j \in Jobs, SubmitCreateScanned(j) PROVE SourceInv'
    <2>1. /\ submit[j] = "stored" /\ submit' = [submit EXCEPT ![j] = "created"]
          /\ UNCHANGED <<temp, age, accepted, duty, hand, scan, findings, piiQueue, run>>
        BY <1>3 DEF SubmitCreateScanned
    <2> QED BY <2>1
<1>4. ASSUME NEW j \in Jobs, SubmitEnqueue(j) PROVE SourceInv'
    <2>1. /\ submit[j] = "created" /\ submit' = [submit EXCEPT ![j] = "done"]
          /\ piiQueue' = Append(piiQueue, j)
          /\ UNCHANGED <<temp, age, accepted, duty, hand, scan, findings, run>>
        BY <1>4 DEF SubmitEnqueue, Enqueue
    <2>2. \A k \in Jobs : submit[k] # "none" <=> submit'[k] # "none"
        BY <2>1
    <2>3. \A i \in 1..Len(piiQueue') : submit'[piiQueue'[i]] # "none"
        BY <2>1, <2>2
    <2> QED BY <2>1, <2>2, <2>3
<1>5. ASSUME NEW j \in Jobs, SubmitError(j) PROVE SourceInv'
    BY <1>5 DEF SubmitError
<1>6. ASSUME ScanDequeue PROVE SourceInv'
    <2>1. \A i \in 1..Len(piiQueue') : submit'[piiQueue'[i]] # "none"
        BY <1>6 DEF ScanDequeue, Dequeue
    <2>2. \A k \in Jobs : scan'[k] # "none" => submit'[k] # "none"
        BY <1>6 DEF ScanDequeue, Dequeue
    <2> QED BY <1>6, <2>1, <2>2 DEF ScanDequeue, Dequeue
<1>7. ASSUME NEW j \in Jobs, ScanRequeue(j) PROVE SourceInv'
    BY <1>7 DEF ScanRequeue, Enqueue
<1>8. ASSUME NEW j \in Jobs, ScanMark(j) PROVE SourceInv'
    BY <1>8 DEF ScanMark
<1>9. ASSUME NEW j \in Jobs, ScanAnalyze(j) PROVE SourceInv'
    BY <1>9 DEF ScanAnalyze, Route
<1>10. ASSUME NEW j \in Jobs, ScanPublish(j) PROVE SourceInv'
    BY <1>10 DEF ScanPublish
<1>11. ASSUME NEW j \in Jobs, ScanTrack(j) PROVE SourceInv'
    BY <1>11 DEF ScanTrack
<1>12. ASSUME NEW j \in Jobs, ScanMap(j) PROVE SourceInv'
    BY <1>12 DEF ScanMap
<1>13. ASSUME NEW j \in Jobs, ScanClear(j) PROVE SourceInv'
    BY <1>13 DEF ScanClear
<1>14. ASSUME NEW j \in Jobs, ScanLaunch(j) PROVE SourceInv'
    BY <1>14, DirectRuns DEF ScanLaunch
<1>15. ASSUME NEW j \in Jobs, ScanError(j) PROVE SourceInv'
    <2>1. UNCHANGED <<submit, findings, age, hand, duty, piiQueue, temp, run, accepted>>
        BY <1>15 DEF ScanError
    <2>2. \A k \in Jobs : scan'[k] # "none" => scan[k] # "none"
        BY <1>15 DEF ScanError
    <2> QED BY <2>1, <2>2
<1>16. ASSUME NEW j \in Jobs, ScanFail(j) PROVE SourceInv'
    <2>1. UNCHANGED <<submit, findings, age, hand, duty, piiQueue, temp, run, accepted>>
        BY <1>16 DEF ScanFail
    <2>2. \A k \in Jobs : scan'[k] # "none" => scan[k] # "none"
        BY <1>16 DEF ScanFail
    <2> QED BY <2>1, <2>2
<1>17. ASSUME NEW r \in Requests, DecisionRead(r) PROVE SourceInv'
    BY <1>17 DEF DecisionRead, DecisionValid
<1>18. ASSUME NEW r \in Requests, QuickApprove(r) PROVE SourceInv'
    BY <1>18 DEF QuickApprove
<1>19. ASSUME NEW r \in Requests, QuickDeny(r) PROVE SourceInv'
    BY <1>19 DEF QuickDeny
<1>20. ASSUME NEW r \in Requests, DecisionUntrack(r) PROVE SourceInv'
    BY <1>20 DEF DecisionUntrack
<1>21. ASSUME NEW r \in Requests, ApproveLock(r) PROVE SourceInv'
    BY <1>21 DEF ApproveLock
<1>22. ASSUME NEW r \in Requests, ApproveCheck(r) PROVE SourceInv'
    BY <1>22 DEF ApproveCheck, Startable
<1>23. ASSUME NEW r \in Requests, ApproveUpdate(r) PROVE SourceInv'
    BY <1>23 DEF ApproveUpdate
<1>24. ASSUME NEW r \in Requests, ApproveUnlock(r) PROVE SourceInv'
    BY <1>24 DEF ApproveUnlock
<1>25. ASSUME NEW r \in Requests, DenyClean(r) PROVE SourceInv'
    BY <1>25 DEF DenyClean
<1>26. ASSUME NEW r \in Requests, DenyRecord(r) PROVE SourceInv'
    BY <1>26 DEF DenyRecord
<1>27. ASSUME NEW r \in Requests, DecisionError(r) PROVE SourceInv'
    BY <1>27 DEF DecisionError
<1>28. ASSUME NEW t \in Runs, RunBegin(t) PROVE SourceInv'
    BY <1>28 DEF RunBegin
<1>29. ASSUME NEW t \in Runs, RunDownload(t) PROVE SourceInv'
    BY <1>29 DEF RunDownload
<1>30. ASSUME NEW t \in Runs, RunConvert(t) PROVE SourceInv'
    BY <1>30 DEF RunConvert
<1>31. ASSUME NEW t \in Runs, RunStoreMarkdown(t) PROVE SourceInv'
    BY <1>31 DEF RunStoreMarkdown
<1>32. ASSUME NEW t \in Runs, RunStoreLedger(t) PROVE SourceInv'
    BY <1>32 DEF RunStoreLedger
<1>33. ASSUME NEW t \in Runs, RunFinish(t) PROVE SourceInv'
    BY <1>33 DEF RunFinish
<1>34. ASSUME NEW t \in Runs, RunFail(t) PROVE SourceInv'
    BY <1>34 DEF RunFail
<1>35. ASSUME NEW t \in Runs, RunError(t) PROVE SourceInv'
    BY <1>35 DEF RunError
<1>36. ASSUME StartApprovalCheck PROVE SourceInv'
    BY <1>36 DEF StartApprovalCheck
<1>37. ASSUME CleanTemps PROVE SourceInv'
    BY <1>37 DEF CleanTemps
<1>38. ASSUME StartStuckSweep PROVE SourceInv'
    BY <1>38 DEF StartStuckSweep, UpdatedBefore
<1>39. ASSUME EndDuty PROVE SourceInv'
    BY <1>39 DEF EndDuty
<1>40. ASSUME NEW j \in Jobs, ExamineExpired(j) PROVE SourceInv'
    BY <1>40 DEF ExamineExpired, StillAwaiting
<1>41. ASSUME NEW j \in Jobs, FailExpired(j) PROVE SourceInv'
    BY <1>41 DEF FailExpired
<1>42. ASSUME NEW j \in Jobs, Untrack(j) PROVE SourceInv'
    BY <1>42 DEF Untrack
<1>43. ASSUME NEW j \in Jobs, ExamineStuck(j) PROVE SourceInv'
    BY <1>43 DEF ExamineStuck, InWork, TooOld
<1>44. ASSUME NEW j \in Jobs, FailStuck(j) PROVE SourceInv'
    BY <1>44 DEF FailStuck
<1>45. ASSUME NEW j \in Jobs, PatrolError(j) PROVE SourceInv'
    BY <1>45 DEF PatrolError
<1>46. ASSUME NEW j \in Jobs, LockExpires(j) PROVE SourceInv'
    BY <1>46 DEF LockExpires
<1>47. ASSUME Shutdown PROVE SourceInv'
    BY <1>47 DEF Shutdown
<1>48. ASSUME Restart PROVE SourceInv'
    BY <1>48 DEF Restart
<1>49. ASSUME Tick PROVE SourceInv'
    BY <1>49 DEF Tick
<1>50. CASE UNCHANGED vars
    BY <1>50 DEF vars
<1> QED BY <1>1, <1>2, <1>3, <1>4, <1>5, <1>6, <1>7, <1>8, <1>9, <1>10, <1>11, <1>12, <1>13,
           <1>14, <1>15, <1>16, <1>17, <1>18, <1>19, <1>20, <1>21, <1>22, <1>23, <1>24, <1>25,
           <1>26, <1>27, <1>28, <1>29, <1>30, <1>31, <1>32, <1>33, <1>34, <1>35, <1>36, <1>37,
           <1>38, <1>39, <1>40, <1>41, <1>42, <1>43, <1>44, <1>45, <1>46, <1>47, <1>48, <1>49,
           <1>50
       DEF Next, TaskStep, SubmitStep, ScanStep, DecisionStep, RunStep, PatrolStep

(* A job is in the queue or at the worker once.                            *)
LEMMA OnceStep == TypeOK /\ ComesOnce /\ [Next]_vars => ComesOnce'
<1> SUFFICES ASSUME TypeOK, ComesOnce, [Next]_vars PROVE ComesOnce'
    OBVIOUS
<1> DEFINE Types ==
        /\ submit \in [Jobs -> {"none", "stored", "created", "done"}]
        /\ scan \in [Jobs -> ScanSteps]
        /\ piiQueue \in Seq(Jobs)
<1>types. Types
    BY DEF TypeOK
<1> USE <1>types, RequestFields, RunFields
    DEF ComesOnce, redis, s3, process, patrol, history, bounds, UpdateStatus, UpdateState, Fault,
        ReplyLost, Ended, DeleteUpload, ScanGoes, RequestGoes, RunGoes, RunFails, HandGoes, Store,
        Holding, Older, Existing, OldUploads
<1>1. ASSUME NEW j \in Jobs, SubmitStore(j) PROVE ComesOnce'
    BY <1>1 DEF SubmitStore
<1>2. ASSUME NEW j \in Jobs, SubmitCreateSkipped(j) PROVE ComesOnce'
    BY <1>2, DirectRuns DEF SubmitCreateSkipped, CreateJob
<1>3. ASSUME NEW j \in Jobs, SubmitCreateScanned(j) PROVE ComesOnce'
    BY <1>3 DEF SubmitCreateScanned, CreateJob
<1>4. ASSUME NEW j \in Jobs, SubmitEnqueue(j) PROVE ComesOnce'
    BY <1>4 DEF SubmitEnqueue, Enqueue
<1>5. ASSUME NEW j \in Jobs, SubmitError(j) PROVE ComesOnce'
    BY <1>5 DEF SubmitError
<1>6. ASSUME ScanDequeue PROVE ComesOnce'
    BY <1>6 DEF ScanDequeue, Dequeue, ScanIdle
<1>7. ASSUME NEW j \in Jobs, ScanRequeue(j) PROVE ComesOnce'
    <2>1. CASE piiQueue' = Append(piiQueue, j) /\ UNCHANGED <<disturbed, faults>>
        BY <1>7, <2>1 DEF ScanRequeue, Enqueue
    <2>2. CASE Fault /\ disturbed' = disturbed \cup {j} /\ UNCHANGED piiQueue
        BY <1>7, <2>2 DEF ScanRequeue, Enqueue
    <2> QED BY <1>7, <2>1, <2>2 DEF ScanRequeue, Enqueue
<1>8. ASSUME NEW j \in Jobs, ScanMark(j) PROVE ComesOnce'
    BY <1>8 DEF ScanMark
<1>9. ASSUME NEW j \in Jobs, ScanAnalyze(j) PROVE ComesOnce'
    BY <1>9 DEF ScanAnalyze, Route
<1>10. ASSUME NEW j \in Jobs, ScanPublish(j) PROVE ComesOnce'
    BY <1>10 DEF ScanPublish
<1>11. ASSUME NEW j \in Jobs, ScanTrack(j) PROVE ComesOnce'
    BY <1>11 DEF ScanTrack
<1>12. ASSUME NEW j \in Jobs, ScanMap(j) PROVE ComesOnce'
    BY <1>12 DEF ScanMap
<1>13. ASSUME NEW j \in Jobs, ScanClear(j) PROVE ComesOnce'
    BY <1>13 DEF ScanClear
<1>14. ASSUME NEW j \in Jobs, ScanLaunch(j) PROVE ComesOnce'
    BY <1>14, DirectRuns DEF ScanLaunch
<1>15. ASSUME NEW j \in Jobs, ScanError(j) PROVE ComesOnce'
    BY <1>15 DEF ScanError
<1>16. ASSUME NEW j \in Jobs, ScanFail(j) PROVE ComesOnce'
    BY <1>16 DEF ScanFail
<1>17. ASSUME NEW r \in Requests, DecisionRead(r) PROVE ComesOnce'
    BY <1>17 DEF DecisionRead, DecisionValid
<1>18. ASSUME NEW r \in Requests, QuickApprove(r) PROVE ComesOnce'
    BY <1>18 DEF QuickApprove
<1>19. ASSUME NEW r \in Requests, QuickDeny(r) PROVE ComesOnce'
    BY <1>19 DEF QuickDeny
<1>20. ASSUME NEW r \in Requests, DecisionUntrack(r) PROVE ComesOnce'
    BY <1>20 DEF DecisionUntrack
<1>21. ASSUME NEW r \in Requests, ApproveLock(r) PROVE ComesOnce'
    BY <1>21 DEF ApproveLock
<1>22. ASSUME NEW r \in Requests, ApproveCheck(r) PROVE ComesOnce'
    BY <1>22 DEF ApproveCheck, Startable
<1>23. ASSUME NEW r \in Requests, ApproveUpdate(r) PROVE ComesOnce'
    BY <1>23 DEF ApproveUpdate
<1>24. ASSUME NEW r \in Requests, ApproveUnlock(r) PROVE ComesOnce'
    BY <1>24 DEF ApproveUnlock
<1>25. ASSUME NEW r \in Requests, DenyClean(r) PROVE ComesOnce'
    BY <1>25 DEF DenyClean
<1>26. ASSUME NEW r \in Requests, DenyRecord(r) PROVE ComesOnce'
    BY <1>26 DEF DenyRecord
<1>27. ASSUME NEW r \in Requests, DecisionError(r) PROVE ComesOnce'
    BY <1>27 DEF DecisionError
<1>28. ASSUME NEW t \in Runs, RunBegin(t) PROVE ComesOnce'
    BY <1>28 DEF RunBegin
<1>29. ASSUME NEW t \in Runs, RunDownload(t) PROVE ComesOnce'
    BY <1>29 DEF RunDownload
<1>30. ASSUME NEW t \in Runs, RunConvert(t) PROVE ComesOnce'
    BY <1>30 DEF RunConvert
<1>31. ASSUME NEW t \in Runs, RunStoreMarkdown(t) PROVE ComesOnce'
    BY <1>31 DEF RunStoreMarkdown
<1>32. ASSUME NEW t \in Runs, RunStoreLedger(t) PROVE ComesOnce'
    BY <1>32 DEF RunStoreLedger
<1>33. ASSUME NEW t \in Runs, RunFinish(t) PROVE ComesOnce'
    BY <1>33 DEF RunFinish
<1>34. ASSUME NEW t \in Runs, RunFail(t) PROVE ComesOnce'
    BY <1>34 DEF RunFail
<1>35. ASSUME NEW t \in Runs, RunError(t) PROVE ComesOnce'
    BY <1>35 DEF RunError
<1>36. ASSUME StartApprovalCheck PROVE ComesOnce'
    BY <1>36 DEF StartApprovalCheck
<1>37. ASSUME CleanTemps PROVE ComesOnce'
    BY <1>37 DEF CleanTemps
<1>38. ASSUME StartStuckSweep PROVE ComesOnce'
    BY <1>38 DEF StartStuckSweep, UpdatedBefore
<1>39. ASSUME EndDuty PROVE ComesOnce'
    BY <1>39 DEF EndDuty, HandsFree
<1>40. ASSUME NEW j \in Jobs, ExamineExpired(j) PROVE ComesOnce'
    BY <1>40 DEF ExamineExpired, StillAwaiting, HandsFree
<1>41. ASSUME NEW j \in Jobs, FailExpired(j) PROVE ComesOnce'
    BY <1>41 DEF FailExpired
<1>42. ASSUME NEW j \in Jobs, Untrack(j) PROVE ComesOnce'
    BY <1>42 DEF Untrack
<1>43. ASSUME NEW j \in Jobs, ExamineStuck(j) PROVE ComesOnce'
    BY <1>43 DEF ExamineStuck, InWork, TooOld, HandsFree
<1>44. ASSUME NEW j \in Jobs, FailStuck(j) PROVE ComesOnce'
    BY <1>44 DEF FailStuck
<1>45. ASSUME NEW j \in Jobs, PatrolError(j) PROVE ComesOnce'
    BY <1>45 DEF PatrolError
<1>46. ASSUME NEW j \in Jobs, LockExpires(j) PROVE ComesOnce'
    BY <1>46 DEF LockExpires
<1>47. ASSUME Shutdown PROVE ComesOnce'
    BY <1>47 DEF Shutdown
<1>48. ASSUME Restart PROVE ComesOnce'
    BY <1>48 DEF Restart
<1>49. ASSUME Tick PROVE ComesOnce'
    BY <1>49 DEF Tick
<1>50. CASE UNCHANGED vars
    BY <1>50 DEF vars
<1> QED BY <1>1, <1>2, <1>3, <1>4, <1>5, <1>6, <1>7, <1>8, <1>9, <1>10, <1>11, <1>12, <1>13,
           <1>14, <1>15, <1>16, <1>17, <1>18, <1>19, <1>20, <1>21, <1>22, <1>23, <1>24, <1>25,
           <1>26, <1>27, <1>28, <1>29, <1>30, <1>31, <1>32, <1>33, <1>34, <1>35, <1>36, <1>37,
           <1>38, <1>39, <1>40, <1>41, <1>42, <1>43, <1>44, <1>45, <1>46, <1>47, <1>48, <1>49,
           <1>50
       DEF Next, TaskStep, SubmitStep, ScanStep, DecisionStep, RunStep, PatrolStep

(* A restart ends every task, and with it whatever a task knew of a job.   *)
LEMMA RestartTracks == TypeOK /\ TrackInv /\ Restart => TrackInv'
<1> SUFFICES ASSUME TypeOK, TrackInv, Restart PROVE TrackInv'
    OBVIOUS
<1>1. /\ \A j \in Jobs : scan'[j] = "none" /\ hand'[j] = "none"
      /\ duty' = "idle" /\ todo' = {}
      /\ piiQueue' = piiQueue /\ mapped' = mapped /\ tracked' = tracked /\ status' = status
      /\ accepted' = accepted
    BY DEF Restart, redis
<1>2. \A r \in Requests :
        /\ req[r] = "new" => req'[r] = "new"
        /\ req[r] \notin {"new", "quick"} => req'[r] \notin {"new", "quick"}
        /\ req'[r] # "untrack"
    BY DEF Restart
<1>3. \A j \in Jobs : submit'[j] \in {"none", "stored", "created"} => submit[j] = "none"
    BY DEF Restart, TypeOK
<1>4. \A j \in Jobs : j \notin disturbed' => j \notin disturbed /\ scan[j] = "none"
    BY DEF Restart
<1>5. UnpublishedIsUnseen'
    <2> SUFFICES ASSUME NEW j \in Jobs, Unpublished(j)', j \notin disturbed'
                 PROVE  /\ j \notin mapped' /\ j \notin tracked'
                        /\ status'[j] # "awaiting_approval" /\ duty' # "approvals"
                        /\ \A r \in Requests : r.job = j => req'[r] = "new"
        BY DEF UnpublishedIsUnseen
    <2>1. Unpublished(j) /\ j \notin disturbed
        BY <1>1, <1>3, <1>4 DEF Unpublished
    <2>2. /\ j \notin mapped /\ j \notin tracked /\ status[j] # "awaiting_approval"
          /\ \A r \in Requests : r.job = j => req[r] = "new"
        BY <2>1 DEF TrackInv, UnpublishedIsUnseen
    <2>3. \A r \in Requests : r.job = j => req'[r] = "new"
        BY <1>2, <2>2
    <2> QED BY <1>1, <2>2, <2>3
<1>6. UntrackedIsDecided'
    <2>1. \A r \in accepted' : req'[r] \notin {"new", "quick"}
        BY <1>1, <1>2 DEF TrackInv, UntrackedIsDecided, TypeOK
    <2>2. HandsFree' /\ \A j \in Jobs : hand'[j] \notin {"drop", "untrack"}
        BY <1>1 DEF HandsFree
    <2>3. \A r \in Requests : req'[r] # "untrack"
        BY <1>2
    <2> QED BY <1>1, <2>1, <2>2, <2>3 DEF UntrackedIsDecided
<1>7. AwaitingIsTracked'
    BY <1>1, <1>4 DEF TrackInv, AwaitingIsTracked
<1> QED BY <1>5, <1>6, <1>7 DEF TrackInv

(* Nobody sees a job before its scan publishes it; nobody takes it off the *)
(* deadline list before moving it on.                                      *)
LEMMA TrackStep == TypeOK /\ ComesOnce /\ TrackInv /\ [Next]_vars => TrackInv'
<1> SUFFICES ASSUME TypeOK, ComesOnce, TrackInv, [Next]_vars PROVE TrackInv'
    OBVIOUS
<1> DEFINE Types ==
        /\ submit \in [Jobs -> {"none", "stored", "created", "done"}]
        /\ req \in [Requests -> RequestSteps]
        /\ scan \in [Jobs -> ScanSteps]
        /\ hand \in [Jobs -> {"none", "drop", "fail", "untrack"}]
        /\ status \in [Jobs -> Statuses]
        /\ piiQueue \in Seq(Jobs)
        /\ accepted \subseteq Requests
<1>types. Types
    BY DEF TypeOK
<1> USE <1>types, RequestFields, RunFields
    DEF TrackInv, ComesOnce, UnpublishedIsUnseen, Unpublished, UntrackedIsDecided,
        AwaitingIsTracked, HandsFree, redis, s3, process, patrol, history, bounds, UpdateStatus,
        UpdateState, Fault, ReplyLost, Ended, DeleteUpload, ScanGoes, RequestGoes, RunGoes, RunFails,
        HandGoes, Store, Holding, Older, Existing, OldUploads
<1>1. ASSUME NEW j \in Jobs, SubmitStore(j) PROVE TrackInv'
    BY <1>1 DEF SubmitStore
<1>2. ASSUME NEW j \in Jobs, SubmitCreateSkipped(j) PROVE TrackInv'
    BY <1>2, DirectRuns DEF SubmitCreateSkipped, CreateJob
<1>3. ASSUME NEW j \in Jobs, SubmitCreateScanned(j) PROVE TrackInv'
    <2>1. /\ submit[j] = "stored" /\ submit' = [submit EXCEPT ![j] = "created"]
          /\ status' = [status EXCEPT ![j] = "pii_scanning"]
          /\ UNCHANGED <<piiQueue, tracked, mapped, scan, req, patrol, history>>
        BY <1>3 DEF SubmitCreateScanned, CreateJob
    <2>2. UnpublishedIsUnseen'
        BY <2>1
    <2>3. UntrackedIsDecided' /\ AwaitingIsTracked'
        BY <2>1
    <2> QED BY <2>2, <2>3
<1>4. ASSUME NEW j \in Jobs, SubmitEnqueue(j) PROVE TrackInv'
    BY <1>4 DEF SubmitEnqueue, Enqueue
<1>5. ASSUME NEW j \in Jobs, SubmitError(j) PROVE TrackInv'
    BY <1>5 DEF SubmitError
<1>6. ASSUME ScanDequeue PROVE TrackInv'
    BY <1>6 DEF ScanDequeue, Dequeue, ScanIdle
<1>7. ASSUME NEW j \in Jobs, ScanRequeue(j) PROVE TrackInv'
    <2>1. CASE piiQueue' = Append(piiQueue, j) /\ UNCHANGED <<disturbed, faults>>
        BY <1>7, <2>1 DEF ScanRequeue, Enqueue
    <2>2. CASE Fault /\ disturbed' = disturbed \cup {j} /\ UNCHANGED piiQueue
        BY <1>7, <2>2 DEF ScanRequeue, Enqueue
    <2> QED BY <1>7, <2>1, <2>2 DEF ScanRequeue, Enqueue
<1>8. ASSUME NEW j \in Jobs, ScanMark(j) PROVE TrackInv'
    BY <1>8 DEF ScanMark
<1>9. ASSUME NEW j \in Jobs, ScanAnalyze(j) PROVE TrackInv'
    BY <1>9 DEF ScanAnalyze, Route
<1>10. ASSUME NEW j \in Jobs, ScanPublish(j) PROVE TrackInv'
    BY <1>10 DEF ScanPublish
<1>11. ASSUME NEW j \in Jobs, ScanTrack(j) PROVE TrackInv'
    BY <1>11 DEF ScanTrack
<1>12. ASSUME NEW j \in Jobs, ScanMap(j) PROVE TrackInv'
    BY <1>12 DEF ScanMap
<1>13. ASSUME NEW j \in Jobs, ScanClear(j) PROVE TrackInv'
    BY <1>13 DEF ScanClear
<1>14. ASSUME NEW j \in Jobs, ScanLaunch(j) PROVE TrackInv'
    BY <1>14, DirectRuns DEF ScanLaunch
<1>15. ASSUME NEW j \in Jobs, ScanError(j) PROVE TrackInv'
    BY <1>15 DEF ScanError
<1>16. ASSUME NEW j \in Jobs, ScanFail(j) PROVE TrackInv'
    BY <1>16 DEF ScanFail
<1>17. ASSUME NEW r \in Requests, DecisionRead(r) PROVE TrackInv'
    BY <1>17 DEF DecisionRead, DecisionValid
<1>18. ASSUME NEW r \in Requests, QuickApprove(r) PROVE TrackInv'
    BY <1>18 DEF QuickApprove
<1>19. ASSUME NEW r \in Requests, QuickDeny(r) PROVE TrackInv'
    BY <1>19 DEF QuickDeny
<1>20. ASSUME NEW r \in Requests, DecisionUntrack(r) PROVE TrackInv'
    BY <1>20 DEF DecisionUntrack
<1>21. ASSUME NEW r \in Requests, ApproveLock(r) PROVE TrackInv'
    BY <1>21 DEF ApproveLock
<1>22. ASSUME NEW r \in Requests, ApproveCheck(r) PROVE TrackInv'
    BY <1>22 DEF ApproveCheck, Startable
<1>23. ASSUME NEW r \in Requests, ApproveUpdate(r) PROVE TrackInv'
    BY <1>23 DEF ApproveUpdate
<1>24. ASSUME NEW r \in Requests, ApproveUnlock(r) PROVE TrackInv'
    BY <1>24 DEF ApproveUnlock
<1>25. ASSUME NEW r \in Requests, DenyClean(r) PROVE TrackInv'
    BY <1>25 DEF DenyClean
<1>26. ASSUME NEW r \in Requests, DenyRecord(r) PROVE TrackInv'
    BY <1>26 DEF DenyRecord
<1>27. ASSUME NEW r \in Requests, DecisionError(r) PROVE TrackInv'
    BY <1>27 DEF DecisionError
<1>28. ASSUME NEW t \in Runs, RunBegin(t) PROVE TrackInv'
    BY <1>28 DEF RunBegin
<1>29. ASSUME NEW t \in Runs, RunDownload(t) PROVE TrackInv'
    BY <1>29 DEF RunDownload
<1>30. ASSUME NEW t \in Runs, RunConvert(t) PROVE TrackInv'
    BY <1>30 DEF RunConvert
<1>31. ASSUME NEW t \in Runs, RunStoreMarkdown(t) PROVE TrackInv'
    BY <1>31 DEF RunStoreMarkdown
<1>32. ASSUME NEW t \in Runs, RunStoreLedger(t) PROVE TrackInv'
    BY <1>32 DEF RunStoreLedger
<1>33. ASSUME NEW t \in Runs, RunFinish(t) PROVE TrackInv'
    BY <1>33 DEF RunFinish
<1>34. ASSUME NEW t \in Runs, RunFail(t) PROVE TrackInv'
    BY <1>34 DEF RunFail
<1>35. ASSUME NEW t \in Runs, RunError(t) PROVE TrackInv'
    BY <1>35 DEF RunError
<1>36. ASSUME StartApprovalCheck PROVE TrackInv'
    BY <1>36 DEF StartApprovalCheck
<1>37. ASSUME CleanTemps PROVE TrackInv'
    BY <1>37 DEF CleanTemps
<1>38. ASSUME StartStuckSweep PROVE TrackInv'
    BY <1>38 DEF StartStuckSweep, UpdatedBefore
<1>39. ASSUME EndDuty PROVE TrackInv'
    BY <1>39 DEF EndDuty
<1>40. ASSUME NEW j \in Jobs, ExamineExpired(j) PROVE TrackInv'
    BY <1>40 DEF ExamineExpired, StillAwaiting
<1>41. ASSUME NEW j \in Jobs, FailExpired(j) PROVE TrackInv'
    BY <1>41 DEF FailExpired
<1>42. ASSUME NEW j \in Jobs, Untrack(j) PROVE TrackInv'
    BY <1>42 DEF Untrack
<1>43. ASSUME NEW j \in Jobs, ExamineStuck(j) PROVE TrackInv'
    BY <1>43 DEF ExamineStuck, InWork, TooOld
<1>44. ASSUME NEW j \in Jobs, FailStuck(j) PROVE TrackInv'
    BY <1>44 DEF FailStuck
<1>45. ASSUME NEW j \in Jobs, PatrolError(j) PROVE TrackInv'
    BY <1>45 DEF PatrolError
<1>46. ASSUME NEW j \in Jobs, LockExpires(j) PROVE TrackInv'
    BY <1>46 DEF LockExpires
<1>47. ASSUME Shutdown PROVE TrackInv'
    BY <1>47 DEF Shutdown
<1>48. ASSUME Restart PROVE TrackInv'
    BY <1>48, RestartTracks
<1>49. ASSUME Tick PROVE TrackInv'
    BY <1>49 DEF Tick
<1>50. CASE UNCHANGED vars
    BY <1>50 DEF vars
<1> QED BY <1>1, <1>2, <1>3, <1>4, <1>5, <1>6, <1>7, <1>8, <1>9, <1>10, <1>11, <1>12, <1>13,
           <1>14, <1>15, <1>16, <1>17, <1>18, <1>19, <1>20, <1>21, <1>22, <1>23, <1>24, <1>25,
           <1>26, <1>27, <1>28, <1>29, <1>30, <1>31, <1>32, <1>33, <1>34, <1>35, <1>36, <1>37,
           <1>38, <1>39, <1>40, <1>41, <1>42, <1>43, <1>44, <1>45, <1>46, <1>47, <1>48, <1>49,
           <1>50
       DEF Next, TaskStep, SubmitStep, ScanStep, DecisionStep, RunStep, PatrolStep

-----------------------------------------------------------------------------
(* The invariants hold from the start, together.                           *)

LEMMA SafetyInit == Init => SafetyInv
<1> SUFFICES ASSUME Init PROVE SafetyInv
    OBVIOUS
<1> USE RequestFields, RunFields DEF Init
<1>1. GateInv
    BY DEF GateInv, ScanAgrees, RequestAgrees, OnlyClearedIsConverted
<1>2. ResultInv
    BY DEF ResultInv, CompletedHasResult
<1>3. LockInv
    BY DEF LockInv, StartsAreLicensed, Holding
<1>4. SourceInv
    BY DEF SourceInv, HandsFree
<1>5. ComesOnce
    BY DEF ComesOnce
<1>6. TrackInv
    BY DEF TrackInv, UnpublishedIsUnseen, UntrackedIsDecided, AwaitingIsTracked, HandsFree
<1> QED BY <1>1, <1>2, <1>3, <1>4, <1>5, <1>6 DEF SafetyInv

LEMMA SafetyStep == TypeOK /\ SafetyInv /\ [Next]_vars => SafetyInv'
BY GateStep, ResultStep, LockStep, SourceStep, OnceStep, TrackStep DEF SafetyInv

LEMMA SafetyHolds == Spec => [](TypeOK /\ SafetyInv)
BY TypeInit, TypeStep, SafetyInit, SafetyStep, PTL DEF Spec

(* Nothing is converted that was not skipped, clean or approved, and       *)
(* nothing is decided on that was not flagged.                             *)
THEOREM GateTheorem == Spec => []OnlyClearedIsConverted
<1>1. SafetyInv => OnlyClearedIsConverted
    BY DEF SafetyInv, GateInv
<1> QED BY <1>1, SafetyHolds, PTL

(* A completed job has its markdown and its ledger.                        *)
THEOREM ResultTheorem == Spec => []CompletedHasResult
<1>1. SafetyInv => CompletedHasResult
    BY DEF SafetyInv, ResultInv
<1> QED BY <1>1, SafetyHolds, PTL

(* Racing approvals start the pipeline once per licence.                   *)
THEOREM LicenceTheorem == Spec => []StartsAreLicensed
<1>1. SafetyInv => StartsAreLicensed
    BY DEF SafetyInv, LockInv
<1> QED BY <1>1, SafetyHolds, PTL

(* An undisturbed job that awaits approval is, or is about to be, on the   *)
(* deadline list.                                                          *)
THEOREM TrackTheorem == Spec => []AwaitingIsTracked
<1>1. SafetyInv => AwaitingIsTracked
    BY DEF SafetyInv, TrackInv
<1> QED BY <1>1, SafetyHolds, PTL

(* A task that has still to download finds the upload, unless the job was  *)
(* denied or is old enough for a sweep.                                    *)
THEOREM SourceTheorem == Spec => []SourceIsKept
<1>1. SafetyInv => SourceIsKept
    BY RunFields DEF SafetyInv, SourceInv, SourceIsKept
<1> QED BY <1>1, SafetyHolds, PTL

(* Only the worker's routing shows a job as awaiting approval ...          *)
LEMMA OnlyScanPublishes ==
    ASSUME TypeOK, [Next]_vars, NEW j \in Jobs,
           status[j] # "awaiting_approval", status'[j] = "awaiting_approval"
    PROVE  ScanPublish(j)
<1>types. status \in [Jobs -> Statuses]
    BY DEF TypeOK
<1> USE <1>types DEF redis, UpdateStatus, UpdateState
<1>1. ASSUME NEW i \in Jobs, SubmitStore(i) \/ SubmitStep(i) PROVE FALSE
    BY <1>1 DEF SubmitStore, SubmitStep, SubmitCreateSkipped, CreateJob, SubmitCreateScanned,
                SubmitEnqueue, Enqueue,
                SubmitError
<1>2. ASSUME NEW i \in Jobs, ScanStep(i) PROVE ScanPublish(j)
    BY <1>2 DEF ScanStep, ScanRequeue, Enqueue, ScanMark, ScanAnalyze, ScanPublish, ScanTrack,
                ScanMap,
                ScanClear, ScanLaunch, ScanError, ScanFail
<1>3. ASSUME NEW r \in Requests, DecisionRead(r) \/ DecisionStep(r) PROVE FALSE
    BY <1>3, RequestFields
       DEF DecisionRead, DecisionStep, QuickApprove, QuickDeny, DecisionUntrack, ApproveLock,
           ApproveCheck, ApproveUpdate, ApproveUnlock, DenyClean, DenyRecord, DecisionError
<1>4. ASSUME NEW t \in Runs, RunStep(t) PROVE FALSE
    BY <1>4, RunFields
       DEF RunStep, RunBegin, RunDownload, RunConvert, RunStoreMarkdown, RunStoreLedger, Store,
           RunFinish, RunFail, RunError
<1>5. CASE StartApprovalCheck \/ CleanTemps \/ StartStuckSweep \/ PatrolStep
    BY <1>5 DEF StartApprovalCheck, CleanTemps, StartStuckSweep, UpdatedBefore, PatrolStep, EndDuty,
                ExamineExpired, FailExpired, Untrack, ExamineStuck, FailStuck, PatrolError
<1>6. CASE ScanDequeue \/ (\E i \in Jobs : LockExpires(i)) \/ Shutdown \/ Restart \/ Tick
    BY <1>6 DEF ScanDequeue, Dequeue, LockExpires, Shutdown, Restart, Tick
<1>7. CASE UNCHANGED vars
    BY <1>7 DEF vars
<1> QED BY <1>1, <1>2, <1>3, <1>4, <1>5, <1>6, <1>7 DEF Next, TaskStep

(* ... and it does so before anybody can decide, so that a decision stands *)
(* unless a lost reply or an error has disturbed the job.                  *)
THEOREM DecisionTheorem == Spec => DecisionStands
<1>1. ASSUME TypeOK, SafetyInv, [Next]_vars, NEW r \in Requests, r \in accepted,
             r.job \notin disturbed', status[r.job] # "awaiting_approval"
      PROVE  status'[r.job] # "awaiting_approval"
    <2>1. SUFFICES ASSUME status'[r.job] = "awaiting_approval" PROVE FALSE
        OBVIOUS
    <2>2. r.job \in Jobs /\ ScanPublish(r.job)
        BY <1>1, <2>1, OnlyScanPublishes, RequestFields
    <2>3. r.job \notin disturbed /\ scan[r.job] = "publish"
        BY <1>1, <2>2 DEF ScanPublish
    <2>4. req[r] = "new"
        BY <2>2, <2>3, <1>1 DEF SafetyInv, TrackInv, UnpublishedIsUnseen, Unpublished
    <2> QED BY <1>1, <2>4 DEF SafetyInv, TrackInv, UntrackedIsDecided
<1> DEFINE Kept == \A r \in Requests : r \in accepted /\ r.job \notin disturbed'
                                      => \/ status[r.job] = "awaiting_approval"
                                         \/ status'[r.job] # "awaiting_approval"
<1>2. TypeOK /\ SafetyInv /\ [Next]_vars => Kept
    BY <1>1
<1>3. Spec => [][Kept]_vars
    <2> HIDE DEF Kept
    <2> QED BY <1>2, SafetyHolds, PTL DEF Spec
<1> QED BY <1>3 DEF DecisionStands

-----------------------------------------------------------------------------
(* JobLifecycle implements PiiGate: the initial state maps to the initial  *)
(* state, and each step turns the gate of at most one document as PiiGate  *)
(* allows, or publishes an object through an open gate, or is a stutter.   *)

(* The refinement mapping of the gates; the one of published is result.    *)
GateMap == [j \in Jobs |-> GateOf(j)]

(* The mapping of an initial state is initial.                             *)
LEMMA GateInitial == Init => Gate!Init
BY DEF Init, Gate!Init, GateOf, Cleared, Approved

(* A step that turns the gate of one document as PiiGate allows, or turns  *)
(* none, and publishes nothing.                                            *)
Allowed(before, after) ==
    \/ before = after
    \/ before = "absent" /\ after = "unscanned"
    \/ before = "unscanned" /\ after \in {"held", "open"}
    \/ before = "held" /\ after = "open"

LEMMA TurnRefines ==
    ASSUME NEW j \in Jobs, \A i \in Jobs \ {j} : GateOf(i)' = GateOf(i),
           Allowed(GateOf(j), GateOf(j)'), UNCHANGED result
    PROVE  [Gate!Next]_<<GateMap, result>>
<1>1. GateMap' = [GateMap EXCEPT ![j] = GateOf(j)']
    BY DEF GateMap
<1>2. CASE GateOf(j) = GateOf(j)'
    BY <1>2 DEF GateMap
<1>3. CASE GateOf(j) # GateOf(j)'
    BY <1>1, <1>3 DEF GateMap, Allowed, Gate!Next, Gate!Accept, Gate!Pass, Gate!Hold,
                      Gate!Approve, Gate!Turn
<1> QED BY <1>2, <1>3

(* A step that changes nothing a gate depends on is a stutter.             *)
LEMMA QuietRefines ==
    ASSUME UNCHANGED <<skipped, findings, accepted, result>>,
           \A j \in Jobs : submit'[j] = "none" <=> submit[j] = "none"
    PROVE  [Gate!Next]_<<GateMap, result>>
BY DEF GateMap, GateOf, Cleared, Approved

(* A processing task publishes through an open gate.                       *)
LEMMA StoreRefines ==
    ASSUME TypeOK, SafetyInv, NEW t \in Runs, run[t] # "none",
           NEW object \in {"markdown", "ledger"}, NEW step, Store(t, object, step)
    PROVE  [Gate!Next]_<<GateMap, result>>
<1>1. GateMap' = GateMap
    BY DEF Store, GateMap, GateOf, Cleared, Approved, history, redis
<1>2. t.job \in Jobs /\ GateMap[t.job] = "open"
    BY RunFields DEF SafetyInv, GateInv, OnlyClearedIsConverted, GateMap, GateOf
<1>3. CASE result' = [result EXCEPT ![t.job] = @ \cup {object}]
    <2>1. Gate!Publish(t.job)
        BY <1>1, <1>2, <1>3 DEF Gate!Publish, GateMap
    <2> QED BY <1>2, <2>1 DEF Gate!Next
<1>4. CASE UNCHANGED result
    BY <1>1, <1>4
<1> QED BY <1>3, <1>4 DEF Store

(* Every step maps to a step of PiiGate or to a stutter.                   *)
LEMMA GateStepRefines ==
    TypeOK /\ SafetyInv /\ [Next]_vars => [Gate!Next]_<<GateMap, result>>
<1> SUFFICES ASSUME TypeOK, SafetyInv, [Next]_vars PROVE [Gate!Next]_<<GateMap, result>>
    OBVIOUS
<1> USE DEF redis, s3, process, patrol, history, bounds
<1>types. /\ submit \in [Jobs -> {"none", "stored", "created", "done"}]
          /\ findings \in [Jobs -> {"unknown", "clean", "pii"}]
    BY DEF TypeOK
<1>1. ASSUME NEW j \in Jobs, SubmitStore(j) PROVE [Gate!Next]_<<GateMap, result>>
    <2>1. Allowed(GateOf(j), GateOf(j)')
        BY <1>1, <1>types DEF SubmitStore, Allowed, GateOf, Cleared, Approved
    <2>2. \A i \in Jobs \ {j} : GateOf(i)' = GateOf(i)
        BY <1>1, <1>types DEF SubmitStore, GateOf, Cleared, Approved
    <2> QED BY <1>1, <2>1, <2>2, TurnRefines DEF SubmitStore
<1>2. ASSUME NEW j \in Jobs, SubmitCreateSkipped(j) PROVE [Gate!Next]_<<GateMap, result>>
    <2>1. Allowed(GateOf(j), GateOf(j)')
        BY <1>2, <1>types DEF SubmitCreateSkipped, CreateJob, Allowed, GateOf, Cleared, Approved
    <2>2. \A i \in Jobs \ {j} : GateOf(i)' = GateOf(i)
        BY <1>2, <1>types DEF SubmitCreateSkipped, CreateJob, GateOf, Cleared, Approved
    <2> QED BY <1>2, <2>1, <2>2, TurnRefines DEF SubmitCreateSkipped, CreateJob
<1>3. ASSUME NEW j \in Jobs, ScanAnalyze(j) PROVE [Gate!Next]_<<GateMap, result>>
    <2>1. Allowed(GateOf(j), GateOf(j)')
        <3>1. submit[j] # "none" /\ UNCHANGED <<skipped, accepted, submit>>
            BY <1>3 DEF ScanAnalyze, SafetyInv, SourceInv
        <3>2. \/ findings'[j] = findings[j]
              \/ findings[j] = "unknown" /\ findings'[j] \in {"clean", "pii"}
            BY <1>3, <1>types DEF ScanAnalyze, SafetyInv, GateInv, ScanAgrees
        <3> QED BY <3>1, <3>2, <1>types DEF Allowed, GateOf, Cleared, Approved
    <2>2. \A i \in Jobs \ {j} : GateOf(i)' = GateOf(i)
        BY <1>3, <1>types DEF ScanAnalyze, GateOf, Cleared, Approved
    <2> QED BY <1>3, <2>1, <2>2, TurnRefines DEF ScanAnalyze
<1>4. ASSUME NEW r \in Requests, QuickApprove(r) PROVE [Gate!Next]_<<GateMap, result>>
    <2>1. r.job \in Jobs /\ findings[r.job] = "pii"
        BY <1>4, RequestFields DEF QuickApprove, SafetyInv, GateInv, RequestAgrees
    <2>2. Allowed(GateOf(r.job), GateOf(r.job)')
        BY <1>4, <2>1 DEF QuickApprove, Allowed, GateOf, Cleared, Approved
    <2>3. \A i \in Jobs \ {r.job} : GateOf(i)' = GateOf(i)
        BY <1>4 DEF QuickApprove, GateOf, Cleared, Approved
    <2> QED BY <1>4, <2>1, <2>2, <2>3, TurnRefines DEF QuickApprove
<1>5. ASSUME NEW r \in Requests, QuickDeny(r) PROVE [Gate!Next]_<<GateMap, result>>
    <2>1. GateMap' = GateMap
        BY <1>5 DEF QuickDeny, GateMap, GateOf, Cleared, Approved
    <2> QED BY <1>5, <2>1 DEF QuickDeny, GateMap
<1>6. ASSUME NEW t \in Runs, RunStoreMarkdown(t) \/ RunStoreLedger(t)
      PROVE  [Gate!Next]_<<GateMap, result>>
    BY <1>6, StoreRefines DEF RunStoreMarkdown, RunStoreLedger
<1>7. ASSUME NEW j \in Jobs,
             \/ SubmitCreateScanned(j) \/ SubmitEnqueue(j) \/ SubmitError(j) \/ LockExpires(j)
             \/ ScanRequeue(j) \/ ScanMark(j) \/ ScanPublish(j) \/ ScanTrack(j) \/ ScanMap(j)
             \/ ScanClear(j) \/ ScanLaunch(j) \/ ScanError(j) \/ ScanFail(j)
      PROVE  [Gate!Next]_<<GateMap, result>>
    BY <1>7, <1>types, QuietRefines
       DEF SubmitCreateScanned, CreateJob, SubmitEnqueue, Enqueue, SubmitError, LockExpires,
           ScanRequeue, ScanMark,
           ScanPublish, ScanTrack, ScanMap, ScanClear, ScanLaunch, ScanError, ScanFail
<1>8. ASSUME NEW r \in Requests,
             \/ DecisionRead(r) \/ DecisionUntrack(r) \/ ApproveLock(r) \/ ApproveCheck(r)
             \/ ApproveUpdate(r) \/ ApproveUnlock(r) \/ DenyClean(r) \/ DenyRecord(r)
             \/ DecisionError(r)
      PROVE  [Gate!Next]_<<GateMap, result>>
    BY <1>8, QuietRefines
       DEF DecisionRead, DecisionUntrack, ApproveLock, ApproveCheck, ApproveUpdate,
           ApproveUnlock, DenyClean, DenyRecord, DecisionError
<1>9. ASSUME NEW t \in Runs,
             \/ RunBegin(t) \/ RunDownload(t) \/ RunConvert(t)
             \/ RunFinish(t) \/ RunFail(t) \/ RunError(t)
      PROVE  [Gate!Next]_<<GateMap, result>>
    BY <1>9, QuietRefines
       DEF RunBegin, RunDownload, RunConvert, RunFinish, RunFail, RunError
<1>10. CASE StartApprovalCheck \/ CleanTemps \/ StartStuckSweep \/ PatrolStep
    BY <1>10, QuietRefines
       DEF StartApprovalCheck, CleanTemps, StartStuckSweep, UpdatedBefore, PatrolStep, EndDuty,
           ExamineExpired, FailExpired, Untrack, ExamineStuck, FailStuck, PatrolError
<1>11. CASE ScanDequeue \/ Shutdown \/ Restart \/ Tick
    BY <1>11, <1>types, QuietRefines DEF ScanDequeue, Dequeue, Shutdown, Restart, Tick
<1>12. CASE UNCHANGED vars
    BY <1>12, QuietRefines DEF vars
<1> QED BY <1>1, <1>2, <1>3, <1>4, <1>5, <1>6, <1>7, <1>8, <1>9, <1>10, <1>11, <1>12
       DEF Next, TaskStep, SubmitStep, ScanStep, DecisionStep, RunStep

(* Whatever the tasks, clocks and crashes do, documents go through the     *)
(* gate as PiiGate says.                                                   *)
THEOREM GateImplemented == Spec => ImplementsPiiGate
BY GateInitial, GateStepRefines, SafetyHolds, PTL
   DEF Spec, ImplementsPiiGate, Gate!Spec, GateMap
=============================================================================
