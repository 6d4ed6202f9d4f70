---------------------------- MODULE JobLifecycle ----------------------------
(***************************************************************************)
(* The life of a submitted document: the Redis job hash, the PII worker,   *)
(* the approval endpoints and their background tasks, the processing       *)
(* tasks and the timeout worker, all tasks of one asyncio process.         *)
(*                                                                         *)
(* Redis and S3 are the only shared state and a task gives up the event    *)
(* loop only to reach them, so one action is one Redis command or Lua      *)
(* script (or one run of synchronous boto3 calls) together with the code   *)
(* that follows it up to the next await.                                   *)
(***************************************************************************)
EXTENDS Naturals, Sequences, FiniteSets

CONSTANTS
    Jobs,            \* job ids
    PiiDocs,         \* the jobs whose document makes the PII analyzer report findings
    Requests,        \* the approval decisions clients may send, see Decision
    StuckAge,        \* max_processing_hours
    ApprovalWindow,  \* APPROVAL_TIMEOUT_HOURS
    TempRetention,   \* temp_file_retention_hours
    MaxCrashes,      \* bound: process restarts in a behaviour
    MaxFaults        \* bound: Redis and S3 errors and stalls in a behaviour

(* A decision request: for a job, through the token endpoint or the        *)
(* by-job-id endpoint, approving or denying; n tells equal requests apart. *)
Decision == [job: Jobs, via: {"token", "job_id"},
             verdict: {"approved", "denied"}, n: Nat \ {0}]

ASSUME ConstantsAssumption ==
    /\ PiiDocs \subseteq Jobs
    /\ Requests \subseteq Decision
    /\ StuckAge \in Nat /\ ApprovalWindow \in Nat /\ TempRetention \in Nat
    /\ StuckAge <= TempRetention
    /\ MaxCrashes \in Nat /\ MaxFaults \in Nat

(* The processing task that no decision starts: a submission that skipped  *)
(* the scan, or a clean scan, starts it.                                   *)
Direct(j) == [job |-> j, via |-> "submit", verdict |-> "approved", n |-> 0]
Runs == Requests \cup {Direct(j) : j \in Jobs}

VARIABLES
    \* Redis
    status,     \* status field of the job hash, "none" when there is no hash
    skipped,    \* jobs whose hash says pii_skipped
    age,        \* time since the upload, and created_at, seconds later
    idle,       \* time since the jobs-by-updated score
    wait,       \* time since the approval in the hash was issued
    piiQueue,   \* list eq-pdf:queue:pii, oldest first
    tracked,    \* sorted set eq-pdf:timeouts:approval
    mapped,     \* jobs whose approval token is stored
    locks,      \* jobs whose approval-lock key exists
    \* S3
    temp,       \* jobs whose uploaded PDF is in the temp bucket
    result,     \* what the results bucket holds of each job
    \* tasks of the API process
    submit,     \* the submit request of each job
    scan,       \* what the PII worker is about to do with each job
    req,        \* what each decision request is about to do
    run,        \* what each processing task is about to do
    duty,       \* the scheduled task the timeout worker is in
    todo,       \* jobs that task has still to examine
    hand,       \* what it is about to do with the job it examined
    stopping,   \* the shutdown event
    \* history
    findings,   \* what the analyzer reported of each job
    accepted,   \* decisions whose status write was made
    licence,    \* jobs written awaiting_approval or processing_queued, not yet started since
    lapsed,     \* jobs whose lock expired while its holder was alive
    disturbed,  \* jobs whose scan or decision a crash or a Redis error cut short
    \* bounds
    crashes, faults

redis == <<status, skipped, age, idle, wait, piiQueue, tracked, mapped, locks>>
s3 == <<temp, result>>
patrol == <<duty, todo, hand>>
process == <<submit, scan, req, run, duty, todo, hand, stopping>>
history == <<findings, accepted, licence, lapsed, disturbed>>
bounds == <<crashes, faults>>
vars == <<redis, s3, process, history, bounds>>

-----------------------------------------------------------------------------
Terminal == {"completed", "failed", "denied"}
Statuses == Terminal \cup
    {"none", "pii_scanning", "awaiting_approval", "processing_queued", "processing"}

ScanSteps == {"none", "mark", "download", "publish", "track", "map",
              "clear", "launch", "fail"}
RequestSteps == {"new", "quick", "untrack", "lock", "check", "update", "unlock",
                 "clean", "record", "skipped", "done"}
Ended == {"skipped", "done"}
RunSteps == {"none", "begin", "download", "convert", "markdown", "ledger",
             "finish", "fail", "done"}

(* A clock stops at the largest limit it is compared with.                 *)
Older(clock, limit, running) ==
    [j \in Jobs |-> IF j \in running /\ clock[j] < limit THEN clock[j] + 1 ELSE clock[j]]

TypeOK ==
    /\ status \in [Jobs -> Statuses]
    /\ skipped \subseteq Jobs
    /\ age \in [Jobs -> Nat] /\ idle \in [Jobs -> Nat] /\ wait \in [Jobs -> Nat]
    /\ piiQueue \in Seq(Jobs)
    /\ tracked \subseteq Jobs /\ mapped \subseteq Jobs /\ locks \subseteq Jobs
    /\ temp \subseteq Jobs
    /\ result \in [Jobs -> SUBSET {"markdown", "ledger"}]
    /\ submit \in [Jobs -> {"none", "stored", "created", "done"}]
    /\ scan \in [Jobs -> ScanSteps]
    /\ req \in [Requests -> RequestSteps]
    /\ run \in [Runs -> RunSteps]
    /\ duty \in {"idle", "approvals", "stuck"}
    /\ todo \subseteq Jobs
    /\ hand \in [Jobs -> {"none", "drop", "fail", "untrack"}]
    /\ stopping \in BOOLEAN
    /\ findings \in [Jobs -> {"unknown", "clean", "pii"}]
    /\ accepted \subseteq Requests
    /\ licence \subseteq Jobs /\ lapsed \subseteq Jobs /\ disturbed \subseteq Jobs
    /\ crashes \in Nat /\ faults \in Nat

Init ==
    /\ status = [j \in Jobs |-> "none"]
    /\ skipped = {} /\ piiQueue = <<>>
    /\ age = [j \in Jobs |-> 0] /\ idle = [j \in Jobs |-> 0] /\ wait = [j \in Jobs |-> 0]
    /\ tracked = {} /\ mapped = {} /\ locks = {}
    /\ temp = {} /\ result = [j \in Jobs |-> {}]
    /\ submit = [j \in Jobs |-> "none"]
    /\ scan = [j \in Jobs |-> "none"]
    /\ req = [r \in Requests |-> "new"]
    /\ run = [t \in Runs |-> "none"]
    /\ duty = "idle" /\ todo = {} /\ hand = [j \in Jobs |-> "none"]
    /\ stopping = FALSE
    /\ findings = [j \in Jobs |-> "unknown"]
    /\ accepted = {} /\ licence = {} /\ lapsed = {} /\ disturbed = {}
    /\ crashes = 0 /\ faults = 0

-----------------------------------------------------------------------------
(* Writes to the job hash, and the steps shared by several tasks.          *)

(* JobService.update_job_status: the status and the updated-at index, in   *)
(* one script, whatever the status was.                                    *)
UpdateStatus(j, s) ==
    /\ status' = [status EXCEPT ![j] = s]
    /\ idle' = [idle EXCEPT ![j] = 0]

(* DocumentProcessingService._update_job_state: the hash only, the index   *)
(* keeps its score.                                                        *)
UpdateState(j, s) ==
    /\ status' = [status EXCEPT ![j] = s]
    /\ UNCHANGED idle

RunGoes(t, step) == run' = [run EXCEPT ![t] = step]

(* A Redis or S3 error or a stall, within the bound.                       *)
Fault == faults < MaxFaults /\ faults' = faults + 1

(* A delete of the upload; its error is logged and the caller goes on.     *)
DeleteUpload(j) ==
    \/ temp' = temp \ {j} /\ UNCHANGED faults
    \/ Fault /\ UNCHANGED temp

-----------------------------------------------------------------------------
(* submit_document.                                                        *)

SubmitStore(j) ==
    /\ submit[j] = "none" /\ ~stopping
    /\ temp' = temp \cup {j}
    /\ submit' = [submit EXCEPT ![j] = "stored"]
    /\ UNCHANGED <<redis, result, scan, req, run, patrol, stopping, history, bounds>>

(* create_job: hash and index in one script, with the mark that the scan   *)
(* was skipped.                                                            *)
CreateJob(j, s, unscanned) ==
    /\ UpdateStatus(j, s)
    /\ skipped' = IF unscanned THEN skipped \cup {j} ELSE skipped

(* With skip_pii_scan the processing task follows as a background task of  *)
(* the request, unless the reply of the write is lost.                     *)
SubmitCreateSkipped(j) ==
    /\ submit[j] = "stored"
    /\ CreateJob(j, "processing", TRUE)
    /\ submit' = [submit EXCEPT ![j] = "done"]
    /\ \/ RunGoes(Direct(j), "begin") /\ UNCHANGED faults
       \/ Fault /\ UNCHANGED run
    /\ UNCHANGED <<age, wait, piiQueue, tracked, mapped, locks, s3, scan, req, patrol,
                   stopping, history, crashes>>

SubmitCreateScanned(j) ==
    /\ submit[j] = "stored"
    /\ CreateJob(j, "pii_scanning", FALSE)
    /\ submit' = [submit EXCEPT ![j] = "created"]
    /\ UNCHANGED <<age, wait, piiQueue, tracked, mapped, locks, s3, scan, req, run,
                   patrol, stopping, history, bounds>>

(* LPUSH and BRPOP: the list is a queue.                                   *)
Enqueue(j) == piiQueue' = Append(piiQueue, j)
Dequeue == piiQueue # <<>> /\ piiQueue' = Tail(piiQueue)

SubmitEnqueue(j) ==
    /\ submit[j] = "created"
    /\ Enqueue(j)
    /\ submit' = [submit EXCEPT ![j] = "done"]
    /\ UNCHANGED <<status, skipped, age, idle, wait, tracked, mapped, locks, s3, scan, req, run,
                   patrol, stopping, history, bounds>>

(* The client gets a 500; what was written before stays: the upload, or    *)
(* the upload and a hash that says pii_scanning.                           *)
SubmitError(j) ==
    /\ submit[j] \in {"stored", "created"}
    /\ Fault
    /\ submit' = [submit EXCEPT ![j] = "done"]
    /\ UNCHANGED <<redis, s3, scan, req, run, patrol, stopping, history, crashes>>

SubmitStep(j) ==
    \/ SubmitCreateSkipped(j) \/ SubmitCreateScanned(j) \/ SubmitEnqueue(j) \/ SubmitError(j)

-----------------------------------------------------------------------------
(* The PII worker takes one job at a time.                                 *)

ScanIdle == \A j \in Jobs : scan[j] = "none"
ScanGoes(j, step) == scan' = [scan EXCEPT ![j] = step]

ScanDequeue ==
    /\ ScanIdle /\ ~stopping
    /\ Dequeue
    /\ ScanGoes(Head(piiQueue), "mark")
    /\ UNCHANGED <<status, skipped, age, idle, wait, tracked, mapped, locks, s3, submit, req, run,
                   patrol, stopping, history, bounds>>

(* A shutdown seen right after the pop puts the job back, or loses it.     *)
ScanRequeue(j) ==
    /\ scan[j] = "mark" /\ stopping
    /\ \/ Enqueue(j) /\ UNCHANGED <<disturbed, faults>>
       \/ Fault /\ disturbed' = disturbed \cup {j} /\ UNCHANGED piiQueue
    /\ ScanGoes(j, "none")
    /\ UNCHANGED <<status, skipped, age, idle, wait, tracked, mapped, locks, s3, submit, req, run,
                   patrol, stopping, findings, accepted, licence, lapsed, crashes>>

ScanMark(j) ==
    /\ scan[j] = "mark"
    /\ UpdateStatus(j, "pii_scanning")
    /\ ScanGoes(j, "download")
    /\ UNCHANGED <<skipped, age, wait, piiQueue, tracked, mapped, locks, s3, submit, req, run,
                   patrol, stopping, history, bounds>>

(* The route the findings choose.                                          *)
MutantRoute(j) == "clear"      \* the findings are dropped
Route(j) == IF j \in PiiDocs THEN "publish" ELSE "clear"

(* Download, extraction and analysis: an error in any of them, and a       *)
(* missing file, fails the job.                                            *)
ScanAnalyze(j) ==
    /\ scan[j] = "download"
    /\ \/ /\ j \in temp
          /\ findings' = [findings EXCEPT ![j] = IF j \in PiiDocs THEN "pii" ELSE "clean"]
          /\ ScanGoes(j, Route(j))
       \/ /\ ScanGoes(j, "fail")
          /\ UNCHANGED findings
    /\ UNCHANGED <<redis, s3, submit, req, run, patrol, stopping, accepted, licence, lapsed,
                   disturbed, bounds>>

(* The status write that shows the job to reviewers. Redis may apply it    *)
(* and the reply be lost: the retry wrapper then runs the routing again.   *)
ScanPublish(j) ==
    /\ scan[j] = "publish"
    /\ UpdateStatus(j, "awaiting_approval")
    /\ wait' = [wait EXCEPT ![j] = 0]
    /\ licence' = licence \cup {j}
    /\ \/ ScanGoes(j, "track") /\ UNCHANGED <<disturbed, faults>>
       \/ Fault /\ disturbed' = disturbed \cup {j} /\ UNCHANGED scan
    /\ UNCHANGED <<skipped, age, piiQueue, tracked, mapped, locks, s3, submit, req, run, patrol,
                   stopping, findings, accepted, lapsed, crashes>>

ScanTrack(j) ==
    /\ scan[j] = "track"
    /\ tracked' = tracked \cup {j}
    /\ ScanGoes(j, "map")
    /\ UNCHANGED <<status, skipped, age, idle, wait, piiQueue, mapped, locks, s3, submit, req, run,
                   patrol, stopping, history, bounds>>

ScanMap(j) ==
    /\ scan[j] = "map"
    /\ mapped' = mapped \cup {j}
    /\ ScanGoes(j, "none")
    /\ UNCHANGED <<status, skipped, age, idle, wait, piiQueue, tracked, locks, s3, submit, req, run,
                   patrol, stopping, history, bounds>>

ScanClear(j) ==
    /\ scan[j] = "clear"
    /\ UpdateStatus(j, "processing")
    /\ ScanGoes(j, "launch")
    /\ UNCHANGED <<skipped, age, wait, piiQueue, tracked, mapped, locks, s3, submit, req, run,
                   patrol, stopping, history, bounds>>

(* get_job found the hash, then create_task; a retriable error of get_job  *)
(* runs the routing again.                                                 *)
ScanLaunch(j) ==
    /\ scan[j] = "launch"
    /\ \/ /\ RunGoes(Direct(j), "begin")
          /\ ScanGoes(j, "none")
          /\ UNCHANGED faults
       \/ Fault /\ ScanGoes(j, "clear") /\ UNCHANGED run
    /\ UNCHANGED <<redis, s3, submit, req, patrol, stopping, history, crashes>>

(* A Redis error that outlasts the retries; the errors of enqueue,         *)
(* add_to_timeout_tracking and store_approval_token_mapping are wrapped in *)
(* a plain Exception, which the retry wrapper gives up on at once.         *)
MutantScanError(j) ==          \* those errors are retried
    /\ scan[j] \in {"publish", "track", "map"}
    /\ Fault
    /\ ScanGoes(j, "publish")
    /\ UNCHANGED <<redis, s3, submit, req, run, patrol, stopping, history, crashes>>

ScanError(j) ==
    /\ scan[j] \in {"mark", "publish", "track", "map", "clear", "launch"}
    /\ Fault
    /\ ScanGoes(j, "fail")
    /\ UNCHANGED <<redis, s3, submit, req, run, patrol, stopping, history, crashes>>

ScanFail(j) ==
    /\ scan[j] = "fail"
    /\ \/ UpdateStatus(j, "failed") /\ UNCHANGED <<disturbed, faults>>
       \/ Fault /\ disturbed' = disturbed \cup {j} /\ UNCHANGED <<status, idle>>
    /\ ScanGoes(j, "none")
    /\ UNCHANGED <<skipped, age, wait, piiQueue, tracked, mapped, locks, s3, submit, req, run,
                   patrol, stopping, findings, accepted, licence, lapsed, crashes>>

ScanStep(j) ==
    \/ ScanRequeue(j) \/ ScanMark(j) \/ ScanAnalyze(j) \/ ScanPublish(j) \/ ScanTrack(j)
    \/ ScanMap(j) \/ ScanClear(j) \/ ScanLaunch(j) \/ ScanError(j) \/ ScanFail(j)

-----------------------------------------------------------------------------
(* A decision: submit_decision (token) or _process_pii_decision (job id),  *)
(* then the background task its verdict asks for.                          *)

RequestGoes(r, step) == req' = [req EXCEPT ![r] = step]

(* validate_approval_token looks the token up and checks the deadline, not *)
(* the status; the by-job-id endpoint checks the status. A refused request *)
(* changes nothing.                                                        *)
MutantDecisionValid(r) ==      \* no status check by job id
    status[r.job] # "none" /\ (r.via = "token" => r.job \in mapped /\ wait[r.job] < ApprovalWindow)

DecisionValid(r) ==
    \/ /\ r.via = "token"
       /\ r.job \in mapped /\ status[r.job] # "none" /\ wait[r.job] < ApprovalWindow
    \/ /\ r.via = "job_id"
       /\ status[r.job] = "awaiting_approval"

DecisionRead(r) ==
    /\ req[r] = "new" /\ ~stopping
    /\ DecisionValid(r)
    /\ RequestGoes(r, "quick")
    /\ UNCHANGED <<redis, s3, submit, scan, run, patrol, stopping, history, bounds>>

(* The reply of a write is lost: the write stands, and the caller gives up.*)
ReplyLost(r, step) ==
    /\ Fault
    /\ disturbed' = disturbed \cup {r.job}
    /\ RequestGoes(r, step)

(* quick_approve and quick_deny write the status without looking at it.    *)
(* Without its reply no background task follows.                           *)
QuickApprove(r) ==
    /\ req[r] = "quick" /\ r.verdict = "approved"
    /\ UpdateStatus(r.job, "processing_queued")
    /\ accepted' = accepted \cup {r}
    /\ licence' = licence \cup {r.job}
    /\ \/ RequestGoes(r, "untrack") /\ UNCHANGED <<disturbed, faults>>
       \/ ReplyLost(r, "done")
    /\ UNCHANGED <<skipped, age, wait, piiQueue, tracked, mapped, locks, s3, submit, scan, run,
                   patrol, stopping, findings, lapsed, crashes>>

QuickDeny(r) ==
    /\ req[r] = "quick" /\ r.verdict = "denied"
    /\ UpdateStatus(r.job, "denied")
    /\ accepted' = accepted \cup {r}
    /\ \/ RequestGoes(r, "untrack") /\ UNCHANGED <<disturbed, faults>>
       \/ ReplyLost(r, "done")
    /\ UNCHANGED <<skipped, age, wait, piiQueue, tracked, mapped, locks, s3, submit, scan, run,
                   patrol, stopping, findings, licence, lapsed, crashes>>

(* Both background tasks first leave the timeout tracking.                 *)
DecisionUntrack(r) ==
    /\ req[r] = "untrack"
    /\ tracked' = tracked \ {r.job}
    /\ RequestGoes(r, IF r.verdict = "approved" THEN "lock" ELSE "clean")
    /\ UNCHANGED <<status, skipped, age, idle, wait, piiQueue, mapped, locks, s3, submit, scan,
                   run, patrol, stopping, history, bounds>>

(* SET NX EX 60. Whoever finds the lock taken leaves the job to its holder.*)
ApproveLock(r) ==
    /\ req[r] = "lock"
    /\ IF r.job \in locks
       THEN RequestGoes(r, "skipped") /\ UNCHANGED locks
       ELSE RequestGoes(r, "check") /\ locks' = locks \cup {r.job}
    /\ UNCHANGED <<status, skipped, age, idle, wait, piiQueue, tracked, mapped, s3, submit, scan,
                   run, patrol, stopping, history, bounds>>

(* The double check: another decision or a sweep may have moved the job.   *)
MutantStartable(j) == status[j] \notin Terminal
Startable(j) == status[j] \in {"processing_queued", "awaiting_approval"}

ApproveCheck(r) ==
    /\ req[r] = "check"
    /\ RequestGoes(r, IF Startable(r.job) THEN "update" ELSE "unlock")
    /\ UNCHANGED <<redis, s3, submit, scan, run, patrol, stopping, history, bounds>>

ApproveUpdate(r) ==
    /\ req[r] = "update"
    /\ UpdateStatus(r.job, "processing")
    /\ licence' = licence \ {r.job}
    /\ \/ /\ RunGoes(r, "begin") /\ RequestGoes(r, "unlock")
          /\ UNCHANGED <<disturbed, faults>>
       \/ ReplyLost(r, "unlock") /\ UNCHANGED run
    /\ UNCHANGED <<skipped, age, wait, piiQueue, tracked, mapped, locks, s3, submit, scan, patrol,
                   stopping, findings, accepted, lapsed, crashes>>

(* finally: DEL, whoever holds the key by now.                             *)
ApproveUnlock(r) ==
    /\ req[r] = "unlock"
    /\ locks' = locks \ {r.job}
    /\ RequestGoes(r, "done")
    /\ UNCHANGED <<status, skipped, age, idle, wait, piiQueue, tracked, mapped, s3, submit, scan,
                   run, patrol, stopping, history, bounds>>

(* boto3 deletes the object at once (the await of its answer then fails,   *)
(* which only turns the result into False); the status is written again.   *)
DenyClean(r) ==
    /\ req[r] = "clean"
    /\ DeleteUpload(r.job)
    /\ RequestGoes(r, "record")
    /\ UNCHANGED <<redis, result, submit, scan, run, patrol, stopping, history, crashes>>

DenyRecord(r) ==
    /\ req[r] = "record"
    /\ UpdateStatus(r.job, "denied")
    /\ RequestGoes(r, "done")
    /\ UNCHANGED <<skipped, age, wait, piiQueue, tracked, mapped, locks, s3, submit, scan, run,
                   patrol, stopping, history, bounds>>

(* A Redis error ends a decision: before the quick write the client gets a *)
(* 500, after it the background task logs it and returns, through the lock *)
(* release when it holds the lock. The ZREM alone is allowed to fail.      *)
DecisionError(r) ==
    /\ req[r] \notin Ended \cup {"new", "clean"}
    /\ Fault
    /\ disturbed' = disturbed \cup {r.job}
    /\ RequestGoes(r, CASE req[r] = "untrack" -> IF r.verdict = "approved" THEN "lock" ELSE "clean"
                        [] req[r] \in {"check", "update"} -> "unlock"
                        [] OTHER -> "done")
    /\ UNCHANGED <<redis, s3, submit, scan, run, patrol, stopping, findings, accepted, licence,
                   lapsed, crashes>>

DecisionStep(r) ==
    \/ QuickApprove(r) \/ QuickDeny(r) \/ DecisionUntrack(r) \/ ApproveLock(r) \/ ApproveCheck(r)
    \/ ApproveUpdate(r) \/ ApproveUnlock(r) \/ DenyClean(r) \/ DenyRecord(r) \/ DecisionError(r)

(* The tasks between SET NX and DEL of a job's lock.                       *)
Holding(r) == req[r] \in {"check", "update", "unlock"}

(* The 60 s of a lock pass: at once when its holder is gone, and counted   *)
(* as a stall when the holder is alive.                                    *)
LockExpires(j) ==
    /\ j \in locks
    /\ locks' = locks \ {j}
    /\ IF \E r \in Requests : r.job = j /\ Holding(r)
       THEN Fault /\ lapsed' = lapsed \cup {j}
       ELSE UNCHANGED <<faults, lapsed>>
    /\ UNCHANGED <<status, skipped, age, idle, wait, piiQueue, tracked, mapped, s3, process,
                   findings, accepted, licence, disturbed, crashes>>

-----------------------------------------------------------------------------
(* DocumentProcessingService.process_document.                             *)

(* A Redis error, of the HSET of a status write or of the EXPIRE after it: *)
(* the first write is outside the try block, the one of the except block   *)
(* has no handler, the one of "completed" has.                             *)
RunFails(t) ==
    /\ Fault
    /\ RunGoes(t, IF run[t] = "finish" THEN "fail" ELSE "done")

RunBegin(t) ==
    /\ run[t] = "begin"
    /\ UpdateState(t.job, "processing")
    /\ \/ RunGoes(t, "download") /\ UNCHANGED faults
       \/ RunFails(t)
    /\ UNCHANGED <<skipped, age, wait, piiQueue, tracked, mapped, locks, s3, submit, scan, req,
                   patrol, stopping, history, crashes>>

(* Download and pipeline: a missing file, an S3 error, an exception of the *)
(* pipeline and a document its classifier rejects all end in "failed".     *)
RunDownload(t) ==
    /\ run[t] = "download"
    /\ \/ t.job \in temp /\ RunGoes(t, "convert")
       \/ RunGoes(t, "fail")
    /\ UNCHANGED <<redis, s3, submit, scan, req, patrol, stopping, history, bounds>>

RunConvert(t) ==
    /\ run[t] = "convert"
    /\ RunGoes(t, "markdown") \/ RunGoes(t, "fail")
    /\ UNCHANGED <<redis, s3, submit, scan, req, patrol, stopping, history, bounds>>

MutantStore(t, object, step) ==    \* a failed upload is logged and passed over
    /\ RunGoes(t, step)
    /\ result' = [result EXCEPT ![t.job] = @ \cup {object}] \/ UNCHANGED result
    /\ UNCHANGED <<redis, temp, submit, scan, req, patrol, stopping, history, bounds>>

Store(t, object, step) ==
    /\ \/ /\ result' = [result EXCEPT ![t.job] = @ \cup {object}]
          /\ RunGoes(t, step)
       \/ RunGoes(t, "fail") /\ UNCHANGED result
    /\ UNCHANGED <<redis, temp, submit, scan, req, patrol, stopping, history, bounds>>

RunStoreMarkdown(t) == run[t] = "markdown" /\ Store(t, "markdown", "ledger")
RunStoreLedger(t) == run[t] = "ledger" /\ Store(t, "ledger", "finish")

RunFinish(t) ==
    /\ run[t] = "finish"
    /\ UpdateState(t.job, "completed")
    /\ \/ RunGoes(t, "done") /\ UNCHANGED faults
       \/ RunFails(t)
    /\ UNCHANGED <<skipped, age, wait, piiQueue, tracked, mapped, locks, s3, submit, scan, req,
                   patrol, stopping, history, crashes>>

RunFail(t) ==
    /\ run[t] = "fail"
    /\ UpdateState(t.job, "failed")
    /\ RunGoes(t, "done")
    /\ UNCHANGED <<skipped, age, wait, piiQueue, tracked, mapped, locks, s3, submit, scan, req,
                   patrol, stopping, history, bounds>>

RunError(t) ==
    /\ run[t] \in {"begin", "finish", "fail"}
    /\ RunFails(t)
    /\ UNCHANGED <<redis, s3, submit, scan, req, patrol, stopping, history, crashes>>

RunStep(t) ==
    \/ RunBegin(t) \/ RunDownload(t) \/ RunConvert(t) \/ RunStoreMarkdown(t)
    \/ RunStoreLedger(t) \/ RunFinish(t) \/ RunFail(t) \/ RunError(t)

-----------------------------------------------------------------------------
(* The timeout worker: one task, so its duties never overlap.              *)

HandGoes(j, step) == hand' = [hand EXCEPT ![j] = step]
HandsFree == \A j \in Jobs : hand[j] = "none"
Existing == {j \in Jobs : status[j] # "none"}

(* ZRANGEBYSCORE of the deadlines that have passed.                        *)
StartApprovalCheck ==
    LET expired == {j \in tracked : wait[j] >= ApprovalWindow} IN
    /\ duty = "idle" /\ ~stopping
    /\ expired # {}
    /\ duty' = "approvals" /\ todo' = expired
    /\ UNCHANGED <<redis, s3, submit, scan, req, run, hand, stopping, history, bounds>>

(* _process_expired_job: get_job, and the branch it takes.                 *)
MutantStillAwaiting(j) == status[j] = "processing_queued"
StillAwaiting(j) == status[j] = "awaiting_approval"

ExamineExpired(j) ==
    /\ duty = "approvals" /\ HandsFree /\ j \in todo
    /\ HandGoes(j, IF StillAwaiting(j) THEN "fail" ELSE "drop")
    /\ todo' = todo \ {j}
    /\ UNCHANGED <<redis, s3, submit, scan, req, run, duty, stopping, history, bounds>>

(* After the audit log. The cleanup that follows calls delete_object on a  *)
(* StorageService, which has none: nothing is deleted.                     *)
FailExpired(j) ==
    /\ duty = "approvals" /\ hand[j] = "fail"
    /\ UpdateStatus(j, "failed")
    /\ HandGoes(j, "untrack")
    /\ UNCHANGED <<skipped, age, wait, piiQueue, tracked, mapped, locks, s3, submit, scan, req,
                   run, duty, todo, stopping, history, bounds>>

Untrack(j) ==
    /\ hand[j] \in {"drop", "untrack"}
    /\ tracked' = tracked \ {j}
    /\ HandGoes(j, "none")
    /\ UNCHANGED <<status, skipped, age, idle, wait, piiQueue, mapped, locks, s3, submit, scan,
                   req, run, duty, todo, stopping, history, bounds>>

(* cleanup_expired_temp_files: synchronous calls, by age only; the error   *)
(* of a delete is logged and the next upload is tried.                     *)
MutantOldUploads == {j \in temp \cap Existing : age[j] >= TempRetention}
OldUploads == {j \in temp : age[j] >= TempRetention}

CleanTemps ==
    /\ duty = "idle" /\ ~stopping
    /\ OldUploads # {}
    /\ \/ temp' = temp \ OldUploads /\ UNCHANGED faults
       \/ Fault /\ \E kept \in SUBSET OldUploads : temp' = temp \ (OldUploads \ kept)
    /\ UNCHANGED <<redis, result, process, history, crashes>>

(* ZRANGEBYSCORE of the updated-at index.                                  *)
UpdatedBefore(cutoff) == {j \in Existing : idle[j] >= cutoff}

(* cleanup_stuck_processing_jobs: the index entries older than the cutoff, *)
(* or every job when there is none.                                        *)
StartStuckSweep ==
    LET old == UpdatedBefore(StuckAge) IN
    /\ duty = "idle" /\ ~stopping
    /\ Existing # {}
    /\ duty' = "stuck"
    /\ todo' = IF old # {} THEN old ELSE Existing
    /\ UNCHANGED <<redis, s3, submit, scan, req, run, hand, stopping, history, bounds>>

(* _is_job_stuck: the status and created_at.                               *)
MutantInWork(j) == status[j] = "processing"
InWork(j) == status[j] \in {"processing", "pii_scanning"}
MutantTooOld(j) == age[j] + 1 >= StuckAge
TooOld(j) == age[j] >= StuckAge

ExamineStuck(j) ==
    /\ duty = "stuck" /\ HandsFree /\ j \in todo
    /\ HandGoes(j, IF InWork(j) /\ TooOld(j) THEN "fail" ELSE "none")
    /\ todo' = todo \ {j}
    /\ UNCHANGED <<redis, s3, submit, scan, req, run, duty, stopping, history, bounds>>

FailStuck(j) ==
    /\ duty = "stuck" /\ hand[j] = "fail"
    /\ UpdateStatus(j, "failed")
    /\ DeleteUpload(j)
    /\ HandGoes(j, "none")
    /\ UNCHANGED <<skipped, age, wait, piiQueue, tracked, mapped, locks, result, submit, scan, req,
                   run, duty, todo, stopping, history, crashes>>

EndDuty ==
    /\ duty # "idle" /\ todo = {} /\ HandsFree
    /\ duty' = "idle"
    /\ UNCHANGED <<redis, s3, submit, scan, req, run, todo, hand, stopping, history, bounds>>

(* An error is caught per job and the loop goes on.                        *)
PatrolError(j) ==
    /\ hand[j] # "none"
    /\ Fault
    /\ HandGoes(j, "none")
    /\ UNCHANGED <<redis, s3, submit, scan, req, run, duty, todo, stopping, history, crashes>>

PatrolStep ==
    \/ EndDuty
    \/ \E j \in Jobs : \/ ExamineExpired(j) \/ FailExpired(j) \/ Untrack(j)
                       \/ ExamineStuck(j) \/ FailStuck(j) \/ PatrolError(j)

-----------------------------------------------------------------------------
(* A shutdown request, a crash (or the end of a shutdown) with the restart *)
(* of the process, and the clocks.                                         *)

Shutdown ==
    /\ ~stopping /\ crashes < MaxCrashes
    /\ stopping' = TRUE
    /\ crashes' = crashes + 1
    /\ UNCHANGED <<redis, s3, submit, scan, req, run, patrol, history, faults>>

Restart ==
    /\ stopping \/ crashes < MaxCrashes
    /\ crashes' = IF stopping THEN crashes ELSE crashes + 1
    /\ stopping' = FALSE
    /\ submit' = [j \in Jobs |-> IF submit[j] = "none" THEN "none" ELSE "done"]
    /\ scan' = [j \in Jobs |-> "none"]
    /\ req' = [r \in Requests |-> IF req[r] \in {"new", "skipped"} THEN req[r] ELSE "done"]
    /\ run' = [t \in Runs |-> IF run[t] = "none" THEN "none" ELSE "done"]
    /\ duty' = "idle" /\ todo' = {} /\ hand' = [j \in Jobs |-> "none"]
    /\ disturbed' = disturbed \cup {j \in Jobs : scan[j] # "none"}
                              \cup {r.job : r \in {q \in Requests : req[q] \notin Ended \cup {"new"}}}
    /\ UNCHANGED <<redis, s3, findings, accepted, licence, lapsed, faults>>

Tick ==
    /\ age' = Older(age, TempRetention, {j \in Jobs : submit[j] \in {"created", "done"}})
    /\ idle' = Older(idle, StuckAge, Existing)
    /\ wait' = Older(wait, ApprovalWindow, {j \in Jobs : findings[j] = "pii"})
    /\ <<age, idle, wait>>' # <<age, idle, wait>>
    /\ UNCHANGED <<status, skipped, piiQueue, tracked, mapped, locks, s3, process, history, bounds>>

(* The steps of the tasks that end by themselves.                          *)
TaskStep ==
    \/ \E j \in Jobs : SubmitStep(j) \/ ScanStep(j)
    \/ ScanDequeue
    \/ \E r \in Requests : DecisionStep(r)
    \/ \E t \in Runs : RunStep(t)

Next ==
    \/ TaskStep
    \/ \E j \in Jobs : SubmitStore(j) \/ LockExpires(j)
    \/ \E r \in Requests : DecisionRead(r)
    \/ StartApprovalCheck \/ CleanTemps \/ StartStuckSweep \/ PatrolStep
    \/ Shutdown \/ Restart \/ Tick

Spec == Init /\ [][Next]_vars

(* The event loop does not stand still while a task is ready to run, and   *)
(* the timeout worker's loop comes to each of its duties again and again,  *)
(* whichever it finds work for first. A stopped process is started again.  *)
(* Nothing makes a client submit or decide, and nothing makes Redis or the *)
(* process fail.                                                           *)
Fairness ==
    /\ WF_vars(TaskStep) /\ WF_vars(PatrolStep)
    /\ SF_vars(StartApprovalCheck) /\ SF_vars(CleanTemps) /\ SF_vars(StartStuckSweep)
    /\ WF_vars(stopping /\ Restart)
    /\ WF_vars(Tick)

FairSpec == Spec /\ Fairness

-----------------------------------------------------------------------------
(* Safety.                                                                 *)

Approved(j) == \E r \in accepted : r.job = j /\ r.verdict = "approved"
Denied(j) == \E r \in accepted : r.job = j /\ r.verdict = "denied"

(* What lets a document be converted: the submitter skipped the scan, the  *)
(* scan found nothing, or a reviewer approved what it found.               *)
Cleared(j) == j \in skipped \/ findings[j] = "clean" \/ Approved(j)

(* No document reaches the conversion pipeline before it is cleared,       *)
(* whatever crashes, late decisions and repeated routings come between,    *)
(* and no decision is taken on a document the scan has not flagged.        *)
OnlyClearedIsConverted ==
    /\ \A t \in Runs : run[t] # "none" => Cleared(t.job)
    /\ \A r \in accepted : findings[r.job] = "pii"

(* A job shown as completed has both its markdown and its ledger in the    *)
(* results bucket, even when two processing tasks write the job at once.   *)
CompletedHasResult ==
    \A j \in Jobs : status[j] = "completed" => result[j] = {"markdown", "ledger"}

(* The lock and the second status check: each write that makes a job       *)
(* startable (awaiting_approval, processing_queued) lets at most one       *)
(* approval start the pipeline, however many approvals run at once, unless *)
(* a holder stalled past the lock's TTL.                                   *)
StartsAreLicensed ==
    \A r \in Requests : req[r] = "update" /\ r.job \notin lapsed => r.job \in licence

(* A job that waits for a decision is on the approval deadline list, or    *)
(* its scan task is about to put it there or to fail it: the timeout       *)
(* worker will find it. Only a crash or a Redis error breaks this.         *)
AwaitingIsTracked ==
    \A j \in Jobs : status[j] = "awaiting_approval" /\ j \notin disturbed
                      => j \in tracked \/ scan[j] \in {"track", "fail"}

(* A processing task that has still to fetch its PDF finds it, unless the  *)
(* job was denied meanwhile or is so old that a sweep took it: no other    *)
(* path deletes an upload under a running job.                             *)
SourceIsKept ==
    \A t \in Runs : run[t] \in {"begin", "download"}
                     => \/ t.job \in temp \/ Denied(t.job) \/ age[t.job] >= StuckAge

(* Once a decision is accepted the scan never opens the question again:    *)
(* only the routing repeated after a lost reply does.                      *)
DecisionStands ==
    [][\A r \in Requests : r \in accepted /\ r.job \notin disturbed'
                             => \/ status[r.job] = "awaiting_approval"
                                \/ status'[r.job] # "awaiting_approval"]_vars

(* The path through Redis, S3, the workers and the decisions implements    *)
(* the gate of module PiiGate: each step moves a document's gate the way   *)
(* that module allows, and publishes nothing while it is shut.             *)
GateOf(j) ==
    IF Cleared(j) THEN "open"
    ELSE IF findings[j] = "pii" THEN "held"
    ELSE IF submit[j] # "none" THEN "unscanned" ELSE "absent"

Gate == INSTANCE PiiGate WITH gate <- [j \in Jobs |-> GateOf(j)],
                              published <- result,
                              Objects <- {"markdown", "ledger"}

ImplementsPiiGate == Gate!Spec

-----------------------------------------------------------------------------
(* Liveness, under FairSpec.                                               *)

(* A job left where no duty looks: a crash or an error cut its scan or a   *)
(* decision on it short, before the deadline list or after it.             *)
CutShort(j) ==
    /\ j \in disturbed
    /\ \/ status[j] = "processing_queued"
       \/ status[j] = "awaiting_approval" /\ j \notin tracked

(* An approval queued the job and then gave way to the holder of its lock, *)
(* who had started it before or is gone.                                   *)
GaveWay(j) ==
    status[j] = "processing_queued" /\ \E r \in Requests : r.job = j /\ req[r] = "skipped"

(* Every submitted job ends in a terminal status and stays in one, whether *)
(* it is scanned, approved, denied or left to the deadline, whatever two   *)
(* decisions race, and whatever fails elsewhere, unless its own scan or    *)
(* decision was cut short, or an approval of it gave way to another.       *)
EveryJobSettles ==
    \A j \in Jobs : status[j] # "none" ~> [](status[j] \in Terminal \/ CutShort(j) \/ GaveWay(j))

(* A job that an approval has queued does not stay so: when its background *)
(* task fails, "timeout worker can handle cleanup"                         *)
(* (process_approval_background).                                          *)
QueuedIsCleanedUp ==
    \A j \in Jobs : status[j] = "processing_queued" ~> status[j] # "processing_queued"

(* After any crash or error no job is shown as being scanned or processed  *)
(* for ever: the stuck sweep or the task itself ends it.                   *)
NoWorkForever ==
    \A j \in Jobs : <>[](status[j] \notin {"pii_scanning", "processing"})

(* Every upload is deleted in the end, whatever became of its job, a       *)
(* submission cut short before the hash was written included.              *)
UploadsAreDeleted ==
    \A j \in Jobs : submit[j] = "stored" ~> [](j \notin temp)
=============================================================================
