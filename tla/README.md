# TLA+ models of Equalify Reflow

Equalify Reflow turns PDF documents into accessible markdown. A document is uploaded, scanned
for personal data (PII), held for a human decision when something is found, converted by a
pipeline of layout analysis and language-model agents, and its result is published. Everything
runs in one asyncio process (FastAPI); Redis and S3 hold the shared state. This directory models
the parts in which the order of things matters, checks them with TLC and proves the most
important properties with TLAPS.

Source paths below are relative to the Python package `src/` of the repository.

## 1. Inventory

| Part | Code | State | Operations | What is hard |
|---|---|---|---|---|
| Submission | `api/documents.py` `submit_document` | upload in S3, job hash, PII queue | store, create, enqueue or start | three writes, any of which may fail after the others |
| Job hash | `services/job_service.py` | Redis hash, updated-at index, token mapping | create, status write, find by token | status writes are unconditional: the last writer wins |
| Queues | `services/queue_service.py` | PII list, sorted set of approval deadlines | push, pop, track, list expired, untrack | pop without acknowledgement |
| PII worker | `workers/pii_worker.py`, `services/pii_service.py` | the job it holds | dequeue, scan, route, retry, fail | crash between writes; a retry after a lost reply repeats the routing |
| Decisions | `api/approval.py`, `api/documents.py` `_process_pii_decision`, `services/approval_service.py` | a lock key per job, background tasks | approve and deny, by token and by job id | validation, write and background task are separated by awaits; lock with a TTL and an unconditional release |
| Processing task | `services/document_processing_service.py` | a task, the job hash, the result objects, a gauge, an event bus | begin, download, convert, store, finish, fail | several tasks of one job at once; counting up and down on many paths |
| Timeout worker | `workers/timeout_worker.py`, `services/timeout_service.py`, `services/cleanup_service.py` | a loop of duties | deadline, temp cleanup, orphan sweeps | check-then-act on the status |
| Stuck sweep | `services/orphan_service.py` | none | fail stuck jobs, delete old ones | age of the upload taken for age of the work |
| Temp cleanup | `services/s3_cleanup_service.py` | none | delete by age, delete by job | blind to the job |
| Circuit breaker | `utils/circuit_breaker.py`, `services/storage_service.py` | state, counters, probe slots | check, record success or failure, reset | calls that outlive the state they were admitted in; calls that record nothing |
| docling client | `services/docling_serve_client.py` | its own breaker, a semaphore | convert with retries | a call is admitted before it queues; retries, timeouts, cancellation |
| Retries | `utils/retry_helpers.py` | none | retry with backoff | a call that took effect is repeated |
| Event stream | `agents/events.py`, `api/documents.py` `stream_events` | bus per task, one registry entry per job, queue per subscriber | publish, subscribe, replay, poll | subscribe and replay overlap; end of stream; two tasks share an entry |
| Stream tokens | `services/job_service.py` | one key per token | create, consume | single use |
| Viewer sessions | `services/session_store.py`, `api/pipeline_viewer.py` | session, event buffer, decision event | run, read buffer, decide, reconnect, evict | readers and writer share a buffer; decision against timeout; eviction cancels work |
| Viewer client | `usePipelineViewer.ts` and `auth/` of the viewer | what it shows, the id of the last event | handle, reconnect, give up | breaks at any point |
| Rate limiter | `services/rate_limit_service.py`, `middleware/rate_limit.py` | sorted set per key | check and add | count, add and expiry are three calls |
| Pipeline | `services/pipeline_viewer.py` | versions v0..v3, pages, steps | run the steps | what a failed step leaves behind |
| Page agents | `services/pipeline_viewer.py`, `agents/` | text, recorded changes, tool calls in flight | edit, rewrite, ask a helper | tool calls of one answer run on threads; an agent that fails after some edits |
| Text steps | `services/pipeline_viewer.py` | pages, sections, hints, figures | split, map, hint, fence | offsets, positions and boundaries |
| Authentication | `auth/`, `middleware/api_key_auth.py` | a signed cookie in the browser; cached provider keys | log in, log out, check, re-issue | responses that arrive out of order; expiry; rotated keys |

What makes each part correct:

- *Submission to result*: nothing is converted before the scan, the submitter or a reviewer
  allows it; a decision is not undone; each job ends; a completed job has its result; an upload is
  there while a task needs it and is deleted in the end.
- *Circuit breaker*: a failing service is left alone, a recovered one is used again, and the
  probes in flight stay within their limit.
- *Streams and sessions*: each reader sees every event, in order, and the end; what the browser
  shows in the end is what the server has.
- *Rate limiter*: no more than the limit is admitted in a window, and who waits as told gets in.
- *Pipeline*: a result is the newest version that was completed, whatever failed, and the ledger
  says how it came about.
- *Text steps*: no line is lost, and what is said of a line is said of the right one.
- *Authentication*: a user at work stays signed in, and a logout holds.

## 2. Modules

| Module | What it is |
|---|---|
| `JobLifecycle` | submission, PII worker, decisions, processing tasks, timeout worker, crash and restart |
| `PiiGate` | the abstract specification of that path: a gate per document and what is published |
| `JobInvariants` | the inductive strengthenings of its safety properties |
| `JobStream` | the processing tasks of one job as publishers, the registry, the gauge, the token and the stream |
| `CircuitBreaker` | one breaker and the calls it protects |
| `PipelineResult` | what each step of the pipeline does to the versions of a document |
| `ViewerPipeline` | one viewer session: its background task, timers, decision, eviction |
| `EventSource` | the abstract specification of a session's buffer, as its readers need it |
| `SessionStream` | the reader of the buffer, the connection and the hook in the browser, over any `EventSource` |
| `PageEdits` | the agents of a document with their tool calls, and the ledger |
| `DocumentText` | the deterministic steps on the text |
| `RateLimit` | the sliding window of submissions |
| `LoginSession` | session cookie, login in basic and OIDC mode, logout |
| `MC*` | instances for TLC |
| `*_proofs` | the theorems, section 4 |

How they compose: `ViewerPipeline` extends `PipelineResult` and implements `EventSource`, over which
`SessionStream` is specified, so what holds of a stream holds of a stream of the pipeline's events
(and that the stream is closed in the end is `EverySessionCloses`).
`JobStream` is a closer look at the processing tasks (`Run*`) of `JobLifecycle`, with their events,
and leaves the other writers of the job to one action.

### JobLifecycle

A task of the asyncio process yields only when it awaits Redis or S3, so an action is one Redis
command or Lua script, with the code that follows it up to the next await. boto3 is synchronous:
its calls never yield, and belong to the action around them.

| Variables | Code |
|---|---|
| `status`, `skipped` | the job hash (`eq-pdf:job:...`): `status`, `pii_skipped` |
| `age`, `idle`, `wait` | time since the upload and `created_at`; since the updated-at score; since the approval was issued |
| `piiQueue`, `tracked`, `mapped`, `locks` | PII list, deadline set, token mapping, approval locks |
| `temp`, `result` | temp bucket, results bucket |
| `submit`, `scan`, `req`, `run` | the program counter of each submission, scan, decision request with its background task, and processing task |
| `duty`, `todo`, `hand` | the timeout worker: its duty, the jobs still to examine, and what it decided on the job just examined |
| `stopping` | the shutdown event |
| `findings`, `accepted`, `licence`, `lapsed`, `disturbed` | history: what the analyzer said, which decisions were written, which writes made a job startable, which locks expired under a live holder, which jobs a crash or a Redis error touched |

| Actions | Code |
|---|---|
| `Submit*` | `submit_document` |
| `ScanDequeue`, `ScanRequeue` | `PIIWorker.start` |
| `ScanMark` .. `ScanFail` | `PIIService.process_pii_job`, `_queue_for_approval`, `_queue_for_processing` and their retries |
| `DecisionRead` | `submit_decision` with `validate_approval_token`, and `_process_pii_decision` |
| `QuickApprove`, `QuickDeny` | `quick_approve`, `quick_deny` |
| `DecisionUntrack`, `Approve*` | `process_approval_background` |
| `DecisionUntrack`, `Deny*` | `process_denial_background` |
| `LockExpires` | the 60 s of the lock key |
| `Run*` | `DocumentProcessingService.process_document`, one instance per task |
| `StartApprovalCheck`, `ExamineExpired`, `FailExpired`, `Untrack` | `TimeoutService` |
| `CleanTemps` | `S3CleanupService.cleanup_expired_temp_files` |
| `StartStuckSweep`, `ExamineStuck`, `FailStuck` | `OrphanCleanupService` |
| `Shutdown`, `Restart` | `lifespan`, and a crash at any point |
| `*Error`, `RunFails` | an error of Redis or S3 at any call; an applied write whose reply is lost where the retry repeats more than the write |
| `Tick` | the clocks, each capped at the limit it is compared with |

Left out: the approval list (written, never read), the approval methods without callers
(`process_approval_decision` and below), job TTLs and the 30-day retention (days against hours),
audit logs, metrics, and the content of documents: whether a document has findings is a constant.

**Bounds.** The requests a client may send are a constant set; `MaxCrashes` and `MaxFaults` bound
restarts and errors; the limits are 1 or 2 ticks. One job suffices for everything that one
job's tasks do to each other; what holds of several jobs, the proofs say. Two requests are the
smallest number that race, and `TwoDecisions` admits each pair of verdicts and endpoints that differ
in the code: two approvals, or an approval by token against a denial by job id. One crash and
one fault put an interruption at every point, a shutdown followed by a restart included; the crash is
kept away from the pair of approvals. The liveness run (`Calm`) admits the same pairs, two approvals
included, in peace, and one decision with a crash or with a fault. `StuckAge < TempRetention` in
`JobDecisions`, as in the configuration (2 h, 24 h); both are one tick in `JobSettles`, where only
their order with the end of the work matters. The proofs need none of these bounds but that order.

**Deadlock** is not checked: when every request is answered and every job has ended, the system
may rest. The same goes for the end of a session, of a stream and of a document in the other
modules, and for the end of their bounds.

**Fairness** (`Fairness`): the event loop does not stand still while some task is ready (`TaskStep`;
fairness to each task follows from it here, since a task ends after finitely many steps), the
timeout worker goes on with the duty it is at and comes to each of its duties again and again (its loop
visits all of them, so strong fairness for a duty that is ready whenever the worker is idle), a stopped
process is started again, and time passes. No client has to submit or decide, and nothing makes a fault happen.

### PiiGate

`gate` of a document is absent, unscanned, held or open; `published` is what the results bucket
holds. The refinement mapping reads `gate` from `skipped`, `findings` and `accepted`; `published`
is `result`. Thirty-odd actions with a dozen variables become five; all retries, crashes,
second decisions and sweeps are stuttering steps.

### CircuitBreaker

The process has three breakers that share nothing: S3 uploads, S3 downloads and document conversions.
The module is one of them; `kind` says which. The breaker's methods hold a lock, so each is one
action, together with what its caller does up to the next await. A call may await between
`check_state` and its outcome, and the breaker may have changed state meanwhile.

| Variables | Code |
|---|---|
| `state`, `failure_count`, `success_count`, `half_open_calls` | the attributes of the same name |
| `since` | ticks since `_last_failure_time`; `Never` for `None` |
| `call`, `attempt` | where each task is: out, queued for the client's semaphore, in flight, or pausing between two attempts; the attempt of a conversion |
| `healthy` | the service: from some point on it fails no call |
| `probing`, `strays`, `lost` | history of a half-open period: its probes in flight, the outcomes of calls admitted before it, its probes that ended without an outcome |

| Actions | Code |
|---|---|
| `store_document` .. `convert` | the methods that ask a breaker, each with what it may tell it: `check_state` with `_update_state`, and for a conversion the queue behind it. A refused call changes nothing |
| `Acquire` | the semaphore of `max_concurrent` conversions |
| `Succeed`, `Fail` | `record_success`, `record_failure` and the return of the caller |
| `ReadFails` | a download whose body cannot be read: a success and then a failure are recorded |
| `FailAndRetry`, `Resume` | a conversion records a failure, pauses and tries again without asking the breaker |
| `Abandon`, `Cancel` | a validation error, a missing result, a 4xx or 504, a cancelled task: nothing is recorded |
| `Heal`, `Tick` | the service recovers, time passes |

`reset` and `get_stats` have no caller in the service and are left out; so are object keys and contents,
the health poll that a pausing conversion makes (it decides nothing but when to go on), and the
callback for a cold start, which moves a progress label.

**Bounds.** Three calls are the fewest with which late outcomes free more slots than are taken: one
probe and two calls from before it; with two places in the semaphore one of three conversions
queues. Thresholds of 2 failures and 3 successes and one probe at a time keep every transition and
every count below and at its threshold; two attempts let a conversion fail in one period and
end in another.

**Deadlock** is not checked: a half-open breaker whose slots are all lost refuses every call for ever,
which is what `ClaimRecovers` shows.

**Fairness**: time passes, an admitted call proceeds and ends (every call has a timeout, and the
semaphore is handed on), and there is demand: a task that would be admitted makes its call. The
last is an assumption about clients. It is needed because the breaker has no timer and changes
state only when it is called.

### ViewerPipeline, PipelineResult, EventSource

One session of the pipeline viewer, from the POST that creates it. An action is what the
background task does between two awaits; failures may come at every await.

| Variables | Code |
|---|---|
| `task`, `structure` | where `_run_pipeline_with_buffer` is, and what the structure step handed to the later ones |
| `result` | `session.result`: whole versions, pages, steps. The text of a version is its provenance: the steps whose edits it carries |
| `buffer`, `status`, `decision` | `event_buffer`, `status`, `pii_decision` of the session |
| `stored` | the session store still holds it |
| `idle`, `ran`, `waited` | the clocks of eviction, of the pipeline timeout and of the wait for a decision |

| Actions | Code |
|---|---|
| `Begin`, `ScanEnds`, `DecisionHeard`, `DecisionTimesOut` | `process_pdf_stream`'s task up to the gate |
| `DoclingEnds`, `DoclingOcrEnds`, `ChainStepEnds`, `UploadEnds` | the steps of `PipelineViewerService` and the events about them |
| `PipelineTimesOut`, `Leave` | `asyncio.timeout` around it all, and the end of the task |
| `EvictExpired`, `Lookup`, `Decide` | `SessionStore.get`, `_evict_expired`, the endpoints of a session |
| `View` | what `usePipelineViewer` makes of the events |

Left out: events that carry images or move a progress label, the gauge, identity attribution. The
synchronous endpoint runs the same pipeline without a buffer.

**Bounds.** Limits of 1 and 2 ticks: the pipeline's is longer than the decision's and the session's not
shorter than the pipeline's, as with the defaults (10 min, 30 min, 1 h). `EvictionSparesRunning`
depends on that order, since nobody need touch a session while its pipeline runs; a configured
`pipeline_timeout_seconds` of more than an hour, which the settings accept, would break it. Two
failures reach each pair of failed steps.

**Fairness** (`FairSpec`): the task runs when what it awaits has ended, and time passes; awaited
calls end because of the pipeline timeout, if by nothing else. Nobody has to decide.

`EventSource` says what a reader of a buffer needs: events are only appended, the buffer is
closed once, with `done` unless the task was cancelled, and nothing comes after.
`ImplementsEventSource` says that the pipeline is one; the run checks it and section 4 proves it.

### SessionStream

| Variables | Code |
|---|---|
| `events`, `closed`, `new_event`, `stored` | the session, as an `EventSource` |
| `reader`, `wire` | `_buffer_reader` of the open connection with its cursor; events in flight |
| `at`, `sid`, `last`, `attempt`, `seen` | the hook: where it is, the session id, `lastEventIdRef`, reconnects, what it has handled |

`Produce` and `Evict` are the server's side, `Reader*` the reader's loop cut at its yields and
awaits, `ConnectionBreaks` any break with the loss of everything in flight; `HandleEvent`,
`StreamEnds`, `Reconnect*`, `GiveUp` are the hook. The reader's three reads (length, status, event flag) are
separated by its yields exactly as in the code, so a reader may return early or sleep through a
wake-up; the properties say what this costs.

**Bounds.** Seven events in bursts of two, three breaks, a wire of two and four reconnects (the hook has ten):
an early return, a lost wake-up and three breaks use up the attempts of one behaviour; with one
attempt less `EventsArrive` fails. **Fairness**: a reader goes on (its heartbeat timer wakes it without
an event), and the hook's timers run. The pipeline may fall silent at any point.

### JobStream

| Variables | Code |
|---|---|
| `run`, `bus`, `registry`, `gauge` | each processing task with its progress counters; its `EventBus`; `_event_registry`; the Redis counter of jobs in processing |
| `token`, `client`, `seen` | the newest stream token; the generator of `stream_events`, with its subscription, replay and polls; what it delivered |
| `leaked`, `overlapped` | history: what failed calls and crashes left on the gauge; tasks that shared the registry entry |

| Actions | Code |
|---|---|
| `MarkProcessing` .. `Unregister` | `process_document` from its first status write to the removal of the bus. A status write that raises may have been carried out; the last event is published (`Announce`) after the status is written and its expiry set, which may fail in between |
| `AskToken`, `TokenExpires`, `Connect` | token endpoint, its TTL, `GETDEL` |
| `ReadJob`, `StartOrPoll`, `Replay`, `Follows`, `KeepAlive` | the handler and the generator, one action per yield or await |
| `Breaks`, `Crash`, `WrittenByOthers` | a lost connection, a lost process, a sweep or a late decision |

**Bounds.** Two tasks are what the races of `JobLifecycle` can start at once; one fault is one of {failed call, break,
crash, foreign write}; one poll before giving up; no optional features, so a chain is docling with or
without OCR and ends in one of two phases. Each task and the generator are fairly scheduled; nobody
has to connect.

### RateLimit

| Variables | Code |
|---|---|
| `zset`, `expires` | the sorted set of each address and the global one; when Redis removes the key |
| `request` | where a request is between two calls of `check_rate_limit`, the time it read first, what it counted, the `Retry-After` it was given |
| `now` | the clock |

`CountEntries` is the pipeline of purge and count, `AddEntry` the `ZADD` and `SetExpiry` the `EXPIRE` after it,
`Refuse` the reading of the oldest entry, `FailOpen` any error with the call carried out or not,
`ReadQuota` the headers, which purge again. `Tick` removes a key whose expiry has come (`Lapses`). Between
its `ZADD` and its `EXPIRE` a request depends on the expiry an earlier one set: when that runs out,
Redis drops the key with the new entry, and the `EXPIRE` finds nothing to renew. Such a request is
marked `lapsed`. The limit on status paths matches no route, and `reset_rate_limit` has no caller.

**Bounds.** Three requests from two addresses are the fewest with which either limit is overrun (by one
at an address, by one for all) and one request meets both. Different windows, and two ticks to a
second, show the rounding.

### PageEdits

| Variables | Code |
|---|---|
| `agent`, `text`, `changes`, `call`, `asks` | `deps` of each agent: `current_markdown`, `changes`, its tool calls in flight, the counts of its helpers |
| `versions`, `step`, `ledger`, `response` | `v1` and `v2`, the two `StepResult`s, the stored ledger, the answer of the ledger endpoint |

One agent per page under a semaphore, then the boundary and the footnote agent one after the other. A synchronous tool
runs on a thread of its own, so a `str_replace` is a check, a read, a store and a record, each an
action, and the two calls of one answer interleave in every way. What a model answers is a choice over all
tool calls on a small vocabulary.

**Bounds.** Two pages are the fewest with a boundary; three calls are two at once and one before or
after, or one in each of three agents; one agent fails; a word occurs twice on a page and one is
split over the pages, one page may be rewritten as a whole. The semaphore of one orders the pages; agents of
different pages share nothing but it. The steps between v1 and v2 that call no tool (fences around code, heading
levels, cleanup) are left out: the agents of the document start from the joined pages, and `DocumentReplays`
is about what they and the ledger do from there. The proofs need none of these bounds.

### DocumentText

The steps on text as one action each, over variables for what they produce: pages and figures
(`Extract`), the section map by line offsets (`BuildSectionMap`), hints of the page agents
(`GeneratePageHints`), fences around code (`FenceBlock`), hints at boundaries
(`GenerateBoundaryHints`). A line is a kind and, where texts are compared, a text; the fuzzy comparison is a
constant table, `Likeness`, whose threshold is crossed or not; `Languages` are those of code, with one for a
fence without. The properties are reference definitions: what
a section, a hint, a fence or a figure ought to be, stated on lines instead of offsets.

Left out: hints that look at single characters, such as a page that ends in mid-sentence. A `row` stands
for a line of a table in either notation, so the split table of `BoundaryHints` is that of the markdown test and
of the HTML one. `FuzzyFind` has one threshold where the code has several, each of them a value of the
table; only lines with a text can be found.

**Bounds.** Every document of three pages out of fourteen kinds (empty, blank, a heading first, in the middle
or last, a row at either edge, running headers and footers, pictures), with three outlines and
with the first crop failed or not; and pages of code with two blocks, fenced, unfenced and crossing a
fence. Three pages have a first, a middle and a last one.

### LoginSession

| Variables | Code |
|---|---|
| `jar` | the cookies of one browser: session, companion (CSRF), login in progress |
| `request` | each request under way, with the cookies it was sent with and the answer it got |
| `secret`, `idpKey`, `keys`, `kickoffs` | signing secret, the provider's key, the JWKS cache, logins begun |
| `answered`, `overtaken`, `signedOut`, `revived`, `early`, `excuse` | history: the newest signed-in answer, and why a property may not be claimed |

A request is sent with the cookies of its moment, handled by `SessionAuthMiddleware` and its route, and its
cookies are stored when the response arrives, in any order. That goes for the redirect of a login at
the provider too: it carries the cookie of the login in progress and, for a browser with a stale session,
a new session from the middleware; `FollowRedirect` is its arrival. The server keeps no session record.

**Bounds.** Two requests at a time, three in all; half-life and key cache of 1 and 2 ticks; one restart,
rotated key or failed call. Left out: API keys, public paths and the mode without authentication,
which are checks of one request without state.

## 3. Runs

| Run | Instance | Shows |
|---|---|---|
| `JobDecisions` | one flagged document, two decisions, one crash, one fault | `OnlyClearedIsConverted`, `AwaitingIsTracked`, `SourceIsKept`, `StartsAreLicensed`, `CompletedHasResult`, `DecisionStands`, refinement of `PiiGate` |
| `JobSettles` | two decisions in peace, or one with a crash and a fault; fair | `EveryJobSettles`, `NoWorkForever`, `UploadsAreDeleted` |
| `JobStream` | two tasks, one stream, one fault; fair | `StreamShowsBus`, `ProgressAddsUp`, `RunIsFound`, `GaugeAccounts`, `StreamEnds` |
| `CircuitCalls` | three calls, each kind of breaker; fair | `ProbesAreBounded`, `SlotsAreAccounted`, `RecoversUnlessLost` |
| `ViewerGate` | one session, two failures, all timers; fair | `ViewMatches`, `GateHolds`, `NoEditIsLost`, `EvictionSparesRunning`, `EverySessionCloses`, refinement of `EventSource` |
| `ViewerStream` | seven events, three breaks, four reconnects; fair | `SeenInOrder`, `CompleteSawAll`, `EventsArrive` |
| `SubmitLimit` | three submissions, two addresses, one fault | `OvershootIsLate`, `AdmittedIsCounted`, `RefusalIsFree`, `RetryFreesASlot` |
| `PageEdits` | two pages, three tool calls, one failing agent | `PagesReplay`, `DocumentReplays` |
| `LoginSession` | three requests of one browser, one event | `StaysSignedIn`, `LogoutHolds`, `OnlyExcusedLoginsFail` |
| `DocumentText` | some ten thousand documents | `SectionsPartition`, `HintsMatchSections`, `CodeIsFenced`, `FiguresInPlace` |
| `ClaimRecovers` | two conversions; fair | that `Recovers` fails |
| `ClaimQueued` | one approval, one fault; fair | that `QueuedIsCleanedUp` fails |

The exceptions in these properties are there because the code has them, and are as narrow as they can be
made: without any of them TLC finds the property violated.

- `JobLifecycle`: `disturbed` jobs (a crash or an error between two writes loses the deadline entry, or
  repeats the routing), `lapsed` locks (a holder stalled past 60 s), jobs past `StuckAge` (whose upload the
  sweeps may take from under them). `EveryJobSettles` has two: a job whose own scan or decision a crash or an
  error `CutShort`, and that is left queued or without a deadline entry; and a queued job whose
  approval `GaveWay` to another one's lock. A fault anywhere else excuses nothing.
- `JobStream`: repeats of events published during the replay; tasks that overlap share one
  registry entry; `leaked` counts.
- `SessionStream`: an evicted session, and a hook that never learnt its session id. `EventsArrive` holds only
  below `MAX_RECONNECT` breaks, as the hook never gets an attempt back; the bounds keep to that.
- `RateLimit`: entries added on a count that others had overtaken; a request whose key ran out between its
  own `ZADD` and `EXPIRE` (`lapsed`), or that met an error; one spent entry of an address
  when the global limit refuses; a second that `Retry-After` is rounded down by.
- `PageEdits`: edits that ran at once; rewritten pages, of which the ledger keeps only an excerpt.
- `LoginSession`: an older session that arrives after a newer one; a request sent before the logout and
  answered after it.
- `DocumentText`: a fence crossed by a block; a failed crop; a document without headings.

### What the claims show

| Run | The text | What happens |
|---|---|---|
| `ClaimRecovers` | breakers fail fast and allow recovery | a probe that ends without an outcome keeps its slot, and the breaker stays half-open |
| `ClaimQueued` | after a failed approval the "timeout worker can handle cleanup" of the queued job (`approval_service.py:471`) | no duty of the worker looks at `processing_queued`: the job stays there for ever |

`RecoversUnlessLost` against `ClaimRecovers` locates the breaker's flaw: with no lost probe it
always closes again, with one it may not.

### Other divergences, without a run

Texts the code does not live up to, or effects it hardly intends, seen while modelling.

A job's life:
- The deadline check reads the status, awaits, and then writes: an approval in between is overwritten.
- The deadline's cleanup of the upload is given an object without `delete_object`; the error is swallowed
  and the upload stays until a sweep takes it.
- The approval lock does not prevent duplicate processing: it is released when the task starts, and a second
  decision makes the job startable again. Both of two decisions that validated in time are accepted.
- A failed background approval leaves `processing_queued`, which no duty looks at (`ClaimQueued`); the job
  status endpoint has no answer for that status and fails.
- Two approvals can do the same without an error: the task of the first ends while its release of the
  lock is under way, the second writes `processing_queued`, takes the job off the deadline list, finds the
  lock set and returns (`approval_service.py:397`, `466`). `EveryJobSettles` names this as `GaveWay`.
- A crash between the status write and the deadline entry leaves a job awaiting for ever.
- A token is valid until its deadline whatever became of its job; completed, failed and denied are not
  final. "Stuck for two hours" means two hours since the upload.
- The stream of a job that is denied sends keepalives for ever; the documented `bundle_url` endpoint does not exist.

Storage and limits:
- A half-open breaker does not send one request at a time (`ProbesAreBounded` has the exact bound). A missing
  object counts as a failure of the download breaker.
- The limit on status requests applies to no route.
- `ZADD` and `EXPIRE` are two calls: the expiry that an earlier request set can run out between them, and the
  entry of an admitted request is dropped with the key (`rate_limit_service.py:160`, `163`).
- The ledger endpoint says that it returns the complete change ledger (`documents.py:619`). It reads
  `entries`, and the stored object has `steps`: it answers the number of edits and not one of them (`GetLedger`).

The viewer and its pipeline:
- An OCR run that fails halfway has overwritten v0, although comments say that the first extraction is kept.
- A decision that comes after the pipeline stopped waiting is answered "accepted" and has no effect.
- The upload of the document to the feedback service starts before the PII gate.
- Two `str_replace` calls of one answer can lose an edit and yet record it.
- In the whole document v0, placeholders are numbered by position, so a crop that failed shifts those after it.
- A region wrapped in a fence across another fence leaves the fences of the page unpaired.

Authentication:
- The middleware re-issues a session whatever the status of the response; a 401 does not clear the
  cookie; the cookie of a login in progress is left behind by failed callbacks.
- A slow response can replace a newer session by an older one.

## 4. Proofs

Eight modules of proofs, one per specification but for the two on what a viewer's session sends and
records, whose proofs share `ViewerSession_proofs`. Every safety invariant of the runs has a theorem. Each proof has one step per action and one lemma
per part of the invariant; `TypeOK` is proved for six modules and is therefore not repeated in the runs.
The provers cannot use induction schemes. Where a proof needs induction over the naturals (what a
recursive function over a sequence returns), the lemma `Induct` derives it from the well-foundedness of `<`:
a set of naturals with 0 and every successor has no least number left out. `InductSeq` is the same for
sequences: a set with the empty one that is closed under `Append` has every sequence.

| Module | Properties proved | Inductive invariant |
|---|---|---|
| `JobLifecycle_proofs` | `OnlyClearedIsConverted`, `AwaitingIsTracked`, `SourceIsKept`, `StartsAreLicensed`, `CompletedHasResult`, `DecisionStands`, `ImplementsPiiGate` | `SafetyInv` |
| `CircuitBreaker_proofs` | `SlotsAreAccounted`, `ProbesAreBounded` | `CountersAgree`, `SlotInv` |
| `ViewerPipeline_proofs` | `GateHolds`, `ImplementsEventSource`, `NoEditIsLost`, `ViewMatches`, `EvictionSparesRunning` | `GateInv`, `OpenInv`, `EditInv`, `ViewInv`, `IdleInv` |
| `ViewerSession_proofs` | of `SessionStream`: `SeenInOrder`, `CompleteSawAll`; of `PageEdits`: `PagesReplay`, `DocumentReplays` | `StreamInv`, `LedgerInv` |
| `JobStream_proofs` | `RunIsFound`, `GaugeAccounts`, `ProgressAddsUp`, `StreamShowsBus` | `FoundInv`, `GaugeInv`, `ProgressInv`, `ShowsInv` |
| `RateLimit_proofs` | `OvershootIsLate`, `AdmittedIsCounted`, `RefusalIsFree`, `RetryFreesASlot` | `UnderCount`, `KeptInv`, `SpentInv`, `RefusedInv` |
| `LoginSession_proofs` | `StaysSignedIn`, `LogoutHolds`, `OnlyExcusedLoginsFail` | `SessionInv`, `LoginInv` |
| `DocumentText_proofs` | `SectionsPartition`, `HintsMatchSections`, `CodeIsFenced`, `FiguresInPlace` | `TextInv`, `SectionsKept` |

The theorems on `JobLifecycle` hold for every set of jobs and requests and every value of the limits
and bounds, under `ConstantsAssumption` (flagged documents are jobs, requests are well formed, limits are
natural numbers and the stuck age is not above the retention: 2 h and 24 h by default, an order that the
settings do not enforce and `SourceIsKept` depends on).

`JobLifecycle_proofs` proves `Spec => []TypeOK`. The safety properties are not inductive; the
inductive invariant is `SafetyInv` of `JobInvariants`, in six parts, each with one lemma and in it
one step per action:

- `GateInv`: the worker's position, the token mapping, the status that reviewers can see, and the
  position of each request agree with the findings. So a decision is taken only on a flagged
  document, and a task is started only for a cleared one.
- `ResultInv`: a task past a store has the object in the bucket, and nothing removes it.
- `LockInv`: a startable status still has its licence, and of the tasks between taking and
  releasing a job's lock there is one at most, with the key in place, unless a lock lapsed.
- `SourceInv`: an upload is missing only after a denial or past the age of the sweeps.
- `ComesOnce`: a job is in the queue or at the worker once.
- `TrackInv`: before its scan publishes it nobody sees a job; who takes a job off the deadline
  list has moved it on before. `AwaitingIsTracked` and `DecisionStands` follow.

Its last part proves `Spec => Gate!Spec`: each action turns one document's gate
as `PiiGate` allows, publishes for an open gate, or stutters.

`CircuitBreaker_proofs` proves types, `CountersAgree`, `SlotsAreAccounted` and `ProbesAreBounded` for
every set of calls, every threshold and every timeout (`BreakerAssumption`: finitely many calls,
positive thresholds). `CountersAgree` is inductive with the types. The other two rest on `SlotInv`:
a probe is a call in flight, there are probes only while the breaker is half-open, and the slots
taken and the probes in flight differ by at most `lost` one way and `strays` the other. Each way
of ending a call moves both sides of these inequalities alike.

`ViewerPipeline_proofs` proves types and `GateHolds` for all timeouts and any number of failures
(`SessionAssumption`). `GateInv` adds that nothing is extracted while the task is in front of the
gate, and that a session is not flagged before the scan has ended; a decision never changes.
The module also proves that the pipeline implements `EventSource`, with the buffer, each event reduced
to being `done` or not, for its events. The one invariant needed is `OpenInv`: a session whose
status is final has a task that is leaving or gone. A step of the task publishes at most two events, which
is why `MaxBurst` must be at least 2; it finishes with `done` when it sets a final status, and a
cancelled task aborts the source.

`NoEditIsLost` follows from `EditInv`: which versions and steps there are follows from where the task
is (`Stage`), a version and its pages carry the same steps (`Agrees`), and the newest version carries each
rewriting step that was recorded (`Carried`). `ViewMatches` follows from `ViewInv`: between two awaits the view
of the events published is the result itself, since each step's event carries just what it
changed; `View` is recursive, and is first shown to exist, to be unique, and to change by one `Apply` with one
event more. `EvictionSparesRunning` is proved from the hypothesis `PipelineTimeout <= SessionTTL`,
which the defaults meet (30 and 60 minutes) and the settings do not enforce; `IdleInv` says that a running
session has never been idle for longer than it has run.

The first part of `ViewerSession_proofs` proves types, `SeenInOrder` and `CompleteSawAll` for any source of events, any
number of breaks and any wire. `StreamInv`: what was handled is a prefix of the buffer that ends at
`last`; the events on the wire follow it without a gap; the reader's cursor follows the wire; and
only the last event of a closed buffer is `done`.

`JobStream_proofs` proves types, `RunIsFound` and `GaugeAccounts` for any finite set of tasks and any
features. `FoundInv` says that two tasks present at once have overlapped, so an entry removed by
another task was shared with it. The gauge is compared with a cardinality, and each step of a task
moves both sides by the same amount. `ProgressInv` places every event in the chain of steps: its number is the
rank of its phase, one more once OCR has run, and its total the length of the chain counted the same way.
`ShowsInv` says what a stream has delivered at each stage of subscribing, replaying and following, and that
`complete` is the last event of a bus.

`RateLimit_proofs` proves types and the four properties of the limiter for all limits, windows and latencies
(`LimitAssumption`). `UnderCount` says that a request about to add has counted fewer than the limit,
and an entry that is not late joins only what was counted; `KeptInv` that a purge, whose
reading of the clock is never after the present, spares what is within the window, and that from a
request's own `EXPIRE` on the key outlives its entry; `SpentInv`
which entries a request has made where; `RefusedInv` that the oldest entry a refused request has
counted decides its `Retry-After`.

`LoginSession_proofs` proves the three properties for any number of requests and any lifetimes
(`LoginAssumption`). `SessionInv`: unless a request is `early`, or an older session came over a newer one, the
jar holds the session the request was sent with or a newer one, under the same secret; so an answer
that needed no fresh session tells that the one in the jar had not passed its half-life; and after a logout only an
early request carries a session. `LoginInv` follows each login that nothing excuses through its
redirects: its tx cookie is the one in the jar, and the provider's key is the one its token was signed
with. The proof of `StaysSignedIn` failed at first, for a case of three requests at once that the run, with
two, does not reach: of two slow logins that arrive after a newer session, the second made the history
forget what the first had done. `overtaken` now lasts until a login arrives that is newer than the newest answer.

The second part of `ViewerSession_proofs` proves both properties of `PageEdits` for any pages, words, limits and number of calls
(`EditAssumption`). `LedgerInv`: of an agent that edits one call at a time, the text is the replay of its
entries over what it started from, and of the entry that is stored but not yet appended; the versions are the ones
the steps collected; and each agent of the document started from what the one before it left. `ReplayTwo`
says that replaying two ledgers in turn is replaying both joined. What joining pages and hyphens does to
a text is not needed, and not proved.

`DocumentText_proofs` proves the four properties of the steps on text for any documents, outlines, pictures,
code blocks, languages and comparison of texts. `DocumentAssumption` and `PictureAssumption` say what
docling-serve answers: pages of lines without figures, and a placeholder for every picture, on its page and in
the order of the document. `TextAssumption` says that the comparison gives a score. Each recursive function is
first shown to exist and to be unique; the lemmas then are inductions over lines, figures or pages.

- `CodeIsFenced` is part of `TextInv`, which is inductive: putting a fence around a region that holds none,
  behind a paired number of fences, keeps the fences paired (`Inside` counts them), and naming the language of
  the fence that opens a region of `Regions` does so too, because in paired fences each region begins
  at an opening one. Of a page whose fences do not come in
  pairs it is only claimed that its lines are kept.
- `FiguresInPlace`: filling the placeholders of two texts joined is filling those of the first, and then the
  rest in the second. Page by page this needs that the figures of a page are as many as its placeholders,
  which is `PictureAssumption`, counted by induction over the pages. Stripping a page and leaving empty
  pages out disturbs blank lines only.
- `SectionsPartition`: matched headings stand at rising lines, so the sections are cuts of one sequence, without
  a gap. The document with each line labelled with its page is cut at the same places; a line's label is what
  `LineToPage` finds from the offsets, since those do not fall from page to page.
- `HintsMatchSections` (with `SectionsKept`: the map is the one made of v0, which later steps leave alone): the cut that
  holds the first line of the next page either begins there, and then no section reaches over the
  boundary, or begins before it, and then it is on both pages. A heading is told from a section by its line, so
  one more fact is needed: if a later heading that equals the page's first line is matched, the first one
  is too, because the entries of the outline in use only grow.

Only model-checked: liveness (it needs fairness and ENABLED), and that the claims fail.

## 5. Not modelled

- The age of days: TTLs of the job hash, the 30-day retention and the drift between hash and index,
  where everything modelled takes hours. A status write to an expired job makes a hash with only
  that status.
- Prompts and the answers of models: an answer is a choice over what the code accepts.
- The classifier and the OCR check, numeric heuristics over the content of a document: other modules
  let a document be rejected, or need OCR, by choice.
- `text_cleanup` and `markdown_cleanup`: regular expressions over text, without state.
- Metrics, telemetry, audit logs and debug artifacts, on which nothing depends; the viewer's
  gauge, which is only published.
- Data declarations; the rendering part of the front end.
- API keys and public paths: checks of one request.
- Code without a caller: `process_approval_decision` and below, `reset`, `reset_rate_limit`.

What could come next: a module on retention with coarse time; the regular expressions of the text
cleanup as operators on small alphabets with a reference definition.
