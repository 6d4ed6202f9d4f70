--------------------------- MODULE ViewerPipeline ---------------------------
(***************************************************************************)
(* The background task of one streaming session of the pipeline viewer: it *)
(* scans, waits for the user's decision, runs the steps of the pipeline    *)
(* and appends what happens to the session's buffer, under two timers,     *)
(* while the store may evict the session and cancel the task. asyncio runs *)
(* one task at a time, so what the task does between two awaits is one     *)
(* action. A tick is one unit of the timers; a timer that is due fires     *)
(* before the next tick. The gauge of running jobs, and the events that    *)
(* only move a progress label or carry an image, are left out.             *)
(***************************************************************************)
EXTENDS PipelineResult, FiniteSets

CONSTANTS
    DecisionTimeout,  \* _PII_DECISION_TIMEOUT_SECONDS
    PipelineTimeout,  \* settings.pipeline_timeout_seconds
    SessionTTL,       \* SESSION_TTL_SECONDS
    MaxFailures,      \* bound on the steps that fail
    MaxBurst          \* events appended between two awaits

ASSUME SessionAssumption ==
    /\ DecisionTimeout \in Nat /\ PipelineTimeout \in Nat /\ SessionTTL \in Nat
    /\ MaxFailures \in Nat /\ MaxBurst \in Nat \ {0, 1}

VARIABLES
    task,       \* where the task is: the step it awaits
    result,     \* session.result
    structure,  \* what the structure analysis returned
    buffer,     \* session.event_buffer
    status,     \* session.status
    decision,   \* session.pii_decision, "none" before it is set
    stored,     \* the store still holds the session
    failures,   \* steps that failed
    \* timers
    idle,       \* since session.last_accessed
    ran,        \* since the pipeline's timeout started
    waited      \* since the task waits for a decision

clocks == <<idle, ran, waited>>
vars == <<task, result, structure, buffer, status, decision, stored, failures, clocks>>

Event(type) == [type |-> type]
Failed(step) == [type |-> "error", step |-> step]
Done == Event("done")
IsDone(i) == buffer[i].type = "done"
Final == status \in {"completed", "error"}

(***************************************************************************)
(* The pipeline task.                                                      *)
(***************************************************************************)
Chain == <<"structure", "heading_reconciliation", "heading_levels", "page_content",
           "code_blocks", "boundaries", "cleanup">>
ChainSteps == {Chain[i] : i \in DOMAIN Chain}
TimedSteps == {"pii_scan", "decision", "docling", "docling_ocr", "upload"} \cup ChainSteps

Raise == failures < MaxFailures /\ failures' = failures + 1
Smooth == UNCHANGED failures

\* the task has nothing left but the decrement in its finally clause
MutantEndsWith(outcome, events) ==        \* "done" before the last events
    /\ status' = outcome
    /\ task' = "leaving"
    /\ buffer' = buffer \o <<Done>> \o events

MutantEndsOpen(outcome, events) ==        \* the status is not set
    /\ status' = status
    /\ task' = "leaving"
    /\ buffer' = buffer \o Append(events, Done)

EndsWith(outcome, events) ==
    /\ status' = outcome
    /\ task' = "leaving"
    /\ buffer' = buffer \o Append(events, Done)

\* the structure names what the deterministic steps will find to edit
NoStructure == {"none"}
Structures == SUBSET {"heading_levels", "code_blocks"}

\* the step that follows the i-th of the chain, given the result r and structure s
After(i, r, s) ==
    IF s = NoStructure \/ i = Len(Chain) \/ (Chain[i] = "boundaries" /\ ~Has(r, "v2"))
    THEN "upload"
    ELSE Chain[i + 1]

Proceed(next, events) ==
    /\ task' = next
    /\ buffer' = buffer \o events

InitEvent(r) == [type |-> "init", result |-> r]

\* classifies the file and reaches the first await of a step
Begin ==
    /\ task = "starting"
    /\ \/ /\ result' = Record(result, "classification")
          /\ EndsWith("completed", <<InitEvent(result')>>)
       \/ EndsWith("error", <<Failed("pipeline")>>) /\ UNCHANGED result
       \/ Proceed("docling", <<[type |-> "pii_scan", awaiting |-> FALSE]>>) /\ UNCHANGED result
       \/ Proceed("pii_scan", <<>>) /\ UNCHANGED <<result, status>>
    /\ task' # "leaving" => UNCHANGED status
    /\ UNCHANGED <<structure, decision, stored, failures, clocks>>

\* an extraction or analysis error leaves no findings, and the task goes on
ScanEnds(findings) ==
    /\ task = "pii_scan"
    /\ Smooth \/ (Raise /\ ~findings)
    /\ result' = Record(result, "pii_scan")
    /\ LET scanned == <<[type |-> "pii_scan", awaiting |-> findings]>>
       IN  Proceed(IF findings THEN "decision" ELSE "docling", scanned)
    /\ UNCHANGED <<structure, status, decision, stored, clocks>>

Denied(reason) == [type |-> "pii_decision", decision |-> "denied", reason |-> reason]
Approved == [type |-> "pii_decision", decision |-> "approved"]

DecisionHeard ==
    /\ task = "decision" /\ decision # "none"
    /\ IF decision = "approved"
       THEN Proceed("docling", <<Approved>>) /\ UNCHANGED status
       ELSE EndsWith("completed", <<Denied("user")>>)
    /\ UNCHANGED <<result, structure, decision, stored, clocks, failures>>

\* the wait may time out although the decision has come at the last moment
MutantDecisionTimesOut ==                 \* no answer is taken for a yes
    /\ task = "decision" /\ waited = DecisionTimeout
    /\ Proceed("docling", <<Approved>>)
    /\ UNCHANGED <<result, structure, status, decision, stored, clocks, failures>>

DecisionTimesOut ==
    /\ task = "decision" /\ waited = DecisionTimeout
    /\ EndsWith("completed", <<Denied("timeout")>>)
    /\ UNCHANGED <<result, structure, decision, stored, clocks, failures>>

\* metadata and markdown; the images follow one by one
ShowExtraction(r) == Proceed("structure", <<InitEvent(r)>>)

DoclingEnds ==
    /\ task = "docling"
    /\ \/ /\ Smooth
          /\ result' = DoclingStep(result)
          /\ UNCHANGED status
          /\ ShowExtraction(result') \/ Proceed("docling_ocr", <<>>)
       \/ /\ Raise
          /\ result' \in {result, Extracted(result, "docling")}
          /\ EndsWith("error", <<Failed("docling")>>)
    /\ UNCHANGED <<structure, decision, stored, clocks>>

DoclingOcrEnds ==
    /\ task = "docling_ocr"
    /\ \/ Smooth /\ result' = DoclingOcrStep(result) /\ ShowExtraction(result')
       \/ /\ Raise
          /\ result' \in OcrFailures(result)
          /\ Proceed("structure", <<Failed("docling_ocr"), InitEvent(result')>>)
    /\ UNCHANGED <<structure, status, decision, stored, clocks>>

\* what the step did to the result: edits need something the structure named
StepEffect(step) ==
    CASE step = "structure"              -> StructureStep(result)
      [] step = "heading_reconciliation" -> HeadingReconciliationStep(result)
      [] step = "heading_levels"         -> HeadingLevelsStep(result, step \in structure)
      [] step = "page_content"           -> PageContentStep(result)
      [] step = "code_blocks"            -> CodeBlocksStep(result, step \in structure)
      [] step = "boundaries"             -> BoundariesStep(result)
      [] step = "cleanup"                -> CleanupStep(result)

\* the versions whose new text the step event carries
MutantNewVersions(step, r) ==             \* code blocks always report v1
    CASE step = "heading_levels" -> {"v0"}
      [] step \in {"page_content", "code_blocks"} -> {"v1"}
      [] step = "boundaries"     -> {"v2"}
      [] step = "cleanup"        -> {"v3"}
      [] OTHER                   -> {}

NewVersions(step, r) ==
    CASE step = "heading_levels" -> {"v0"}
      [] step = "page_content"   -> {"v1"}
      [] step = "code_blocks"    -> {PagedSource(r)}
      [] step = "boundaries"     -> {"v2"}
      [] step = "cleanup"        -> {"v3"}
      [] OTHER                   -> {}
NewPages(step, r) == NewVersions(step, r) \cap {"v0", "v1"}

StepEvent(step, r) ==
    [type     |-> "step",
     step     |-> r.steps[Len(r.steps)],
     versions |-> [v \in NewVersions(step, r) |-> r.versions[v]],
     pages    |-> [v \in NewPages(step, r) |-> r.pages[v]]]

\* a step that raises reports it and the pipeline continues without its effect
ChainStepEnds(i) ==
    /\ task = Chain[i]
    /\ \/ /\ Smooth
          /\ result' = StepEffect(Chain[i])
          /\ structure' \in IF i = 1 THEN Structures ELSE {structure}
          /\ Proceed(After(i, result', structure'), <<StepEvent(Chain[i], result')>>)
       \/ /\ Raise
          /\ UNCHANGED <<result, structure>>
          /\ Proceed(After(i, result, structure), <<Failed(Chain[i])>>)
    /\ UNCHANGED <<status, decision, stored, clocks>>

\* an upload to the feedback service that failed is only logged
UploadEnds ==
    /\ task = "upload"
    /\ EndsWith("completed", <<>>)
    /\ UNCHANGED <<result, structure, decision, stored, clocks, failures>>

PipelineTimesOut ==
    /\ task \in TimedSteps /\ ran = PipelineTimeout
    /\ EndsWith("error", <<Failed("pipeline")>>)
    /\ UNCHANGED <<result, structure, decision, stored, clocks, failures>>

Leave ==
    /\ task = "leaving"
    /\ task' = "ended"
    /\ UNCHANGED <<result, structure, buffer, status, decision, stored, failures, clocks>>

(***************************************************************************)
(* The store and the endpoints that look a session up.                     *)
(***************************************************************************)
MutantExpired == idle >= SessionTTL
Expired == idle > SessionTTL

\* cancelling the task makes the status final without a done event
CancelTask ==
    IF task \in TimedSteps THEN task' = "leaving" /\ status' = "error"
    ELSE task' = "ended" /\ UNCHANGED status

\* any request that looks up or creates a session sweeps the expired ones
EvictExpired ==
    /\ stored /\ Expired
    /\ stored' = FALSE
    /\ CancelTask
    /\ UNCHANGED <<result, structure, buffer, decision, idle, ran, waited, failures>>

Found == stored /\ ~Expired
Touch == idle' = 0

\* the endpoints of a session look it up first, and its reader may come back
Lookup ==
    /\ Found /\ Touch
    /\ UNCHANGED <<task, result, structure, buffer, status, decision, stored, failures, ran, waited>>

\* whoever knows the session may decide, at any time; only the first decision counts
Decide(verdict) ==
    /\ Found /\ Touch
    /\ decision = "none" /\ decision' = verdict
    /\ UNCHANGED <<task, result, structure, buffer, status, stored, failures, ran, waited>>

\* a timer that is due holds time back
TimerDue ==
    \/ task \in {"starting", "leaving"}
    \/ task = "decision" /\ waited = DecisionTimeout
    \/ task \in TimedSteps /\ ran = PipelineTimeout

Tick ==
    /\ ~TimerDue
    /\ idle' = IF Expired THEN idle ELSE idle + 1
    /\ ran' = IF task \in TimedSteps THEN ran + 1 ELSE ran
    /\ waited' = IF task = "decision" THEN waited + 1 ELSE waited
    /\ UNCHANGED <<task, result, structure, buffer, status, decision, stored, failures>>

-----------------------------------------------------------------------------
\* the POST handler has created the session and spawned the task
Init ==
    /\ task = "starting" /\ result = EmptyResult /\ structure = NoStructure
    /\ buffer = <<Event("session")>> /\ status = "processing" /\ decision = "none"
    /\ stored = TRUE /\ failures = 0
    /\ idle = 0 /\ ran = 0 /\ waited = 0

TaskNext ==
    \/ Begin
    \/ \E findings \in BOOLEAN : ScanEnds(findings)
    \/ DecisionHeard \/ DecisionTimesOut
    \/ DoclingEnds \/ DoclingOcrEnds
    \/ \E i \in DOMAIN Chain : ChainStepEnds(i)
    \/ UploadEnds \/ PipelineTimesOut \/ Leave

Next ==
    \/ TaskNext
    \/ EvictExpired
    \/ Lookup
    \/ \E verdict \in {"approved", "denied"} : Decide(verdict)
    \/ Tick

Spec == Init /\ [][Next]_vars

\* awaited steps end, and time passes
FairSpec == Spec /\ WF_vars(TaskNext) /\ WF_vars(Tick)

(***************************************************************************)
(* The result that a browser shows once it has handled the events so far.  *)
(***************************************************************************)
\* { ...old, ...new }
Spread(old, new) ==
    [k \in DOMAIN old \cup DOMAIN new |-> IF k \in DOMAIN new THEN new[k] ELSE old[k]]

Apply(view, e) ==
    CASE e.type = "init" -> e.result
      [] e.type = "step" ->
            [versions |-> Spread(view.versions, e.versions),
             pages    |-> Spread(view.pages, e.pages),
             steps    |-> Append(view.steps, e.step)]
      [] e.type = "pii_scan" -> [view EXCEPT !.steps = <<"pii_scan">> \o @]
      [] OTHER -> view

ViewOf(events) ==
    LET view[n \in 0..Len(events)] ==
            IF n = 0 THEN EmptyResult ELSE Apply(view[n - 1], events[n])
    IN  view[Len(events)]
View == ViewOf(buffer)

-----------------------------------------------------------------------------
Steps == TimedSteps \cup {"starting", "leaving", "ended"}

TypeOK ==
    /\ task \in Steps
    /\ structure \in Structures \cup {NoStructure}
    /\ status \in {"processing", "completed", "error"}
    /\ decision \in {"none", "approved", "denied"}
    /\ stored \in BOOLEAN
    /\ idle \in 0..(SessionTTL + 1)
    /\ ran \in 0..PipelineTimeout /\ waited \in 0..DecisionTimeout
    /\ failures \in 0..MaxFailures

(* The buffer is a source of events as the readers need it: appended to,    *)
(* and closed once, with a "done" event unless the task was cancelled.      *)
Source == INSTANCE EventSource WITH
    events <- [i \in DOMAIN buffer |-> IF IsDone(i) THEN "done" ELSE "event"],
    closed <- Final
ImplementsEventSource == Source!SourceSpec

(* A browser that has handled a "done" event shows the versions, the pages  *)
(* and the steps of the session's result, whichever steps failed, were      *)
(* skipped or were cut off by the timeout.                                  *)
Shown == \E i \in DOMAIN buffer : buffer[i].type = "init"
ViewMatches == IsDone(Len(buffer)) /\ Shown => View = result

(* After a scan with findings nothing is extracted unless the session's     *)
(* decision, the first one anybody submitted, is an approval.               *)
Flagged == \E i \in DOMAIN buffer : buffer[i].type = "pii_scan" /\ buffer[i].awaiting
Extracting == task \in ChainSteps \cup {"docling", "docling_ocr", "upload"} \/ Has(result, "v0")
GateHolds == Flagged /\ Extracting => decision = "approved"

(* No failure of a step loses an edit: the pages and the document of a      *)
(* version agree, and the newest version carries every step that rewrote    *)
(* the text.                                                                *)
NoEditIsLost ==
    /\ \A v \in {"v0", "v1"} : result.pages[v] = result.versions[v]
    /\ \A step \in (Rewrites \cup structure) \cap StepsOf(result) :
            In(step, FinalMarkdown(result))

(* The sweep of expired sessions never cancels a pipeline that still runs.  *)
EvictionSparesRunning == [][stored /\ ~stored' => task = "ended"]_vars

(* Every session is closed, whatever the user does or fails to do.          *)
EverySessionCloses == <>Final
=============================================================================
