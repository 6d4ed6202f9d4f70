------------------------------ MODULE JobStream ------------------------------
(***************************************************************************)
(* The events of one job on their way to a browser: the processing tasks   *)
(* of the job, each with an event bus of its own; the registry that finds  *)
(* the bus of a job; and the generator of a stream that a single-use token *)
(* opens, which replays the stored events and then follows the bus. What   *)
(* runs between two awaits, or two yields, is one action.                  *)
(***************************************************************************)
EXTENDS Integers, Sequences, FiniteSets

CONSTANTS
    Runs,         \* the processing tasks the job may get
    Features,     \* enable_structure, enable_page_content, enable_boundaries
    MaxWait,      \* polls for a bus before the stream gives up
    MaxTokens,    \* bound on the tokens the client asks for
    MaxFaults,    \* bound on failed calls, crashes and status writes by others
    NoRun

ASSUME StreamAssumption ==
    /\ NoRun \notin Runs /\ IsFiniteSet(Runs)
    /\ Features \subseteq {"structure", "page_content", "boundaries"}
    /\ MaxWait \in Nat /\ MaxTokens \in Nat /\ MaxFaults \in Nat

VARIABLES
    status,     \* of the job, in Redis
    run,        \* where each task is, with its progress counters
    bus,        \* the events its EventBus stores
    registry,   \* the task whose bus _event_registry holds for the job
    gauge,      \* eq-pdf:metrics:jobs_in_processing
    token,      \* the newest token of the client: "none", "live" or "spent"
    asked,      \* tokens asked for
    client,     \* the stream of the client
    seen,       \* what that stream delivered: positions in the bus
    \* history
    leaked,     \* increments that no decrement will follow, less the reverse
    overlapped, \* tasks that shared the registry entry with another one
    faults

vars == <<status, run, bus, registry, gauge, token, asked, client, seen, leaked, overlapped,
          faults>>
tasks == <<run, bus, registry, gauge, leaked, overlapped>>
stream == <<token, asked, client, seen>>

Terminal == {"completed", "failed"}

Fault == faults < MaxFaults /\ faults' = faults + 1

(***************************************************************************)
(* A processing task and its progress callback.                            *)
(***************************************************************************)
Idle == [at |-> "idle", step |-> 0, total |-> 0]

Chain ==
    <<"docling">>
    \o (IF "structure" \in Features
        THEN <<"structure", "heading_reconciliation", "heading_levels">> ELSE <<>>)
    \o (IF {"structure", "page_content"} \subseteq Features
        THEN <<"page_content", "code_blocks">> ELSE <<>>)
    \o (IF {"structure", "boundaries"} \subseteq Features
        THEN <<"boundaries", "cleanup">> ELSE <<>>)
Phases == {Chain[i] : i \in DOMAIN Chain} \cup {"docling_ocr"}

\* the tasks that have a bus and have not let go of the registry
Present == {r \in Runs : run[r].at \notin {"idle", "count", "ended"}}
Counted(r) == run[r].at \notin {"idle", "count", "lingering", "ended"}

Goes(r, step) == run' = [run EXCEPT ![r].at = step]

\* a status write that raises may have been carried out
Writes(new) == status' \in {status, new}

MarkProcessing(r) ==
    /\ run[r].at = "idle"
    /\ \/ status' = "processing" /\ Goes(r, "count") /\ UNCHANGED faults
       \/ Fault /\ Goes(r, "ended") /\ Writes("processing")
    /\ UNCHANGED <<bus, registry, gauge, leaked, overlapped>>

\* an INCR or DECR that fails is logged; it may have been carried out
Count(d) ==
    \/ gauge' = gauge + d /\ UNCHANGED <<leaked, faults>>
    \/ /\ Fault
       /\ \/ gauge' = gauge + d /\ UNCHANGED leaked
          \/ UNCHANGED gauge /\ leaked' = leaked - d

MutantRegister(r) ==                      \* registered by the first event
    /\ run[r].at = "count"
    /\ Count(1)
    /\ Goes(r, "prepare")
    /\ overlapped' = IF Present = {} THEN overlapped ELSE overlapped \cup Present \cup {r}
    /\ UNCHANGED <<status, bus, registry>>

Register(r) ==
    /\ run[r].at = "count"
    /\ Count(1)
    /\ Goes(r, "prepare")
    /\ registry' = r
    /\ overlapped' = IF Present = {} THEN overlapped ELSE overlapped \cup Present \cup {r}
    /\ UNCHANGED <<status, bus>>

MutantEmit(r, phase, more) ==             \* the OCR phase is not added to the total
    LET p == [at |-> phase, step |-> run[r].step + 1,
               total |-> run[r].total + (IF phase = "docling_ocr" THEN 0 ELSE more)]
    IN  /\ run' = [run EXCEPT ![r] = p]
        /\ bus' = [bus EXCEPT ![r] = Append(@, [type |-> phase, step |-> p.step, total |-> p.total])]

\* the callback runs before the phase, with a total that may just have grown
Emit(r, phase, more) ==
    LET p == [at |-> phase, step |-> run[r].step + 1, total |-> run[r].total + more]
    IN  /\ run' = [run EXCEPT ![r] = p]
        /\ bus' = [bus EXCEPT ![r] = Append(@, [type |-> phase, step |-> p.step, total |-> p.total])]

Raises(r) == Fault /\ Goes(r, "failing") /\ UNCHANGED bus

\* a rejected document fails without an event
MutantRejects(r) == status' = "failed" /\ Goes(r, "lingering") /\ UNCHANGED bus  \* not counted down
Rejects(r) == status' = "failed" /\ Goes(r, "leaving") /\ UNCHANGED bus

\* the download, the second status write and the classification
Prepare(r) ==
    /\ run[r].at = "prepare"
    /\ \/ Raises(r) /\ Writes("failed")
       \/ Emit(r, "docling", Len(Chain)) /\ UNCHANGED <<status, faults>>
       \/ Rejects(r) /\ UNCHANGED faults
    /\ UNCHANGED <<registry, gauge, leaked, overlapped>>

\* after phase p: another one, or the results are stored
Follow(r, p) ==
    LET i == IF p = "docling_ocr" THEN 1 ELSE CHOOSE k \in DOMAIN Chain : Chain[k] = p
    IN  IF i = Len(Chain) THEN Goes(r, "finish") /\ UNCHANGED bus
        ELSE Emit(r, Chain[i + 1], 0)

\* nothing was extracted: the other phases are skipped
EmptyContent(r, p) ==
    /\ p \in {"docling", "docling_ocr"}
    /\ Goes(r, "finish") /\ UNCHANGED bus

PhaseEnds(r) ==
    LET p == run[r].at IN
    /\ p \in Phases
    /\ \/ UNCHANGED faults /\ (Follow(r, p) \/ EmptyContent(r, p))
       \/ p = "docling" /\ Emit(r, "docling_ocr", 1) /\ UNCHANGED faults
       \/ p = "docling_ocr" /\ Fault /\ (Follow(r, p) \/ EmptyContent(r, p))
       \/ p # "docling_ocr" /\ Raises(r)
    /\ UNCHANGED <<status, registry, gauge, leaked, overlapped>>

Publishes(r, type) == bus' = [bus EXCEPT ![r] = Append(@, [type |-> type])]

\* the markdown, the ledger, the figures and the last status write
Finish(r) ==
    /\ run[r].at = "finish"
    /\ \/ status' = "completed" /\ Goes(r, "complete") /\ UNCHANGED <<bus, faults>>
       \/ Raises(r) /\ Writes("completed")
    /\ UNCHANGED <<registry, gauge, leaked, overlapped>>

\* no error event when the status cannot be written
Fail(r) ==
    /\ run[r].at = "failing"
    /\ \/ status' = "failed" /\ Goes(r, "error") /\ UNCHANGED faults
       \/ Fault /\ Goes(r, "leaving") /\ Writes("failed")
    /\ UNCHANGED <<bus, registry, gauge, leaked, overlapped>>

\* the event comes after the expiry of the hash is set, which may fail
Announce(r) ==
    /\ run[r].at \in {"complete", "error"}
    /\ \/ Publishes(r, run[r].at) /\ Goes(r, "leaving") /\ UNCHANGED faults
       \/ run[r].at = "complete" /\ Raises(r)
       \/ run[r].at = "error" /\ Fault /\ Goes(r, "leaving") /\ UNCHANGED bus
    /\ UNCHANGED <<status, registry, gauge, leaked, overlapped>>

Uncount(r) ==
    /\ run[r].at = "leaving"
    /\ Count(-1)
    /\ Goes(r, "lingering")
    /\ UNCHANGED <<status, bus, registry, overlapped>>

\* half a second later the entry of the job goes, whoever owns it
Unregister(r) ==
    /\ run[r].at = "lingering"
    /\ Goes(r, "ended")
    /\ registry' = NoRun
    /\ UNCHANGED <<status, bus, gauge, leaked, overlapped, faults>>

RunStep(r) ==
    \/ MarkProcessing(r) \/ Register(r) \/ Prepare(r) \/ PhaseEnds(r)
    \/ Finish(r) \/ Fail(r) \/ Announce(r) \/ Uncount(r) \/ Unregister(r)
RunNext(r) == RunStep(r) /\ UNCHANGED stream

\* a sweep fails the job, or a late decision denies it, while a task runs or after it
WrittenByOthers ==
    /\ Fault
    /\ status' \in {"failed", "denied"}
    /\ UNCHANGED <<tasks, stream>>

(***************************************************************************)
(* The stream: its token, the handler, and the generator.                  *)
(***************************************************************************)
NoStream(at) == [at |-> at, settled |-> FALSE, of |-> NoRun, since |-> 0, replayed |-> 0,
                 taken |-> 0, polls |-> 0]
ClientGoes(at) == client' = [client EXCEPT !.at = at]
Closed == {"idle", "refused", "done", "unavailable", "broken"}

AskToken ==
    /\ client.at \in Closed /\ asked < MaxTokens
    /\ asked' = asked + 1 /\ token' = "live"
    /\ client' = NoStream("idle") /\ seen' = <<>>
    /\ UNCHANGED <<status, tasks, faults>>

TokenExpires ==
    /\ token = "live" /\ token' = "spent"
    /\ UNCHANGED <<status, tasks, asked, client, seen, faults>>

\* GETDEL; a browser that lost its stream comes back with the spent token
Connect ==
    /\ client.at \in {"idle", "broken"} /\ token # "none"
    /\ token' = "spent"
    /\ client' = NoStream(IF token = "live" THEN "handler" ELSE "refused")
    /\ seen' = <<>>
    /\ UNCHANGED <<status, tasks, asked, faults>>

\* the handler reads the job; the generator starts later, with what was read
ReadJob ==
    /\ client.at = "handler"
    /\ client' = [client EXCEPT !.at = "start", !.settled = status \in Terminal]
    /\ UNCHANGED <<status, tasks, token, asked, seen, faults>>

Subscribed ==
    [client EXCEPT !.at = "replay", !.of = registry, !.since = Len(bus[registry])]

GivesUp == client.polls = MaxWait

\* the events after the subscription also go to the queue of the subscriber
StartOrPoll ==
    /\ \/ /\ client.at = "start" /\ client.settled
          /\ IF registry = NoRun THEN ClientGoes("done")
             ELSE client' = [client EXCEPT !.at = "final", !.of = registry]
       \/ /\ client.at = "start" /\ ~client.settled /\ registry = NoRun
          /\ ClientGoes("poll")
       \/ /\ client.at \in {"start", "poll"} /\ ~client.settled
          /\ registry # NoRun
          /\ client' = Subscribed
       \/ /\ client.at = "poll" /\ registry = NoRun
          /\ client' = IF GivesUp THEN NoStream("unavailable")
                       ELSE [client EXCEPT !.polls = @ + 1]
    /\ UNCHANGED <<status, tasks, token, asked, seen, faults>>

Events == bus[client.of]

\* the loop walks the stored list itself, so it also meets what is appended meanwhile
Replay ==
    /\ client.at \in {"replay", "final"}
    /\ IF client.replayed < Len(Events)
       THEN /\ seen' = Append(seen, client.replayed + 1)
            /\ client' = [client EXCEPT !.replayed = @ + 1]
       ELSE /\ ClientGoes(IF client.at = "final" THEN "done" ELSE "live")
            /\ UNCHANGED seen
    /\ UNCHANGED <<status, tasks, token, asked, faults>>

MutantNextQueued == client.taken + 1      \* a new queue holds the stored events
NextQueued == client.since + client.taken + 1

Follows ==
    /\ client.at = "live" /\ NextQueued <= Len(Events)
    /\ seen' = Append(seen, NextQueued)
    /\ client' = [client EXCEPT !.taken = @ + 1,
                                !.at = IF Events[NextQueued].type \in {"complete", "error"}
                                       THEN "done" ELSE "live"]
    /\ UNCHANGED <<status, tasks, token, asked, faults>>

MutantFinished == status = "completed"    \* a failed job is not looked for
Finished == status \in Terminal

\* the queue was empty for 30 seconds: a keepalive, and a look at the job
KeepAlive ==
    /\ client.at = "live" /\ NextQueued > Len(Events)
    /\ Finished /\ ClientGoes("done")
    /\ UNCHANGED <<status, tasks, token, asked, seen, faults>>

Breaks ==
    /\ Fault
    /\ client.at \notin Closed /\ client' = NoStream("broken") /\ seen' = <<>>
    /\ UNCHANGED <<status, tasks, token, asked>>

StreamNext == ReadJob \/ StartOrPoll \/ Replay \/ Follows \/ KeepAlive
ClientNext == AskToken \/ TokenExpires \/ Connect \/ Breaks \/ StreamNext

\* the process dies with its tasks, its registry and its streams
Crash ==
    /\ Fault
    /\ run' = [r \in Runs |-> IF run[r].at = "idle" THEN Idle ELSE [run[r] EXCEPT !.at = "ended"]]
    /\ registry' = NoRun
    /\ leaked' = leaked + Cardinality({r \in Runs : Counted(r)})
    /\ IF client.at \in Closed THEN UNCHANGED <<client, seen>>
       ELSE client' = NoStream("broken") /\ seen' = <<>>
    /\ UNCHANGED <<status, bus, gauge, token, asked, overlapped>>

-----------------------------------------------------------------------------
Init ==
    /\ status = "processing_queued"
    /\ run = [r \in Runs |-> Idle] /\ bus = [r \in Runs |-> <<>>] /\ registry = NoRun
    /\ gauge = 0 /\ leaked = 0 /\ overlapped = {} /\ faults = 0
    /\ token = "none" /\ asked = 0 /\ client = NoStream("idle") /\ seen = <<>>

Next == (\E r \in Runs : RunNext(r)) \/ ClientNext \/ WrittenByOthers \/ Crash

Spec == Init /\ [][Next]_vars

\* the tasks and the generator run; nobody has to connect, and nothing has to fail
FairSpec == Spec /\ (\A r \in Runs : WF_vars(RunNext(r))) /\ WF_vars(StreamNext)

-----------------------------------------------------------------------------
RunSteps == Phases \cup {"idle", "count", "prepare", "finish", "failing",
                         "complete", "error", "leaving", "lingering", "ended"}
StreamSteps == Closed \cup {"handler", "start", "poll", "replay", "final", "live"}

RunStates == [at : RunSteps, step : Nat, total : Nat]
EventStates == [type : Phases, step : Nat, total : Nat] \cup [type : {"complete", "error"}]
StreamStates ==
    [at : StreamSteps, settled : BOOLEAN, of : Runs \cup {NoRun}, since : Nat,
     replayed : Nat, taken : Nat, polls : 0..MaxWait]

TypeOK ==
    /\ status \in {"processing_queued", "processing", "denied"} \cup Terminal
    /\ run \in [Runs -> RunStates] /\ bus \in [Runs -> Seq(EventStates)]
    /\ registry \in Runs \cup {NoRun} /\ overlapped \subseteq Runs
    /\ gauge \in Int /\ leaked \in Int
    /\ token \in {"none", "live", "spent"} /\ asked \in 0..MaxTokens
    /\ client \in StreamStates /\ seen \in Seq(Nat)
    /\ faults \in 0..MaxFaults

(* A stream shows every event of its bus up to where it is, in order; it   *)
(* repeats, once, only events published while it was replaying.            *)
InOrder == \A i \in DOMAIN seen :
    /\ i = 1 => seen[i] = 1
    /\ i > 1 => seen[i] = seen[i - 1] + 1 \/ (i = client.replayed + 1 /\ seen[i] = client.since + 1)
RepeatsAreLive == \A i, j \in DOMAIN seen : i < j /\ seen[i] = seen[j] => seen[i] > client.since
SeesTheEnd ==
    client.at = "done" /\ seen # <<>> /\ Events[seen[Len(seen)]].type = "complete"
        => {seen[i] : i \in DOMAIN seen} = DOMAIN Events
StreamShowsBus == InOrder /\ RepeatsAreLive /\ SeesTheEnd

LastPhases == {Chain[Len(Chain)]} \cup (IF Len(Chain) = 1 THEN {"docling_ocr"} ELSE {})

(* Progress never runs past its total, although the total grows when OCR   *)
(* turns out to be needed, and a job that went through the whole chain     *)
(* ends at step n of n.                                                    *)
ProgressAddsUp == \A r \in Runs : \A i \in DOMAIN bus[r] :
    LET e == bus[r][i] IN
    e.type \in Phases =>
        /\ e.step = i /\ e.step <= e.total
        /\ i < Len(bus[r]) /\ bus[r][i + 1].type = "complete" /\ e.type \in LastPhases
              => e.step = e.total

(* While a task is at work its stream can be found, unless two tasks of    *)
(* the job overlap: then the one that ends first takes the entry along.    *)
RunIsFound == \A r \in Present \ overlapped : registry = r

(* The gauge of jobs in processing is the number of tasks at work, plus    *)
(* what crashes and failed calls left behind.                              *)
GaugeAccounts == gauge = Cardinality({r \in Runs : Counted(r)}) + leaked

(* A stream whose job stays completed or failed ends by itself: no event   *)
(* and no subscriber is needed for that.                                   *)
StreamEnds ==
    <>[](status \in Terminal) => (client.at \notin Closed ~> client.at \in Closed)
=============================================================================
