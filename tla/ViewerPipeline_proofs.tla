------------------------ MODULE ViewerPipeline_proofs ------------------------
(***************************************************************************)
(* Theorems about one viewer session, for any timeouts, any number of      *)
(* failed steps and any eviction: its types, the decision gate, that its   *)
(* buffer is the source of events that SessionStream reads, that eviction  *)
(* spares what runs, that no edit is lost, and what a browser shows.       *)
(***************************************************************************)
EXTENDS ViewerPipeline, SequenceTheorems, WellFoundedInduction, TLAPS

Before == {"starting", "pii_scan", "decision"}
Extraction == {"docling", "docling_ocr", "upload", "structure", "heading_reconciliation",
               "heading_levels", "page_content", "code_blocks", "boundaries", "cleanup"}

(* The steps behind the gate, one by one.                                  *)
LEMMA ExtractionSteps ==
    /\ ChainSteps \cup {"docling", "docling_ocr", "upload"} = Extraction
    /\ \A i \in DOMAIN Chain : Chain[i] \in Extraction
    /\ \A i \in DOMAIN Chain : i # Len(Chain) => i + 1 \in DOMAIN Chain
<1>1. DOMAIN Chain = 1..7 /\ Len(Chain) = 7
    BY DEF Chain
<1>2. /\ Chain[1] = "structure" /\ Chain[2] = "heading_reconciliation"
      /\ Chain[3] = "heading_levels" /\ Chain[4] = "page_content" /\ Chain[5] = "code_blocks"
      /\ Chain[6] = "boundaries" /\ Chain[7] = "cleanup"
    BY DEF Chain
<1>3. ChainSteps = {Chain[1], Chain[2], Chain[3], Chain[4], Chain[5], Chain[6], Chain[7]}
    BY <1>1 DEF ChainSteps
<1> QED BY <1>1, <1>2, <1>3 DEF Extraction

-----------------------------------------------------------------------------
(* Type correctness. A timer that is due holds time back (TimerDue), so no *)
(* clock runs past the limit it is compared with.                          *)
LEMMA NextSteps ==
    /\ Extraction \subseteq TimedSteps /\ TimedSteps \subseteq Steps
    /\ {"starting", "leaving", "ended", "pii_scan", "decision"} \subseteq Steps
    /\ Extraction \subseteq Steps
    /\ \A i \in DOMAIN Chain : \A r, s : After(i, r, s) \in Steps
BY ExtractionSteps DEF TimedSteps, Steps, After, Extraction

(* The steps of the task move no clock, so each keeps the types at once.   *)
LEMMA TaskTyped ==
    ASSUME TypeOK, TaskNext
    PROVE  TypeOK'
<1> USE NextSteps
<1>1. failures' \in 0..MaxFailures
    <2>1. Smooth \/ Raise \/ UNCHANGED failures
        BY DEF TaskNext, Begin, ScanEnds, DecisionHeard, DecisionTimesOut, DoclingEnds,
               DoclingOcrEnds, ChainStepEnds, UploadEnds, PipelineTimesOut, Leave
    <2> QED BY <2>1, SessionAssumption DEF Raise, Smooth, TypeOK
<1>2. UNCHANGED <<decision, stored, idle, ran, waited>>
    BY DEF TaskNext, Begin, ScanEnds, DecisionHeard, DecisionTimesOut, DoclingEnds,
           DoclingOcrEnds, ChainStepEnds, UploadEnds, PipelineTimesOut, Leave, clocks
<1> DEFINE Reached == /\ task \in Steps /\ structure \in Structures \cup {NoStructure}
                      /\ status \in {"processing", "completed", "error"}
<1>3. Reached'
    <2>1. CASE Begin
        BY <2>1 DEF Begin, EndsWith, Proceed, TypeOK, Extraction
    <2>2. ASSUME NEW findings \in BOOLEAN, ScanEnds(findings)
          PROVE  Reached'
        BY <2>2 DEF ScanEnds, Proceed, TypeOK, Extraction
    <2>3. CASE DecisionHeard \/ DecisionTimesOut
        BY <2>3 DEF DecisionHeard, DecisionTimesOut, EndsWith, Proceed, TypeOK, Extraction
    <2>4. CASE DoclingEnds \/ DoclingOcrEnds
        BY <2>4
        DEF DoclingEnds, DoclingOcrEnds, ShowExtraction, EndsWith, Proceed, TypeOK, Extraction
    <2>5. ASSUME NEW i \in DOMAIN Chain, ChainStepEnds(i)
          PROVE  Reached'
        BY <2>5 DEF ChainStepEnds, Proceed, TypeOK
    <2>6. CASE UploadEnds \/ PipelineTimesOut \/ Leave
        BY <2>6 DEF UploadEnds, PipelineTimesOut, Leave, EndsWith, TypeOK
    <2> QED BY <2>1, <2>2, <2>3, <2>4, <2>5, <2>6 DEF TaskNext
<1> QED BY <1>1, <1>2, <1>3 DEF TypeOK

(* The types hold in every reachable state of a session.                   *)
THEOREM ViewerTyped == Spec => []TypeOK
<1>1. Init => TypeOK
    BY SessionAssumption DEF Init, TypeOK, Steps, Structures, NoStructure
<1>2. TypeOK /\ [Next]_vars => TypeOK'
    <2> SUFFICES ASSUME TypeOK, [Next]_vars
                 PROVE  TypeOK'
        OBVIOUS
    <2>1. CASE TaskNext
        BY <2>1, TaskTyped
    <2>2. CASE EvictExpired
        BY <2>2 DEF EvictExpired, CancelTask, TypeOK, Steps
    <2>3. CASE Lookup \/ \E verdict \in {"approved", "denied"} : Decide(verdict)
        BY <2>3, SessionAssumption DEF Lookup, Decide, Touch, TypeOK
    <2>4. CASE Tick
        <3>1. idle' \in 0..(SessionTTL + 1)
            BY <2>4, SessionAssumption DEF Tick, Expired, TypeOK
        <3>2. ran' \in 0..PipelineTimeout /\ waited' \in 0..DecisionTimeout
            BY <2>4, SessionAssumption DEF Tick, TimerDue, TypeOK
        <3> QED BY <2>4, <3>1, <3>2 DEF Tick, TypeOK
    <2>5. CASE UNCHANGED vars
        BY <2>5 DEF vars, clocks, TypeOK
    <2> QED BY <2>1, <2>2, <2>3, <2>4, <2>5 DEF Next
<1> QED BY <1>1, <1>2, PTL DEF Spec

-----------------------------------------------------------------------------
(* Nothing has been extracted before the gate: the result still is the     *)
(* empty one but for the list of the steps. After the gate the decision    *)
(* stays what it was, so only this part makes the gate inductive: a step   *)
(* that ends the task at the gate must leave nothing extracted behind.     *)
ScanSteps == {"classification", "pii_scan"}
ResultFresh ==
    result \in [versions : {EmptyResult.versions}, pages : {EmptyResult.pages},
                steps : Seq(ScanSteps)]
BufferOK == \E S : buffer \in Seq(S)

GateInv ==
    /\ BufferOK
    /\ task \in Before => ResultFresh
    /\ task \in {"starting", "pii_scan"} => ~Flagged
    /\ GateHolds

(* A fresh result has no extracted version.                                *)
LEMMA FreshHasNothing == ResultFresh => ~Has(result, "v0")
BY DEF ResultFresh, Has, EmptyResult, VersionNames

(* Recording a step leaves the result fresh.                               *)
LEMMA FreshRecord ==
    ASSUME ResultFresh, NEW step \in ScanSteps,
           result' = Record(result, step)
    PROVE  ResultFresh'
<1>1. result.steps \in Seq(ScanSteps)
    BY DEF ResultFresh
<1>2. Append(result.steps, step) \in Seq(ScanSteps)
    BY <1>1, AppendProperties
<1>3. result' = [result EXCEPT !.steps = Append(@, step)]
    BY DEF Record
<1> QED BY <1>2, <1>3 DEF ResultFresh, EmptyResult

(* Appending flags the session only with a flagging event.                 *)
Flags(e) == e.type = "pii_scan" /\ e.awaiting

(* An appended buffer is a sequence, flagged before or by what is appended. *)
LEMMA Appended ==
    ASSUME BufferOK, NEW T, NEW added \in Seq(T), buffer' = buffer \o added
    PROVE  /\ BufferOK'
           /\ Flagged' => Flagged \/ \E i \in 1..Len(added) : Flags(added[i])
<1>1. PICK S : buffer \in Seq(S)
    BY DEF BufferOK
<1>2. buffer \in Seq(S \cup T) /\ added \in Seq(S \cup T)
    <2>1. /\ \A i \in 1..Len(buffer) : buffer[i] \in S \cup T
          /\ \A i \in 1..Len(added) : added[i] \in S \cup T
        BY <1>1, ElementOfSeq
    <2> QED BY <1>1, <2>1, SeqMonotonic
<1>3. Len(buffer) \in Nat /\ Len(added) \in Nat
    BY <1>2, LenProperties
<1>4. /\ buffer' \in Seq(S \cup T) /\ Len(buffer') = Len(buffer) + Len(added)
      /\ \A i \in 1..(Len(buffer) + Len(added)) :
            buffer'[i] = IF i <= Len(buffer) THEN buffer[i] ELSE added[i - Len(buffer)]
    BY <1>2, ConcatProperties
<1>5. DOMAIN buffer = 1..Len(buffer) /\ DOMAIN buffer' = 1..(Len(buffer) + Len(added))
    BY <1>2, <1>4, LenProperties
<1>6. ASSUME NEW i \in DOMAIN buffer', Flags(buffer'[i]), ~Flagged
      PROVE  \E j \in 1..Len(added) : Flags(added[j])
    <2>1. ~(i <= Len(buffer))
        BY <1>3, <1>4, <1>5, <1>6 DEF Flagged, Flags
    <2>2. i - Len(buffer) \in 1..Len(added) /\ buffer'[i] = added[i - Len(buffer)]
        BY <1>3, <1>4, <1>5, <2>1
    <2> QED BY <1>6, <2>2
<1>7. Flagged' => \E i \in DOMAIN buffer' : Flags(buffer'[i])
    BY DEF Flagged, Flags
<1> QED BY <1>4, <1>6, <1>7 DEF BufferOK

(* What Proceed and EndsWith append is any sequence of events.             *)
LEMMA Proceeded ==
    ASSUME BufferOK, NEW T, NEW events \in Seq(T), NEW next, Proceed(next, events),
           \A i \in 1..Len(events) : ~Flags(events[i])
    PROVE  BufferOK' /\ task' = next /\ (Flagged' => Flagged)
BY Appended DEF Proceed

(* The same for the events that end the task, with "done" as the last one. *)
LEMMA Ended ==
    ASSUME BufferOK, NEW T, NEW events \in Seq(T), NEW outcome, EndsWith(outcome, events),
           \A i \in 1..Len(events) : ~Flags(events[i])
    PROVE  BufferOK' /\ task' = "leaving" /\ (Flagged' => Flagged)
<1> DEFINE added == Append(events, Done)
           U == T \cup {Done}
<1>1. events \in Seq(U)
    <2>1. \A i \in 1..Len(events) : events[i] \in U
        BY ElementOfSeq
    <2> QED BY <2>1, SeqMonotonic
<1>2. Len(events) \in Nat
    BY LenProperties
<1>3. /\ added \in Seq(U) /\ Len(added) = Len(events) + 1 /\ added[Len(events) + 1] = Done
      /\ \A i \in 1..Len(events) : added[i] = events[i]
    BY <1>1, AppendProperties
<1>4. ~Flags(Done)
    BY DEF Flags, Done, Event
<1>5. \A i \in 1..Len(added) : ~Flags(added[i])
    BY <1>2, <1>3, <1>4
<1>6. buffer' = buffer \o added /\ task' = "leaving"
    BY DEF EndsWith
<1> HIDE DEF added, U
<1> QED BY <1>3, <1>5, <1>6, Appended

(* Sequences of none, one and two events.                                  *)
LEMMA Few ==
    ASSUME NEW a, NEW b
    PROVE  /\ <<>> \in Seq({a, b}) /\ Len(<<>>) = 0
           /\ <<a>> \in Seq({a, b}) /\ Len(<<a>>) = 1 /\ <<a>>[1] = a
           /\ <<a, b>> \in Seq({a, b}) /\ Len(<<a, b>>) = 2
           /\ <<a, b>>[1] = a /\ <<a, b>>[2] = b
OBVIOUS

(* No event at all.                                                        *)
LEMMA ProceededBare ==
    ASSUME BufferOK, NEW next, Proceed(next, <<>>)
    PROVE  BufferOK' /\ task' = next /\ (Flagged' => Flagged)
<1>1. <<>> \in Seq({next}) /\ \A i \in 1..Len(<<>>) : ~Flags(<<>>[i])
    OBVIOUS
<1> QED BY <1>1, Proceeded

(* One event that does not flag.                                           *)
LEMMA ProceededWith ==
    ASSUME BufferOK, NEW next, NEW e, Proceed(next, <<e>>), ~Flags(e)
    PROVE  BufferOK' /\ task' = next /\ (Flagged' => Flagged)
<1> DEFINE es == <<e>>
<1>1. es \in Seq({e}) /\ Len(es) = 1 /\ es[1] = e
    OBVIOUS
<1>2. Proceed(next, es)
    OBVIOUS
<1> HIDE DEF es
<1>3. \A i \in 1..Len(es) : ~Flags(es[i])
    BY <1>1
<1> QED BY <1>1, <1>2, <1>3, Proceeded

(* The same at the end of the task.                                        *)
LEMMA EndedBare ==
    ASSUME BufferOK, NEW outcome, EndsWith(outcome, <<>>)
    PROVE  BufferOK' /\ task' = "leaving" /\ (Flagged' => Flagged)
<1>1. <<>> \in Seq({outcome}) /\ \A i \in 1..Len(<<>>) : ~Flags(<<>>[i])
    OBVIOUS
<1> QED BY <1>1, Ended

(* And with one event before "done".                                       *)
LEMMA EndedWith ==
    ASSUME BufferOK, NEW outcome, NEW e, EndsWith(outcome, <<e>>), ~Flags(e)
    PROVE  BufferOK' /\ task' = "leaving" /\ (Flagged' => Flagged)
<1> DEFINE es == <<e>>
<1>1. es \in Seq({e}) /\ Len(es) = 1 /\ es[1] = e
    OBVIOUS
<1>2. EndsWith(outcome, es)
    OBVIOUS
<1> HIDE DEF es
<1>3. \A i \in 1..Len(es) : ~Flags(es[i])
    BY <1>1
<1> QED BY <1>1, <1>2, <1>3, Ended

(* The events that do not flag.                                            *)
LEMMA Silent ==
    /\ ~Flags(Approved) /\ \A r : ~Flags(Denied(r))
    /\ \A s : ~Flags(Failed(s))
    /\ \A r : ~Flags(InitEvent(r))
    /\ \A s, r : ~Flags(StepEvent(s, r))
    /\ ~Flags([type |-> "pii_scan", awaiting |-> FALSE])
BY DEF Flags, Approved, Denied, Failed, InitEvent, StepEvent

-----------------------------------------------------------------------------
(* A step past the gate keeps it.                                          *)
LEMMA PastGate ==
    ASSUME GateInv, BufferOK', Flagged' => Flagged, decision' = decision, Extracting,
           task' \notin Before
    PROVE  GateInv'
<1>1. GateHolds'
    BY DEF GateInv, GateHolds
<1> QED BY <1>1 DEF GateInv, Before

(* A step that ends the task with nothing extracted keeps it.              *)
LEMMA NothingExtracted ==
    ASSUME BufferOK', ResultFresh', task' \in {"leaving", "ended", "decision"}
    PROVE  GateInv'
<1>1. ~Has(result, "v0")'
    BY FreshHasNothing DEF ResultFresh, EmptyResult, Has, VersionNames
<1>2. ~Extracting'
    BY <1>1, ExtractionSteps DEF Extracting, Extraction
<1> QED BY <1>2 DEF GateInv, GateHolds, Before

(* Before the gate nothing is flagged, and a step flags nothing.           *)
LEMMA NotFlagged ==
    ASSUME BufferOK', ~Flagged', task' \in Before => ResultFresh'
    PROVE  GateInv'
BY DEF GateInv, GateHolds

(* The steps of the task keep the gate: before it nothing is flagged or    *)
(* extracted, at it the decision is read, and past it nothing flags again. *)
LEMMA PipelineTaskStep ==
    ASSUME GateInv, TaskNext
    PROVE  GateInv'
<1> USE DEF GateInv
<1>1. CASE Begin
    <2>1. ResultFresh /\ ~Flagged /\ BufferOK
        BY <1>1 DEF Begin, Before
    <2>2. /\ result' = result \/ result' = Record(result, "classification")
          /\ \/ EndsWith("completed", <<InitEvent(result')>>)
             \/ EndsWith("error", <<Failed("pipeline")>>)
             \/ Proceed("docling", <<[type |-> "pii_scan", awaiting |-> FALSE]>>)
             \/ Proceed("pii_scan", <<>>)
        BY <1>1 DEF Begin
    <2>3. BufferOK' /\ (Flagged' => Flagged)
        <3>1. CASE EndsWith("completed", <<InitEvent(result')>>)
            BY <2>1, <3>1, EndedWith, Silent
        <3>2. CASE EndsWith("error", <<Failed("pipeline")>>)
            BY <2>1, <3>2, EndedWith, Silent
        <3>3. CASE Proceed("docling", <<[type |-> "pii_scan", awaiting |-> FALSE]>>)
            BY <2>1, <3>3, ProceededWith, Silent
        <3>4. CASE Proceed("pii_scan", <<>>)
            BY <2>1, <3>4, ProceededBare
        <3> QED BY <2>2, <3>1, <3>2, <3>3, <3>4
    <2>4. ResultFresh'
        <3>1. CASE result' = result
            BY <2>1, <3>1 DEF ResultFresh, EmptyResult
        <3>2. CASE result' = Record(result, "classification")
            BY <2>1, <3>2, FreshRecord DEF ScanSteps
        <3> QED BY <2>2, <3>1, <3>2
    <2> QED BY <2>1, <2>3, <2>4, NotFlagged
<1>2. ASSUME NEW findings \in BOOLEAN, ScanEnds(findings)
      PROVE  GateInv'
    <2> DEFINE e == [type |-> "pii_scan", awaiting |-> findings]
    <2>1. ResultFresh /\ ~Flagged /\ BufferOK
        BY <1>2 DEF ScanEnds, Before
    <2>2. result' = Record(result, "pii_scan")
        BY <1>2 DEF ScanEnds
    <2>3. ResultFresh'
        BY <2>1, <2>2, FreshRecord DEF ScanSteps
    <2>4. task' = (IF findings THEN "decision" ELSE "docling") /\ buffer' = buffer \o <<e>>
        BY <1>2 DEF ScanEnds, Proceed
    <2>5. BufferOK' /\ (Flagged' => Flagged \/ findings)
        <3> DEFINE es == <<e>>
        <3>1. es \in Seq({e}) /\ Len(es) = 1 /\ es[1] = e /\ buffer' = buffer \o es
            BY <2>4
        <3>2. Flags(e) => findings
            BY DEF Flags
        <3> HIDE DEF es, e
        <3> QED BY <2>1, <3>1, <3>2, Appended
    <2>6. CASE findings
        BY <2>3, <2>4, <2>5, <2>6, NothingExtracted
    <2>7. CASE ~findings
        BY <2>1, <2>3, <2>5, <2>7, NotFlagged
    <2> QED BY <2>6, <2>7
<1>3. CASE DecisionHeard
    <2>1. ResultFresh /\ BufferOK
        BY <1>3 DEF DecisionHeard, Before
    <2>2. result' = result /\ decision' = decision
        BY <1>3 DEF DecisionHeard
    <2>3. ResultFresh'
        BY <2>1, <2>2 DEF ResultFresh, EmptyResult
    <2>4. CASE decision = "approved"
        <3>1. Proceed("docling", <<Approved>>)
            BY <1>3, <2>4 DEF DecisionHeard
        <3>2. BufferOK' /\ task' = "docling"
            BY <2>1, <3>1, ProceededWith, Silent
        <3> QED BY <2>2, <2>4, <3>2 DEF GateHolds, Before
    <2>5. CASE decision # "approved"
        <3>1. EndsWith("completed", <<Denied("user")>>)
            BY <1>3, <2>5 DEF DecisionHeard
        <3>2. BufferOK' /\ task' = "leaving"
            BY <2>1, <3>1, EndedWith, Silent
        <3> QED BY <2>3, <3>2, NothingExtracted
    <2> QED BY <2>4, <2>5
<1>4. CASE DecisionTimesOut
    <2>1. ResultFresh /\ BufferOK /\ result' = result
        BY <1>4 DEF DecisionTimesOut, Before
    <2>2. ResultFresh'
        BY <2>1 DEF ResultFresh, EmptyResult
    <2>3. EndsWith("completed", <<Denied("timeout")>>)
        BY <1>4 DEF DecisionTimesOut
    <2>4. BufferOK' /\ task' = "leaving"
        BY <2>1, <2>3, EndedWith, Silent
    <2> QED BY <2>2, <2>4, NothingExtracted
<1>5. CASE DoclingEnds
    <2>1. Extracting /\ BufferOK /\ decision' = decision
        BY <1>5 DEF DoclingEnds, Extracting
    <2>2. \/ Proceed("structure", <<InitEvent(result')>>) \/ Proceed("docling_ocr", <<>>)
          \/ EndsWith("error", <<Failed("docling")>>)
        BY <1>5 DEF DoclingEnds, ShowExtraction
    <2>3. /\ BufferOK' /\ (Flagged' => Flagged)
          /\ task' \in {"structure", "docling_ocr", "leaving"}
        <3>1. CASE Proceed("structure", <<InitEvent(result')>>)
            BY <2>1, <3>1, ProceededWith, Silent
        <3>2. CASE Proceed("docling_ocr", <<>>)
            BY <2>1, <3>2, ProceededBare
        <3>3. CASE EndsWith("error", <<Failed("docling")>>)
            BY <2>1, <3>3, EndedWith, Silent
        <3> QED BY <2>2, <3>1, <3>2, <3>3
    <2> QED BY <2>1, <2>3, PastGate DEF Before
<1>6. CASE DoclingOcrEnds
    <2>1. Extracting /\ BufferOK /\ decision' = decision
        BY <1>6 DEF DoclingOcrEnds, Extracting
    <2>2. \/ Proceed("structure", <<InitEvent(result')>>)
          \/ Proceed("structure", <<Failed("docling_ocr"), InitEvent(result')>>)
        BY <1>6 DEF DoclingOcrEnds, ShowExtraction
    <2>3. BufferOK' /\ (Flagged' => Flagged) /\ task' = "structure"
        <3>1. CASE Proceed("structure", <<InitEvent(result')>>)
            BY <2>1, <3>1, ProceededWith, Silent
        <3>2. CASE Proceed("structure", <<Failed("docling_ocr"), InitEvent(result')>>)
            <4> DEFINE es == <<Failed("docling_ocr"), InitEvent(result')>>
            <4>1. es \in Seq({Failed("docling_ocr"), InitEvent(result')})
                BY Few
            <4>2. \A i \in 1..Len(es) : ~Flags(es[i])
                BY Few, Silent
            <4>3. Proceed("structure", es)
                BY <3>2
            <4> HIDE DEF es
            <4> QED BY <2>1, <4>1, <4>2, <4>3, Proceeded
        <3> QED BY <2>2, <3>1, <3>2
    <2> QED BY <2>1, <2>3, PastGate DEF Before
<1>7. ASSUME NEW i \in DOMAIN Chain, ChainStepEnds(i)
      PROVE  GateInv'
    <2>1. Extracting /\ BufferOK /\ decision' = decision
        BY <1>7, ExtractionSteps DEF ChainStepEnds, Extracting
    <2>2. \/ Proceed(After(i, result', structure'), <<StepEvent(Chain[i], result')>>)
          \/ Proceed(After(i, result, structure), <<Failed(Chain[i])>>)
        BY <1>7 DEF ChainStepEnds
    <2>3. \A r, s : After(i, r, s) \in Extraction
        BY ExtractionSteps DEF After, Extraction
    <2>4. BufferOK' /\ (Flagged' => Flagged) /\ task' \in Extraction
        <3>1. CASE Proceed(After(i, result', structure'), <<StepEvent(Chain[i], result')>>)
            BY <2>1, <2>3, <3>1, ProceededWith, Silent
        <3>2. CASE Proceed(After(i, result, structure), <<Failed(Chain[i])>>)
            BY <2>1, <2>3, <3>2, ProceededWith, Silent
        <3> QED BY <2>2, <3>1, <3>2
    <2> QED BY <2>1, <2>4, PastGate DEF Before, Extraction
<1>8. CASE UploadEnds
    <2>1. Extracting /\ BufferOK /\ decision' = decision /\ EndsWith("completed", <<>>)
        BY <1>8 DEF UploadEnds, Extracting
    <2>2. BufferOK' /\ (Flagged' => Flagged) /\ task' = "leaving"
        BY <2>1, EndedBare
    <2> QED BY <2>1, <2>2, PastGate DEF Before
<1>9. CASE PipelineTimesOut
    <2>1. /\ task \in TimedSteps /\ BufferOK /\ decision' = decision /\ result' = result
          /\ EndsWith("error", <<Failed("pipeline")>>)
        BY <1>9 DEF PipelineTimesOut
    <2>2. BufferOK' /\ (Flagged' => Flagged) /\ task' = "leaving"
        BY <2>1, EndedWith, Silent
    <2>3. CASE task \in Before
        <3>1. ResultFresh'
            BY <2>1, <2>3 DEF ResultFresh, EmptyResult
        <3> QED BY <2>2, <3>1, NothingExtracted
    <2>4. CASE task \notin Before
        <3>1. Extracting
            BY <2>1, <2>4 DEF TimedSteps, Before, Extracting
        <3> QED BY <2>1, <2>2, <3>1, PastGate DEF Before
    <2> QED BY <2>3, <2>4
<1>10. CASE Leave
    <2>1. /\ task = "leaving" /\ task' = "ended" /\ UNCHANGED <<result, buffer, decision>>
        BY <1>10 DEF Leave
    <2>2. BufferOK' /\ (Flagged' <=> Flagged)
        BY <2>1 DEF BufferOK, Flagged
    <2>3. Extracting' => Extracting
        BY <2>1, ExtractionSteps DEF Extracting, Extraction, Has
    <2> QED BY <2>1, <2>2, <2>3 DEF GateHolds, Before
<1> QED BY <1>1, <1>2, <1>3, <1>4, <1>5, <1>6, <1>7, <1>8, <1>9, <1>10 DEF TaskNext

(* Every step keeps the gate; a cancelled task extracts nothing more.      *)
LEMMA GateStep == GateInv /\ [Next]_vars => GateInv'
<1> SUFFICES ASSUME GateInv, [Next]_vars
             PROVE  GateInv'
    OBVIOUS
<1> USE DEF GateInv
<1>1. CASE TaskNext
    BY <1>1, PipelineTaskStep
<1>2. CASE EvictExpired
    <2>1. /\ task' \in {"leaving", "ended"} /\ UNCHANGED <<result, buffer, decision>>
          /\ task' = "leaving" => task \in TimedSteps
        BY <1>2 DEF EvictExpired, CancelTask
    <2>2. BufferOK' /\ (Flagged' <=> Flagged)
        BY <2>1 DEF BufferOK, Flagged
    <2>3. CASE task \in Before
        <3>1. ResultFresh'
            BY <2>1, <2>3 DEF ResultFresh, EmptyResult
        <3> QED BY <2>1, <2>2, <3>1, NothingExtracted
    <2>4. CASE task \notin Before
        <3>1. Extracting' => Extracting
            BY <2>1, ExtractionSteps DEF Extracting, Extraction, Has
        <3> QED BY <2>1, <2>2, <3>1 DEF GateHolds, Before
    <2> QED BY <2>3, <2>4
<1>3. ASSUME NEW verdict \in {"approved", "denied"}, Decide(verdict)
      PROVE  GateInv'
    <2>1. UNCHANGED <<task, result, buffer>> /\ decision = "none"
        BY <1>3 DEF Decide
    <2>2. BufferOK' /\ (Flagged' <=> Flagged) /\ (Extracting' <=> Extracting)
        BY <2>1 DEF BufferOK, Flagged, Extracting, Has
    <2>3. ~(Flagged /\ Extracting)
        BY <2>1 DEF GateHolds
    <2> QED BY <2>1, <2>2, <2>3 DEF GateHolds, ResultFresh, EmptyResult
<1>4. CASE Lookup \/ Tick \/ UNCHANGED vars
    <2>1. UNCHANGED <<task, result, buffer, decision>>
        BY <1>4 DEF Lookup, Tick, vars
    <2>2. BufferOK' /\ (Flagged' <=> Flagged) /\ (Extracting' <=> Extracting)
        BY <2>1 DEF BufferOK, Flagged, Extracting, Has
    <2> QED BY <2>1, <2>2 DEF GateHolds, ResultFresh, EmptyResult
<1> QED BY <1>1, <1>2, <1>3, <1>4 DEF Next

(* A session starts in front of the gate.                                  *)
LEMMA GateInitial == Init => GateInv
<1> SUFFICES ASSUME Init
             PROVE  GateInv
    OBVIOUS
<1>1. buffer = <<Event("session")>> /\ task = "starting" /\ result = EmptyResult
    BY DEF Init
<1>2. BufferOK /\ ~Flagged
    <2>1. <<Event("session")>> \in Seq({Event("session")})
        BY Few
    <2>2. ~Flags(Event("session"))
        BY DEF Flags, Event
    <2>3. DOMAIN buffer = {1} /\ buffer[1] = Event("session")
        BY <1>1
    <2> QED BY <1>1, <2>1, <2>2, <2>3 DEF BufferOK, Flagged, Flags
<1>3. ResultFresh
    <2>1. <<>> \in Seq(ScanSteps)
        BY EmptySeq
    <2> QED BY <1>1, <2>1 DEF ResultFresh, EmptyResult
<1> QED BY <1>1, <1>2, <1>3 DEF GateInv, GateHolds

(* The invariant holds in every reachable state of a session.              *)
LEMMA GateInvHolds == Spec => []GateInv
BY GateInitial, GateStep, PTL DEF Spec

(* After a scan with findings nothing is extracted, at any later time,     *)
(* unless the first decision that anybody submitted is an approval.        *)
THEOREM GateAlwaysHolds == Spec => []GateHolds
<1>1. GateInv => GateHolds
    BY DEF GateInv
<1> QED BY <1>1, GateInvHolds, PTL

-----------------------------------------------------------------------------
(* The session is a source of events. Until it is final its task has not   *)
(* left, so nothing follows the events that made it final.                 *)
Mapped == [i \in DOMAIN buffer |-> IF IsDone(i) THEN "done" ELSE "event"]
OpenInv == Final => task \in {"leaving", "ended"}

(* What the source shows of a sequence of events.                          *)
Shape(es) == [i \in 1..Len(es) |-> IF es[i].type = "done" THEN "done" ELSE "event"]
Plain(es) == \A i \in 1..Len(es) : es[i].type # "done"

Kinds == {"event", "done"}

(* A function on 1..n is a sequence of length n.                           *)
LEMMA AsSequence ==
    ASSUME NEW K, NEW n \in Nat, NEW f \in [1..n -> K]
    PROVE  f \in Seq(K) /\ Len(f) = n
OBVIOUS

(* The shape of a sequence is one of the same length.                      *)
LEMMA ShapeTyped ==
    ASSUME NEW S, NEW es \in Seq(S)
    PROVE  /\ Shape(es) \in Seq(Kinds) /\ Len(Shape(es)) = Len(es) /\ Len(es) \in Nat
           /\ \A i \in 1..Len(es) :
                 Shape(es)[i] = IF es[i].type = "done" THEN "done" ELSE "event"
<1>1. Len(es) \in Nat
    BY LenProperties
<1>2. Shape(es) \in [1..Len(es) -> Kinds]
    BY DEF Shape, Kinds
<1> QED BY <1>1, <1>2, AsSequence DEF Shape

(* Appended events are appended for the readers as well.                   *)
LEMMA ShapeAppends ==
    ASSUME NEW S, NEW es \in Seq(S), NEW added \in Seq(S)
    PROVE  Shape(es \o added) = Shape(es) \o Shape(added)
<1> DEFINE all == es \o added
           joined == Shape(es) \o Shape(added)
           n == Len(es) + Len(added)
<1>1. /\ all \in Seq(S) /\ Len(all) = n
      /\ \A i \in 1..n : all[i] = IF i <= Len(es) THEN es[i] ELSE added[i - Len(es)]
    BY ConcatProperties
<1>2. /\ joined \in Seq(Kinds) /\ Len(joined) = n
      /\ \A i \in 1..n :
            joined[i] = IF i <= Len(es) THEN Shape(es)[i] ELSE Shape(added)[i - Len(es)]
    <2> DEFINE a == Shape(es)
               b == Shape(added)
    <2>1. a \in Seq(Kinds) /\ Len(a) = Len(es) /\ b \in Seq(Kinds) /\ Len(b) = Len(added)
        BY ShapeTyped
    <2> HIDE DEF a, b
    <2>2. /\ a \o b \in Seq(Kinds) /\ Len(a \o b) = Len(a) + Len(b)
          /\ \A i \in 1..(Len(a) + Len(b)) :
                (a \o b)[i] = IF i <= Len(a) THEN a[i] ELSE b[i - Len(a)]
        BY <2>1, ConcatProperties
    <2>3. /\ a \o b \in Seq(Kinds) /\ Len(a \o b) = n
          /\ \A i \in 1..n : (a \o b)[i] = IF i <= Len(es) THEN a[i] ELSE b[i - Len(es)]
        BY <2>1, <2>2
    <2> QED BY <2>3 DEF a, b
<1>3. Len(es) \in Nat /\ Len(added) \in Nat
    BY LenProperties
<1> HIDE DEF all, joined
<1>4. /\ Shape(all) \in Seq(Kinds) /\ Len(Shape(all)) = n
      /\ \A i \in 1..n : Shape(all)[i] = IF all[i].type = "done" THEN "done" ELSE "event"
    BY <1>1, ShapeTyped
<1>5. ASSUME NEW i \in 1..n
      PROVE  Shape(all)[i] = joined[i]
    <2>1. CASE i <= Len(es)
        <3>1. i \in 1..Len(es)
            BY <1>3, <2>1
        <3>2. joined[i] = IF es[i].type = "done" THEN "done" ELSE "event"
            BY <1>2, <2>1, <3>1, ShapeTyped
        <3>3. all[i] = es[i]
            BY <1>1, <2>1
        <3> QED BY <1>4, <3>2, <3>3
    <2>2. CASE ~(i <= Len(es))
        <3>1. i - Len(es) \in 1..Len(added)
            BY <1>3, <2>2
        <3>2. joined[i] = IF added[i - Len(es)].type = "done" THEN "done" ELSE "event"
            BY <1>2, <2>2, <3>1, ShapeTyped
        <3>3. all[i] = added[i - Len(es)]
            BY <1>1, <2>2
        <3> QED BY <1>4, <3>2, <3>3
    <2> QED BY <2>1, <2>2
<1>6. Shape(all) = joined
    BY <1>2, <1>4, <1>5, SeqEqual
<1> QED BY <1>6 DEF all, joined

(* Events without a "done" are a burst.                                    *)
LEMMA ShapeOfPlain ==
    ASSUME NEW S, NEW es \in Seq(S), Plain(es)
    PROVE  Shape(es) = Source!Burst(Len(es))
BY DEF Shape, Plain, Source!Burst

(* With "done" as the last event they are what finishes a source.          *)
LEMMA ShapeOfEnd ==
    ASSUME NEW S, NEW es \in Seq(S), Plain(es), Done \in S
    PROVE  Shape(Append(es, Done)) = Append(Source!Burst(Len(es)), "done")
<1> DEFINE n == Len(es)
           ended == Append(es, Done)
           finish == Append(Shape(es), "done")
<1>1. /\ ended \in Seq(S) /\ Len(ended) = n + 1 /\ ended[n + 1] = Done
      /\ \A i \in 1..n : ended[i] = es[i]
    BY AppendProperties
<1>2. /\ finish \in Seq(Kinds) /\ Len(finish) = n + 1 /\ finish[n + 1] = "done"
      /\ \A i \in 1..n : finish[i] = Shape(es)[i]
    <2>1. Shape(es) \in Seq(Kinds) /\ Len(Shape(es)) = n /\ "done" \in Kinds
        BY ShapeTyped DEF Kinds
    <2> QED BY <2>1, AppendProperties
<1>3. n \in Nat
    BY LenProperties
<1> HIDE DEF ended, finish
<1>4. /\ Shape(ended) \in Seq(Kinds) /\ Len(Shape(ended)) = n + 1
      /\ \A i \in 1..(n + 1) :
            Shape(ended)[i] = IF ended[i].type = "done" THEN "done" ELSE "event"
    BY <1>1, ShapeTyped
<1>5. ASSUME NEW i \in 1..(n + 1)
      PROVE  Shape(ended)[i] = finish[i]
    <2>1. CASE i = n + 1
        BY <1>1, <1>2, <1>4, <2>1 DEF Done, Event
    <2>2. CASE i # n + 1
        <3>1. i \in 1..n
            BY <1>3, <2>2
        <3>2. finish[i] = Shape(es)[i] /\ ended[i] = es[i]
            BY <1>1, <1>2, <3>1
        <3>3. Shape(es)[i] = IF es[i].type = "done" THEN "done" ELSE "event"
            BY <3>1, ShapeTyped
        <3> QED BY <1>4, <3>2, <3>3
    <2> QED BY <2>1, <2>2
<1>6. Shape(ended) = finish
    BY <1>2, <1>4, <1>5, SeqEqual
<1> QED BY <1>6, ShapeOfPlain DEF ended, finish

-----------------------------------------------------------------------------
(* The mapping shows the shape of the buffer.                              *)
LEMMA MappedIsShape ==
    ASSUME BufferOK, BufferOK'
    PROVE  Mapped = Shape(buffer) /\ Mapped' = Shape(buffer')
<1>1. PICK S : buffer \in Seq(S)
    BY DEF BufferOK
<1>2. PICK T : buffer' \in Seq(T)
    BY DEF BufferOK
<1>3. DOMAIN buffer = 1..Len(buffer) /\ DOMAIN buffer' = 1..Len(buffer')
    BY <1>1, <1>2, LenProperties
<1> QED BY <1>3 DEF Mapped, Shape, IsDone

SourceMap == <<Mapped, Final>>

(* A step that appends nothing is a stutter, or aborts the source.         *)
LEMMA Silences ==
    ASSUME UNCHANGED buffer, Final => Final'
    PROVE  [Source!SourceNext]_SourceMap
<1>1. Mapped' = Mapped
    BY DEF Mapped, IsDone
<1>2. CASE Final <=> Final'
    BY <1>1, <1>2 DEF SourceMap
<1>3. CASE ~Final /\ Final'
    <2>1. Source!Abort
        BY <1>1, <1>3 DEF Source!Abort, Mapped
    <2> QED BY <2>1 DEF Source!SourceNext
<1> QED BY <1>2, <1>3

(* A step that appends up to two events, none of them "done", publishes.   *)
LEMMA Publishes ==
    ASSUME BufferOK, BufferOK', ~Final, ~Final', NEW T, NEW added \in Seq(T),
           Plain(added), Len(added) \in 0..2, buffer' = buffer \o added
    PROVE  [Source!SourceNext]_SourceMap
<1>1. PICK S : buffer \in Seq(S)
    BY DEF BufferOK
<1>2. buffer \in Seq(S \cup T) /\ added \in Seq(S \cup T)
    <2>1. /\ \A i \in 1..Len(buffer) : buffer[i] \in S \cup T
          /\ \A i \in 1..Len(added) : added[i] \in S \cup T
        BY <1>1, ElementOfSeq
    <2> QED BY <1>1, <2>1, SeqMonotonic
<1>3. Mapped' = Mapped \o Shape(added)
    BY <1>2, MappedIsShape, ShapeAppends
<1>4. Shape(added) = Source!Burst(Len(added))
    BY ShapeOfPlain
<1>5. CASE Len(added) = 0
    <2>1. added = <<>>
        BY <1>2, <1>5, EmptySeq
    <2>2. buffer' = buffer
        BY <1>2, <2>1, ConcatEmptySeq
    <2> QED BY <2>2, Silences
<1>6. CASE Len(added) # 0
    <2>1. Len(added) \in 1..MaxBurst
        <3>1. \A n \in 0..2 : n # 0 => n \in 1..MaxBurst
            BY SessionAssumption
        <3> QED BY <1>6, <3>1
    <2>2. Source!Publish
        <3>1. Final' = Final
            BY DEF Final
        <3>2. \E n \in 1..MaxBurst : Mapped' = Mapped \o Source!Burst(n)
            BY <1>3, <1>4, <2>1
        <3> QED BY <3>1, <3>2 DEF Source!Publish, Mapped
    <2> QED BY <2>2 DEF Source!SourceNext
<1> QED BY <1>5, <1>6

(* A step that appends them and then "done", and is final, finishes.       *)
LEMMA Finishes ==
    ASSUME BufferOK, BufferOK', ~Final, Final', NEW T, NEW events \in Seq(T),
           Plain(events), Len(events) \in 0..2, buffer' = buffer \o Append(events, Done)
    PROVE  [Source!SourceNext]_SourceMap
<1>1. PICK S : buffer \in Seq(S)
    BY DEF BufferOK
<1> DEFINE U == S \cup T \cup {Done}
           ended == Append(events, Done)
<1>2. buffer \in Seq(U) /\ events \in Seq(U) /\ Done \in U
    <2>1. /\ \A i \in 1..Len(buffer) : buffer[i] \in U
          /\ \A i \in 1..Len(events) : events[i] \in U
        BY <1>1, ElementOfSeq
    <2> QED BY <1>1, <2>1, SeqMonotonic
<1> HIDE DEF U
<1>3. ended \in Seq(U)
    BY <1>2, AppendProperties
<1> HIDE DEF ended
<1>4. Mapped' = Mapped \o Shape(ended)
    BY <1>2, <1>3, MappedIsShape, ShapeAppends DEF ended
<1>5. Shape(ended) = Append(Source!Burst(Len(events)), "done")
    BY <1>2, ShapeOfEnd DEF ended
<1>6. Len(events) \in 0..MaxBurst
    BY SessionAssumption
<1>7. Source!Finish
    BY <1>4, <1>5, <1>6 DEF Source!Finish, Mapped
<1> QED BY <1>7 DEF Source!SourceNext

-----------------------------------------------------------------------------
(* What Proceed and EndsWith do to the source, from a task that is at work *)
Working == task \notin {"leaving", "ended"}

(* The events of a step that goes on are published.                        *)
LEMMA ProceedPublishes ==
    ASSUME BufferOK, BufferOK', OpenInv, Working, status' = status, NEW T, NEW events \in Seq(T),
           Plain(events), Len(events) \in 0..2, NEW next, Proceed(next, events)
    PROVE  OpenInv' /\ [Source!SourceNext]_SourceMap
<1>1. ~Final /\ ~Final'
    BY DEF OpenInv, Working, Final
<1>2. buffer' = buffer \o events
    BY DEF Proceed
<1> QED BY <1>1, <1>2, Publishes DEF OpenInv

(* The task that ends makes the session final and leaves.                  *)
LEMMA EndFinishes ==
    ASSUME BufferOK, BufferOK', OpenInv, Working, NEW T, NEW events \in Seq(T),
           Plain(events), Len(events) \in 0..2, NEW outcome \in {"completed", "error"},
           EndsWith(outcome, events)
    PROVE  OpenInv' /\ [Source!SourceNext]_SourceMap
<1>1. ~Final /\ Final' /\ task' = "leaving"
    BY DEF OpenInv, Working, Final, EndsWith
<1>2. buffer' = buffer \o Append(events, Done)
    BY DEF EndsWith
<1> QED BY <1>1, <1>2, Finishes DEF OpenInv

(* Up to two events that are not "done".                                   *)
LEMMA FewPlain ==
    ASSUME NEW a, NEW b, a.type # "done", b.type # "done"
    PROVE  /\ <<>> \in Seq({a, b}) /\ Plain(<<>>) /\ Len(<<>>) \in 0..2
           /\ <<a>> \in Seq({a, b}) /\ Plain(<<a>>) /\ Len(<<a>>) \in 0..2
           /\ <<a, b>> \in Seq({a, b}) /\ Plain(<<a, b>>) /\ Len(<<a, b>>) \in 0..2
BY Few DEF Plain

(* The same with no event, with one, and with two.                         *)
LEMMA FewPublish ==
    ASSUME BufferOK, BufferOK', OpenInv, Working, status' = status, NEW next,
           NEW a, NEW b, a.type # "done", b.type # "done",
           Proceed(next, <<>>) \/ Proceed(next, <<a>>) \/ Proceed(next, <<a, b>>)
    PROVE  OpenInv' /\ [Source!SourceNext]_SourceMap
<1>1. PICK es \in {<<>>, <<a>>, <<a, b>>} : Proceed(next, es)
    OBVIOUS
<1>2. es \in Seq({a, b}) /\ Plain(es) /\ Len(es) \in 0..2
    BY FewPlain
<1> QED BY <1>1, <1>2, ProceedPublishes

(* And at the end, with no event before "done" or with one.                *)
LEMMA FewFinish ==
    ASSUME BufferOK, BufferOK', OpenInv, Working, NEW outcome \in {"completed", "error"},
           NEW a, a.type # "done", EndsWith(outcome, <<>>) \/ EndsWith(outcome, <<a>>)
    PROVE  OpenInv' /\ [Source!SourceNext]_SourceMap
<1>1. PICK es \in {<<>>, <<a>>} : EndsWith(outcome, es)
    OBVIOUS
<1>2. es \in Seq({a, a}) /\ Plain(es) /\ Len(es) \in 0..2
    BY FewPlain
<1> QED BY <1>1, <1>2, EndFinishes

(* No event but Done is a "done".                                          *)
LEMMA NotDone ==
    /\ Approved.type # "done" /\ \A r : Denied(r).type # "done"
    /\ \A s : Failed(s).type # "done"
    /\ \A r : InitEvent(r).type # "done"
    /\ \A s, r : StepEvent(s, r).type # "done"
    /\ \A f : [type |-> "pii_scan", awaiting |-> f].type # "done"
BY DEF Approved, Denied, Failed, InitEvent, StepEvent

(* Every step of the task is one of the source.                            *)
LEMMA TaskRefines ==
    ASSUME BufferOK, BufferOK', OpenInv, TaskNext
    PROVE  OpenInv' /\ [Source!SourceNext]_SourceMap
<1> DEFINE Refined == OpenInv' /\ [Source!SourceNext]_SourceMap
<1> HIDE DEF Refined
<1>1. CASE Begin
    <2>1. Working
        BY <1>1 DEF Begin, Working
    <2>2. CASE EndsWith("completed", <<InitEvent(result')>>)
        BY <2>1, <2>2, NotDone, FewFinish DEF Refined
    <2>3. CASE EndsWith("error", <<Failed("pipeline")>>)
        BY <2>1, <2>3, NotDone, FewFinish DEF Refined
    <2>4. CASE Proceed("docling", <<[type |-> "pii_scan", awaiting |-> FALSE]>>)
        <3>1. status' = status
            BY <1>1, <2>4 DEF Begin, Proceed
        <3> QED BY <2>1, <2>4, <3>1, NotDone, FewPublish DEF Refined
    <2>5. CASE Proceed("pii_scan", <<>>)
        <3>1. status' = status
            BY <1>1, <2>5 DEF Begin, Proceed
        <3> QED BY <2>1, <2>5, <3>1, NotDone, FewPublish DEF Refined
    <2> QED BY <1>1, <2>2, <2>3, <2>4, <2>5 DEF Begin
<1>2. ASSUME NEW findings \in BOOLEAN, ScanEnds(findings)
      PROVE  Refined
    <2> DEFINE next == IF findings THEN "decision" ELSE "docling"
               scanned == [type |-> "pii_scan", awaiting |-> findings]
    <2>1. Working /\ status' = status
        BY <1>2 DEF ScanEnds, Working
    <2>2. Proceed(next, <<scanned>>)
        BY <1>2 DEF ScanEnds
    <2>3. scanned.type # "done"
        OBVIOUS
    <2> HIDE DEF next, scanned
    <2> QED BY <2>1, <2>2, <2>3, FewPublish DEF Refined
<1>3. CASE DecisionHeard
    <2>1. Working
        BY <1>3 DEF DecisionHeard, Working
    <2>2. CASE decision = "approved"
        <3>1. Proceed("docling", <<Approved>>) /\ status' = status
            BY <1>3, <2>2 DEF DecisionHeard
        <3> QED BY <2>1, <3>1, NotDone, FewPublish DEF Refined
    <2>3. CASE decision # "approved"
        <3>1. EndsWith("completed", <<Denied("user")>>)
            BY <1>3, <2>3 DEF DecisionHeard
        <3> QED BY <2>1, <3>1, NotDone, FewFinish DEF Refined
    <2> QED BY <2>2, <2>3
<1>4. CASE DecisionTimesOut
    <2>1. Working /\ EndsWith("completed", <<Denied("timeout")>>)
        BY <1>4 DEF DecisionTimesOut, Working
    <2> QED BY <2>1, NotDone, FewFinish DEF Refined
<1>5. CASE DoclingEnds
    <2>1. Working
        BY <1>5 DEF DoclingEnds, Working
    <2>2. CASE EndsWith("error", <<Failed("docling")>>)
        BY <2>1, <2>2, NotDone, FewFinish DEF Refined
    <2>3. CASE status' = status /\ Proceed("structure", <<InitEvent(result')>>)
        BY <2>1, <2>3, NotDone, FewPublish DEF Refined
    <2>4. CASE status' = status /\ Proceed("docling_ocr", <<>>)
        BY <2>1, <2>4, NotDone, FewPublish DEF Refined
    <2> QED BY <1>5, <2>2, <2>3, <2>4 DEF DoclingEnds, ShowExtraction
<1>6. CASE DoclingOcrEnds
    <2>1. Working /\ status' = status
        BY <1>6 DEF DoclingOcrEnds, Working
    <2>2. CASE Proceed("structure", <<InitEvent(result')>>)
        BY <2>1, <2>2, NotDone, FewPublish DEF Refined
    <2>3. CASE Proceed("structure", <<Failed("docling_ocr"), InitEvent(result')>>)
        BY <2>1, <2>3, NotDone, FewPublish DEF Refined
    <2> QED BY <1>6, <2>2, <2>3 DEF DoclingOcrEnds, ShowExtraction
<1>7. ASSUME NEW i \in DOMAIN Chain, ChainStepEnds(i)
      PROVE  Refined
    <2>1. Chain[i] \in Extraction /\ task = Chain[i] /\ status' = status
        BY <1>7, ExtractionSteps DEF ChainStepEnds
    <2>2. Working
        BY <2>1 DEF Extraction, Working
    <2>3. CASE Proceed(After(i, result', structure'), <<StepEvent(Chain[i], result')>>)
        BY <2>1, <2>2, <2>3, NotDone, FewPublish DEF Refined
    <2>4. CASE Proceed(After(i, result, structure), <<Failed(Chain[i])>>)
        BY <2>1, <2>2, <2>4, NotDone, FewPublish DEF Refined
    <2> QED BY <1>7, <2>3, <2>4 DEF ChainStepEnds
<1>8. CASE UploadEnds
    <2>1. Working /\ EndsWith("completed", <<>>)
        BY <1>8 DEF UploadEnds, Working
    <2> QED BY <2>1, NotDone, FewFinish DEF Refined
<1>9. CASE PipelineTimesOut
    <2>1. task \in TimedSteps /\ EndsWith("error", <<Failed("pipeline")>>)
        BY <1>9 DEF PipelineTimesOut
    <2>2. Working
        BY <2>1, ExtractionSteps DEF TimedSteps, Extraction, Working
    <2> QED BY <2>1, <2>2, NotDone, FewFinish DEF Refined
<1>10. CASE Leave
    <2>1. UNCHANGED <<buffer, status>> /\ task' = "ended"
        BY <1>10 DEF Leave
    <2>2. Final => Final'
        BY <2>1 DEF Final
    <2> QED BY <2>1, <2>2, Silences DEF Refined, OpenInv
<1> QED BY <1>1, <1>2, <1>3, <1>4, <1>5, <1>6, <1>7, <1>8, <1>9, <1>10 DEF TaskNext, Refined

(* And so is every other step: eviction aborts the source of a task at     *)
(* work, and the rest of the world does not touch it.                      *)
LEMMA SourceStep ==
    GateInv /\ GateInv' /\ OpenInv /\ [Next]_vars => OpenInv' /\ [Source!SourceNext]_SourceMap
<1> SUFFICES ASSUME GateInv, GateInv', OpenInv, [Next]_vars
             PROVE  OpenInv' /\ [Source!SourceNext]_SourceMap
    OBVIOUS
<1>1. BufferOK /\ BufferOK'
    BY DEF GateInv
<1>2. CASE TaskNext
    BY <1>1, <1>2, TaskRefines
<1>3. CASE EvictExpired
    <2>1. /\ UNCHANGED buffer /\ task' \in {"leaving", "ended"}
          /\ status' = "error" \/ status' = status
        BY <1>3 DEF EvictExpired, CancelTask
    <2>2. Final => Final'
        BY <2>1 DEF Final
    <2> QED BY <2>1, <2>2, Silences DEF OpenInv
<1>4. CASE Lookup \/ (\E verdict \in {"approved", "denied"} : Decide(verdict)) \/ Tick
           \/ UNCHANGED vars
    <2>1. UNCHANGED <<buffer, task, status>>
        BY <1>4 DEF Lookup, Decide, Tick, vars
    <2>2. Final' <=> Final
        BY <2>1 DEF Final
    <2> QED BY <2>1, <2>2, Silences DEF OpenInv
<1> QED BY <1>2, <1>3, <1>4 DEF Next

(* Whatever fails, times out or is evicted, the buffer of a session is a   *)
(* source of events as SessionStream needs it: nothing follows "done",     *)
(* and nothing follows the end of a cancelled task.                        *)
THEOREM SourceImplemented == Spec => ImplementsEventSource
<1>1. Init => Source!SourceInit /\ OpenInv
    <2> SUFFICES ASSUME Init
                 PROVE  Source!SourceInit /\ OpenInv
        OBVIOUS
    <2>1. buffer = <<Event("session")>> /\ status = "processing"
        BY DEF Init
    <2>2. DOMAIN buffer = 1..1 /\ ~IsDone(1)
        BY <2>1 DEF IsDone, Event
    <2>3. Mapped = <<"event">>
        <3>1. Mapped = [i \in 1..1 |-> "event"]
            BY <2>2 DEF Mapped
        <3> QED BY <3>1
    <2>4. Final = FALSE
        BY <2>1 DEF Final
    <2> QED BY <2>3, <2>4 DEF Source!SourceInit, Mapped, OpenInv
<1> QED BY <1>1, SourceStep, GateInvHolds, PTL
        DEF Spec, ImplementsEventSource, Source!SourceSpec, Source!source, SourceMap, Mapped
-----------------------------------------------------------------------------
(* Eviction. A session that still runs was looked up, or created, no later *)
(* than its task was started, and until it has ended both clocks tick.     *)
IdleInv ==
    /\ task = "starting" => idle = 0
    /\ task # "ended" => idle <= ran

(* No step lets a running session idle for longer than it has run.         *)
LEMMA IdleStep == TypeOK /\ IdleInv /\ [Next]_vars => IdleInv'
<1> SUFFICES ASSUME TypeOK, IdleInv, [Next]_vars
             PROVE  IdleInv'
    OBVIOUS
<1> USE DEF IdleInv
<1>1. CASE TaskNext
    <2>1. UNCHANGED <<idle, ran>> /\ task # "ended"
        BY <1>1, ExtractionSteps
        DEF TaskNext, Begin, ScanEnds, DecisionHeard, DecisionTimesOut, DoclingEnds,
            DoclingOcrEnds, ChainStepEnds, UploadEnds, PipelineTimesOut, Leave, clocks,
            TimedSteps, Extraction
    <2>2. task' # "starting"
        <3>1. \A i \in DOMAIN Chain : \A r, s : After(i, r, s) # "starting"
            BY ExtractionSteps DEF After, Extraction
        <3> QED BY <1>1, <3>1
            DEF TaskNext, Begin, ScanEnds, DecisionHeard, DecisionTimesOut, DoclingEnds,
                DoclingOcrEnds, ShowExtraction, ChainStepEnds, UploadEnds, PipelineTimesOut,
                Leave, EndsWith, Proceed
    <2> QED BY <2>1, <2>2
<1>2. CASE EvictExpired
    <2>1. UNCHANGED <<idle, ran>> /\ task' \in {"leaving", "ended"}
        BY <1>2 DEF EvictExpired, CancelTask
    <2>2. task' # "ended" => task # "ended"
        BY <1>2, ExtractionSteps DEF EvictExpired, CancelTask, TimedSteps, Extraction
    <2> QED BY <2>1, <2>2
<1>3. CASE Lookup \/ \E verdict \in {"approved", "denied"} : Decide(verdict)
    <2>1. idle' = 0 /\ UNCHANGED <<task, ran>>
        BY <1>3 DEF Lookup, Decide, Touch
    <2>2. ran \in Nat
        BY SessionAssumption DEF TypeOK
    <2> QED BY <2>1, <2>2
<1>4. CASE Tick
    <2>1. task \notin {"starting", "leaving"} /\ task' = task
        BY <1>4 DEF Tick, TimerDue
    <2>2. CASE task = "ended"
        BY <2>1, <2>2
    <2>3. CASE task # "ended"
        <3>1. task \in TimedSteps
            BY <2>1, <2>3 DEF TypeOK, Steps
        <3>2. idle \in Nat /\ ran \in Nat /\ ran' = ran + 1 /\ idle' \in {idle, idle + 1}
            BY <1>4, <3>1, SessionAssumption DEF Tick, TypeOK
        <3> QED BY <2>1, <3>2
    <2> QED BY <2>2, <2>3
<1>5. CASE UNCHANGED vars
    BY <1>5 DEF vars, clocks
<1> QED BY <1>1, <1>2, <1>3, <1>4, <1>5 DEF Next

(* When the pipeline is given no more time than a session lives (1800 and  *)
(* 3600 seconds by default; the setting admits up to 7200), the sweep of   *)
(* expired sessions never cancels a task that still runs.                  *)
THEOREM EvictionAlwaysSpares ==
    ASSUME PipelineTimeout <= SessionTTL
    PROVE  Spec => EvictionSparesRunning
<1>1. Init => IdleInv
    BY DEF Init, IdleInv
<1>2. TypeOK /\ IdleInv /\ [Next]_vars => (stored /\ ~stored' => task = "ended")
    <2> SUFFICES ASSUME TypeOK, IdleInv, [Next]_vars, stored, ~stored', task # "ended"
                 PROVE  FALSE
        OBVIOUS
    <2>1. EvictExpired
        BY DEF Next, TaskNext, Begin, ScanEnds, DecisionHeard, DecisionTimesOut, DoclingEnds,
               DoclingOcrEnds, ChainStepEnds, UploadEnds, PipelineTimesOut, Leave, Lookup,
               Decide, Tick, vars
    <2>2. idle <= ran /\ idle > SessionTTL
        BY <2>1 DEF EvictExpired, Expired, IdleInv
    <2> QED BY <2>2, SessionAssumption DEF TypeOK
<1>3. Spec => [](TypeOK /\ IdleInv)
    BY <1>1, ViewerTyped, IdleStep, PTL DEF Spec
<1>4. TypeOK /\ IdleInv /\ [Next]_vars => [stored /\ ~stored' => task = "ended"]_vars
    BY <1>2
<1> QED BY <1>3, <1>4, PTL DEF Spec, EvictionSparesRunning
-----------------------------------------------------------------------------
(* What the steps of the chain do to a result. A text is a sequence of the *)
(* names of steps.                                                         *)
Names == Extraction \cup ScanSteps
Text == Seq(Names)
Paged == {"v0", "v1"}
Results == [versions : [VersionNames -> Text], pages : [Paged -> Text], steps : Text]

\* step rewrote, in going from r to s, no version but those in W
Writes(r, s, W, step) ==
    /\ s \in Results /\ s.steps = Append(r.steps, step)
    /\ \A v \in VersionNames \ W : s.versions[v] = r.versions[v]
    /\ \A v \in Paged \ W : s.pages[v] = r.pages[v]

(* A longer text is a text.                                                *)
LEMMA Extended == \A t \in Text, step \in Names : Append(t, step) \in Text
BY AppendProperties DEF Text

(* Recording a step writes nothing else.                                   *)
LEMMA Recorded ==
    ASSUME NEW r \in Results, NEW step \in Names
    PROVE  Record(r, step) \in Results /\ Writes(r, Record(r, step), {}, step)
<1>1. r.steps \in Text /\ r.versions \in [VersionNames -> Text] /\ r.pages \in [Paged -> Text]
    BY DEF Results
<1>2. Append(r.steps, step) \in Text
    BY <1>1, Extended
<1>3. /\ Record(r, step).steps = Append(r.steps, step)
      /\ Record(r, step).versions = r.versions /\ Record(r, step).pages = r.pages
    BY DEF Record, Results
<1>4. Record(r, step) \in Results
    BY <1>1, <1>2 DEF Record, Results
<1> QED BY <1>3, <1>4 DEF Writes

(* Editing version v in place changes its pages and its document alike.    *)
LEMMA EditedInPlace ==
    ASSUME NEW r \in Results, NEW v \in Paged, NEW step \in Names, NEW changed \in BOOLEAN
    PROVE  LET s == EditInPlace(r, v, step, changed) IN
           /\ s \in Results /\ s.steps = r.steps
           /\ \A w \in VersionNames \ {v} : s.versions[w] = r.versions[w]
           /\ \A w \in Paged \ {v} : s.pages[w] = r.pages[w]
           /\ s.versions[v] = IF changed THEN Append(r.pages[v], step) ELSE r.versions[v]
           /\ s.pages[v] = IF changed THEN Append(r.pages[v], step) ELSE r.pages[v]
<1> DEFINE s == EditInPlace(r, v, step, changed)
<1>1. r.steps \in Text /\ r.versions \in [VersionNames -> Text] /\ r.pages \in [Paged -> Text]
    BY DEF Results
<1>2. Append(r.pages[v], step) \in Text
    BY <1>1, Extended
<1>3. v \in VersionNames
    BY DEF Paged, VersionNames
<1>4. CASE changed
    <2>1. /\ s.steps = r.steps
          /\ s.versions = [r.versions EXCEPT ![v] = Append(r.pages[v], step)]
          /\ s.pages = [r.pages EXCEPT ![v] = Append(r.pages[v], step)]
        BY <1>4 DEF EditInPlace, Results
    <2>2. s.versions \in [VersionNames -> Text] /\ s.pages \in [Paged -> Text]
        BY <1>1, <1>2, <2>1
    <2>3. s \in Results
        BY <1>1, <1>4, <2>1, <2>2 DEF EditInPlace, Results
    <2> QED BY <1>1, <1>3, <1>4, <2>1, <2>3
<1>5. CASE ~changed
    BY <1>5 DEF EditInPlace
<1> QED BY <1>4, <1>5

(* The step that edits version v in place, when it has something to edit.  *)
LEMMA EditStep ==
    ASSUME NEW r \in Results, NEW v \in Paged, NEW step \in Names, NEW changed \in BOOLEAN
    PROVE  LET s == Record(EditInPlace(r, v, step, changed), step) IN
           /\ Writes(r, s, {v}, step)
           /\ s.versions[v] = IF changed THEN Append(r.pages[v], step) ELSE r.versions[v]
           /\ s.pages[v] = IF changed THEN Append(r.pages[v], step) ELSE r.pages[v]
<1> DEFINE e == EditInPlace(r, v, step, changed)
<1>1. /\ e \in Results /\ e.steps = r.steps
      /\ \A w \in VersionNames \ {v} : e.versions[w] = r.versions[w]
      /\ \A w \in Paged \ {v} : e.pages[w] = r.pages[w]
      /\ e.versions[v] = IF changed THEN Append(r.pages[v], step) ELSE r.versions[v]
      /\ e.pages[v] = IF changed THEN Append(r.pages[v], step) ELSE r.pages[v]
    BY EditedInPlace, Zenon
<1> HIDE DEF e
<1> DEFINE s == Record(e, step)
<1>2. Writes(e, s, {}, step)
    BY <1>1, Recorded
<1> HIDE DEF s
<1>3. v \in VersionNames
    BY DEF Paged, VersionNames
<1>4. /\ Writes(r, s, {v}, step)
      /\ s.versions[v] = e.versions[v] /\ s.pages[v] = e.pages[v]
    BY <1>1, <1>2, <1>3 DEF Writes
<1> QED BY <1>1, <1>4 DEF s, e

(* The step that writes a new version v: to the document, and to the pages *)
(* if it keeps them.                                                       *)
LEMMA PageContentWrites ==
    ASSUME NEW r \in Results
    PROVE  /\ Writes(r, PageContentStep(r), {"v1"}, "page_content")
           /\ PageContentStep(r).versions["v1"] = Append(r.pages["v0"], "page_content")
           /\ PageContentStep(r).pages["v1"] = Append(r.pages["v0"], "page_content")
<1> DEFINE c == Append(r.pages["v0"], "page_content")
           m == [r EXCEPT !.pages["v1"] = c]
           n == [m EXCEPT !.versions["v1"] = c]
<1>1. r.steps \in Text /\ r.versions \in [VersionNames -> Text] /\ r.pages \in [Paged -> Text]
    BY DEF Results
<1>2. c \in Text
    BY <1>1, Extended DEF Paged, Names, Extraction
<1> HIDE DEF c
<1>3. m \in Results /\ m.steps = r.steps /\ m.versions = r.versions
      /\ m.pages = [r.pages EXCEPT !["v1"] = c]
    BY <1>1, <1>2 DEF Results
<1>4. [r EXCEPT !.pages["v1"] = c, !.versions["v1"] = c] = n
    BY DEF Results
<1> HIDE DEF m
<1>5. n \in Results /\ n.steps = m.steps /\ n.pages = m.pages
      /\ n.versions = [m.versions EXCEPT !["v1"] = c]
    BY <1>2, <1>3 DEF Results
<1>6. PageContentStep(r) = Record(n, "page_content")
    BY <1>4 DEF PageContentStep, c
<1> HIDE DEF n
<1>7. Writes(n, PageContentStep(r), {}, "page_content")
    BY <1>5, <1>6, Recorded DEF Names, Extraction
<1>8. "v1" \in VersionNames /\ "v1" \in Paged
    BY DEF VersionNames, Paged
<1>9. /\ \A v \in VersionNames \ {"v1"} : n.versions[v] = r.versions[v]
      /\ \A v \in Paged \ {"v1"} : n.pages[v] = r.pages[v]
      /\ n.steps = r.steps /\ n.versions["v1"] = c /\ n.pages["v1"] = c
    BY <1>1, <1>3, <1>5, <1>8
<1>10. /\ Writes(r, PageContentStep(r), {"v1"}, "page_content")
       /\ PageContentStep(r).versions["v1"] = c /\ PageContentStep(r).pages["v1"] = c
    BY <1>7, <1>8, <1>9 DEF Writes
<1> QED BY <1>10 DEF c

(* A document version alone.                                               *)
LEMMA DocumentWritten ==
    ASSUME NEW r \in Results, NEW v \in {"v2", "v3"}, NEW t \in Text, NEW step \in Names
    PROVE  LET s == Record([r EXCEPT !.versions[v] = t], step) IN
           Writes(r, s, {v}, step) /\ s.versions[v] = t
<1> DEFINE n == [r EXCEPT !.versions[v] = t]
           s == Record(n, step)
<1>1. r.steps \in Text /\ r.versions \in [VersionNames -> Text] /\ r.pages \in [Paged -> Text]
    BY DEF Results
<1>2. n.steps = r.steps /\ n.versions = [r.versions EXCEPT ![v] = t] /\ n.pages = r.pages
    BY DEF Results
<1>3. n \in Results
    BY <1>1, <1>2 DEF Results
<1>4. v \in VersionNames
    BY DEF VersionNames
<1> HIDE DEF n
<1>5. Writes(n, s, {}, step)
    BY <1>3, Recorded
<1> QED BY <1>1, <1>2, <1>4, <1>5 DEF Writes, n

(* The document after the cross-page fixes, v2.                            *)
LEMMA BoundariesWrites ==
    ASSUME NEW r \in Results
    PROVE  /\ Writes(r, BoundariesStep(r), {"v2"}, "boundaries")
           /\ BoundariesStep(r).versions["v2"]
                = Append(r.versions[BoundarySource(r)], "boundaries")
<1>1. BoundarySource(r) \in VersionNames
    BY DEF BoundarySource, VersionNames
<1> DEFINE t == Append(r.versions[BoundarySource(r)], "boundaries")
<1>2. t \in Text
    BY <1>1, Extended DEF Results, Names, Extraction
<1>3. BoundariesStep(r) = Record([r EXCEPT !.versions["v2"] = t], "boundaries")
    BY DEF BoundariesStep
<1> HIDE DEF t
<1>4. "boundaries" \in Names
    BY DEF Names, Extraction
<1>5. Writes(r, BoundariesStep(r), {"v2"}, "boundaries") /\ BoundariesStep(r).versions["v2"] = t
    BY <1>2, <1>3, <1>4, DocumentWritten
<1> QED BY <1>5 DEF t

(* The final document, v3.                                                 *)
LEMMA CleanupWrites ==
    ASSUME NEW r \in Results
    PROVE  /\ Writes(r, CleanupStep(r), {"v3"}, "cleanup")
           /\ CleanupStep(r).versions["v3"] = Append(r.versions["v2"], "cleanup")
<1> DEFINE t == Append(r.versions["v2"], "cleanup")
<1>1. t \in Text /\ "cleanup" \in Names
    BY Extended DEF Results, VersionNames, Names, Extraction
<1>2. CleanupStep(r) = Record([r EXCEPT !.versions["v3"] = t], "cleanup")
    BY DEF CleanupStep
<1> HIDE DEF t
<1>3. Writes(r, CleanupStep(r), {"v3"}, "cleanup") /\ CleanupStep(r).versions["v3"] = t
    BY <1>1, <1>2, DocumentWritten
<1> QED BY <1>3 DEF t

-----------------------------------------------------------------------------
(* No edit is lost. What makes this inductive is which versions a task has *)
(* yet to write, and that nothing is extracted anew once a step has edited.*)
Edits == Rewrites \cup {"heading_levels", "code_blocks"}
Early == Before \cup {"docling", "docling_ocr", "structure"}
Unpaged == Early \cup {"heading_reconciliation", "heading_levels", "page_content"}
Unjoined == Unpaged \cup {"code_blocks", "boundaries"}

Stage(t, r) ==
    /\ t \in Unpaged => ~Has(r, "v1")
    /\ t \in Unjoined => ~Has(r, "v2")
    /\ t \in Unjoined \cup {"cleanup"} => ~Has(r, "v3")
    /\ t = "cleanup" => Has(r, "v2")
    /\ t \in Early => StepsOf(r) \cap Edits = {}

Agrees(r) == \A v \in Paged : r.pages[v] = r.versions[v]
Carried(r, steps) == \A step \in steps \cap StepsOf(r) : In(step, FinalMarkdown(r))

EditInv ==
    /\ result \in Results /\ Agrees(result) /\ Stage(task, result)
    /\ Carried(result, Rewrites \cup structure)

(* The chain, step by step.                                                *)
LEMMA ChainIs ==
    ASSUME NEW i \in DOMAIN Chain
    PROVE  \/ i = 1 /\ Chain[i] = "structure"
           \/ i = 2 /\ Chain[i] = "heading_reconciliation"
           \/ i = 3 /\ Chain[i] = "heading_levels"
           \/ i = 4 /\ Chain[i] = "page_content"
           \/ i = 5 /\ Chain[i] = "code_blocks"
           \/ i = 6 /\ Chain[i] = "boundaries"
           \/ i = 7 /\ Chain[i] = "cleanup"
BY DEF Chain

(* And what may follow each of them.                                       *)
LEMMA AfterIs ==
    ASSUME NEW i \in DOMAIN Chain, NEW r, NEW s
    PROVE  \/ After(i, r, s) = "upload"
           \/ i = 1 /\ After(i, r, s) = "heading_reconciliation"
           \/ i = 2 /\ After(i, r, s) = "heading_levels"
           \/ i = 3 /\ After(i, r, s) = "page_content"
           \/ i = 4 /\ After(i, r, s) = "code_blocks"
           \/ i = 5 /\ After(i, r, s) = "boundaries"
           \/ i = 6 /\ After(i, r, s) = "cleanup" /\ Has(r, "v2")
<1>1. DOMAIN Chain = 1..7 /\ Len(Chain) = 7
    BY DEF Chain
<1>2. /\ Chain[1] = "structure" /\ Chain[2] = "heading_reconciliation"
      /\ Chain[3] = "heading_levels" /\ Chain[4] = "page_content" /\ Chain[5] = "code_blocks"
      /\ Chain[6] = "boundaries" /\ Chain[7] = "cleanup"
    BY DEF Chain
<1>3. i \in 1..7
    BY <1>1
<1> QED BY <1>1, <1>2, <1>3 DEF After

(* The newest text of a result.                                            *)
LEMMA FinalIs ==
    ASSUME NEW r \in Results
    PROVE  FinalMarkdown(r) = IF Has(r, "v3") THEN r.versions["v3"]
                              ELSE IF Has(r, "v2") THEN r.versions["v2"]
                              ELSE IF Has(r, "v1") THEN r.versions["v1"]
                              ELSE r.versions["v0"]
<1> DEFINE New(v) == /\ Has(r, v) \/ v = "v0"
                     /\ \A w \in VersionNames : Has(r, w) => Rank[w] <= Rank[v]
           n == IF Has(r, "v3") THEN "v3" ELSE IF Has(r, "v2") THEN "v2"
                ELSE IF Has(r, "v1") THEN "v1" ELSE "v0"
<1>1. Rank["v0"] = 0 /\ Rank["v1"] = 1 /\ Rank["v2"] = 2 /\ Rank["v3"] = 3
    BY DEF Rank
<1>2. \A v, w \in VersionNames : Rank[v] = Rank[w] => v = w
    BY <1>1 DEF VersionNames
<1>3. n \in VersionNames /\ New(n)
    BY <1>1 DEF VersionNames
<1>4. ASSUME NEW v \in VersionNames, New(v)
      PROVE  v = n
    BY <1>1, <1>4 DEF VersionNames
<1> HIDE DEF n
<1>5. Newest(r) = n
    BY <1>3, <1>4 DEF Newest
<1> QED BY <1>5 DEF FinalMarkdown, n

(* A recorded step that appended itself to the newest text, or has nothing *)
(* to append, leaves the newest text with every edit.                      *)
LEMMA EditCarried ==
    ASSUME NEW r \in Results, NEW s \in Results, NEW step, NEW S, Carried(r, S),
           s.steps = Append(r.steps, step),
           \/ FinalMarkdown(s) = Append(FinalMarkdown(r), step)
           \/ FinalMarkdown(s) = FinalMarkdown(r) /\ step \notin S,
           FinalMarkdown(r) \in Text
    PROVE  Carried(s, S)
<1> DEFINE old == FinalMarkdown(r)
           new == FinalMarkdown(s)
<1>1. StepsOf(s) \subseteq StepsOf(r) \cup {step}
    <2>1. r.steps \in Seq(Names)
        BY DEF Results, Text
    <2>2. \A i \in DOMAIN s.steps :
             s.steps[i] = step \/ \E j \in DOMAIN r.steps : s.steps[i] = r.steps[j]
        BY <2>1
    <2> QED BY <2>2 DEF StepsOf
<1>2. CASE new = old /\ step \notin S
    BY <1>1, <1>2 DEF Carried
<1>3. CASE new = Append(old, step)
    <2>1. old \in Seq(Names)
        BY DEF Text
    <2> HIDE DEF old, new
    <2>2. \A e : In(e, old) => In(e, new)
        <3>1. \A i \in DOMAIN old : i \in DOMAIN new /\ new[i] = old[i]
            BY <1>3, <2>1
        <3> QED BY <3>1 DEF In
    <2>3. In(step, new)
        <3>1. Len(old) + 1 \in DOMAIN new /\ new[Len(old) + 1] = step
            BY <1>3, <2>1
        <3> QED BY <3>1 DEF In
    <2> QED BY <1>1, <2>2, <2>3 DEF Carried, old, new
<1> QED BY <1>2, <1>3

(* Every version of a result is a text, and so is the newest.              *)
LEMMA FinalTyped == \A r \in Results : FinalMarkdown(r) \in Text
<1> SUFFICES ASSUME NEW r \in Results PROVE FinalMarkdown(r) \in Text
    OBVIOUS
<1>1. \A v \in VersionNames : r.versions[v] \in Text
    BY DEF Results
<1> QED BY <1>1, FinalIs DEF VersionNames

(* A result no step has edited carries every edit there is.                *)
LEMMA NothingEdited ==
    ASSUME NEW r \in Results, StepsOf(r) \cap Edits = {},
           NEW S, S \in Structures \cup {NoStructure}
    PROVE  Carried(r, Rewrites \cup S)
<1>1. "none" \notin StepsOf(r)
    BY DEF StepsOf, Results, Text, Names, Extraction, ScanSteps
<1> QED BY <1>1 DEF Carried, Edits, Structures, NoStructure

(* The extraction writes v0 and its pages, whole.                          *)
LEMMA ExtractedIs ==
    ASSUME NEW r \in Results, NEW step \in Names
    PROVE  LET s == Extracted(r, step) IN
           /\ s \in Results /\ s.steps = r.steps
           /\ s.versions["v0"] = <<step>> /\ s.pages["v0"] = <<step>>
           /\ \A v \in VersionNames \ {"v0"} : s.versions[v] = r.versions[v]
           /\ \A v \in Paged \ {"v0"} : s.pages[v] = r.pages[v]
<1> DEFINE t == <<step>>
           m == [r EXCEPT !.versions["v0"] = t]
           n == [m EXCEPT !.pages["v0"] = t]
<1>1. t \in Text
    BY DEF Text
<1>2. r.versions \in [VersionNames -> Text] /\ r.pages \in [Paged -> Text]
    BY DEF Results
<1>3. "v0" \in VersionNames /\ "v0" \in Paged
    BY DEF VersionNames, Paged
<1> HIDE DEF t
<1>4. m \in Results /\ m.steps = r.steps /\ m.pages = r.pages
      /\ m.versions = [r.versions EXCEPT !["v0"] = t]
    BY <1>1, <1>2 DEF Results
<1>5. [r EXCEPT !.versions["v0"] = t, !.pages["v0"] = t] = n
    BY DEF Results
<1> HIDE DEF m
<1>6. n \in Results /\ n.steps = m.steps /\ n.versions = m.versions
      /\ n.pages = [m.pages EXCEPT !["v0"] = t]
    BY <1>1, <1>2, <1>4 DEF Results
<1>7. Extracted(r, step) = n
    BY <1>5 DEF Extracted, t
<1> HIDE DEF n
<1>8. /\ n.versions["v0"] = t /\ n.pages["v0"] = t
      /\ \A v \in VersionNames \ {"v0"} : n.versions[v] = r.versions[v]
      /\ \A v \in Paged \ {"v0"} : n.pages[v] = r.pages[v]
    BY <1>2, <1>3, <1>4, <1>6
<1> QED BY <1>4, <1>6, <1>7, <1>8 DEF t

(* Until the structure is known a result has v0 alone, and no edits.       *)
Unedited(r) ==
    /\ r \in Results /\ Agrees(r) /\ StepsOf(r) \cap Edits = {}
    /\ ~Has(r, "v1") /\ ~Has(r, "v2") /\ ~Has(r, "v3")

(* Recording a step that edits nothing and extracting keep it that way.    *)
LEMMA UneditedSteps ==
    /\ \A r, step : Unedited(r) /\ step \in Names \ Edits => Unedited(Record(r, step))
    /\ \A r, step : Unedited(r) /\ step \in Names => Unedited(Extracted(r, step))
<1>1. ASSUME NEW r, Unedited(r), NEW step \in Names \ Edits
      PROVE  Unedited(Record(r, step))
    <2> DEFINE s == Record(r, step)
    <2>1. /\ s \in Results /\ s.steps = Append(r.steps, step)
          /\ \A v \in VersionNames : s.versions[v] = r.versions[v]
          /\ \A v \in Paged : s.pages[v] = r.pages[v]
        BY <1>1, Recorded DEF Writes, Unedited
    <2> HIDE DEF s
    <2>2. r.steps \in Seq(Names)
        BY <1>1 DEF Unedited, Results, Text
    <2>3. StepsOf(s) \cap Edits = {}
        <3>1. \A i \in DOMAIN s.steps :
                 s.steps[i] = step \/ \E j \in DOMAIN r.steps : s.steps[i] = r.steps[j]
            BY <2>1, <2>2
        <3> QED BY <1>1, <3>1 DEF StepsOf, Unedited
    <2> QED BY <1>1, <2>1, <2>3 DEF Unedited, Agrees, Has, VersionNames, Paged, s
<1>2. ASSUME NEW r, Unedited(r), NEW step \in Names
      PROVE  Unedited(Extracted(r, step))
    <2> DEFINE s == Extracted(r, step)
    <2>1. /\ s \in Results /\ s.steps = r.steps
          /\ s.versions["v0"] = s.pages["v0"]
          /\ \A v \in VersionNames \ {"v0"} : s.versions[v] = r.versions[v]
          /\ \A v \in Paged \ {"v0"} : s.pages[v] = r.pages[v]
        BY <1>2, ExtractedIs DEF Unedited
    <2> HIDE DEF s
    <2> QED BY <1>2, <2>1 DEF Unedited, Agrees, Has, VersionNames, Paged, StepsOf, s
<1> QED BY <1>1, <1>2

(* A task that has not edited yet may go anywhere but to the cleanup.      *)
LEMMA UneditedInv ==
    ASSUME TypeOK', Unedited(result'), task' # "cleanup"
    PROVE  EditInv'
<1>1. /\ result' \in Results /\ Agrees(result')
      /\ StepsOf(result') \cap Edits = {}
      /\ ~Has(result', "v1") /\ ~Has(result', "v2") /\ ~Has(result', "v3")
    BY DEF Unedited
<1>2. structure' \in Structures \cup {NoStructure}
    BY DEF TypeOK
<1>3. Carried(result', Rewrites \cup structure')
    BY <1>1, <1>2, NothingEdited
<1>4. Stage(task', result')
    BY <1>1 DEF Stage
<1> QED BY <1>1, <1>3, <1>4 DEF EditInv

(* The names of the steps before the edits.                                *)
LEMMA PlainNames ==
    /\ {"classification", "pii_scan", "docling", "docling_ocr", "structure"}
         \subseteq Names \ Edits
    /\ Edits \cup {"heading_reconciliation"} \subseteq Names
    /\ "heading_reconciliation" \notin Edits
BY DEF Names, Edits, Rewrites, Extraction, ScanSteps

(* The tasks up to the structure analysis.                                 *)
LEMMA EarlyStep ==
    ASSUME TypeOK', EditInv, task \in Early,
           \/ result' = result
           \/ \E step \in {"classification", "pii_scan", "docling", "docling_ocr", "structure"} :
                 result' = Record(result, step)
           \/ \E step \in {"docling", "docling_ocr"} :
                 \/ result' = Extracted(result, step)
                 \/ result' = Record(Extracted(result, step), step),
           task' # "cleanup"
    PROVE  EditInv'
<1>1. Unedited(result)
    BY DEF EditInv, Stage, Unedited, Unpaged, Unjoined
<1>2. Unedited(result')
    <2>1. CASE result' = result
        BY <1>1, <2>1
    <2>2. ASSUME NEW step \in {"classification", "pii_scan", "docling", "docling_ocr", "structure"},
                 result' = Record(result, step)
          PROVE  Unedited(result')
        BY <1>1, <2>2, UneditedSteps, PlainNames
    <2>3. ASSUME NEW step \in {"docling", "docling_ocr"},
                 \/ result' = Extracted(result, step)
                 \/ result' = Record(Extracted(result, step), step)
          PROVE  Unedited(result')
        <3>1. step \in Names /\ step \in Names \ Edits
            BY PlainNames
        <3>2. Unedited(Extracted(result, step))
            BY <1>1, <3>1, UneditedSteps
        <3> QED BY <2>3, <3>1, <3>2, UneditedSteps
    <2> QED BY <2>1, <2>2, <2>3
<1> QED BY <1>2, UneditedInv

(* What each step of the chain does to a result with the versions it may   *)
(* find: it appends itself to the newest text, or has nothing to edit.     *)
LEMMA EffectIs ==
    ASSUME TypeOK, EditInv, NEW i \in DOMAIN Chain, task = Chain[i], i # 1,
           result' = StepEffect(Chain[i])
    PROVE  /\ Writes(result, result', NewVersions(Chain[i], result'), Chain[i])
           /\ Agrees(result')
           /\ \/ FinalMarkdown(result') = Append(FinalMarkdown(result), Chain[i])
              \/ FinalMarkdown(result') = FinalMarkdown(result)
                   /\ Chain[i] \notin Rewrites \cup structure
           /\ i = 6 => Has(result', "v2")
<1> DEFINE r == result
           s == result'
<1>1. /\ r \in Results /\ Agrees(r) /\ Stage(task, r)
      /\ r.versions \in [VersionNames -> Text] /\ r.pages \in [Paged -> Text]
    BY DEF EditInv, Results
<1>2. VersionNames = {"v0", "v1", "v2", "v3"} /\ Paged = {"v0", "v1"}
    BY DEF VersionNames, Paged
<1>3. FinalMarkdown(r) = IF Has(r, "v3") THEN r.versions["v3"]
                         ELSE IF Has(r, "v2") THEN r.versions["v2"]
                         ELSE IF Has(r, "v1") THEN r.versions["v1"] ELSE r.versions["v0"]
    BY <1>1, FinalIs
<1>4. \A t \in Text, n \in Names : Append(t, n) # <<>>
    BY AppendProperties DEF Text
<1>5. s \in Results =>
        FinalMarkdown(s) = IF Has(s, "v3") THEN s.versions["v3"]
                           ELSE IF Has(s, "v2") THEN s.versions["v2"]
                           ELSE IF Has(s, "v1") THEN s.versions["v1"] ELSE s.versions["v0"]
    BY FinalIs
<1> HIDE DEF r, s
<1>6. CASE i = 2
    <2>1. Chain[i] = "heading_reconciliation" /\ s = Record(r, Chain[i]) /\ Chain[i] \in Names
        BY <1>6, ChainIs, PlainNames DEF StepEffect, HeadingReconciliationStep, r, s
    <2>2. Writes(r, s, {}, Chain[i])
        BY <1>1, <2>1, Recorded
    <2>3. Chain[i] \notin Rewrites \cup structure
        BY <2>1 DEF TypeOK, Structures, NoStructure, Rewrites
    <2>4. FinalMarkdown(s) = FinalMarkdown(r) /\ Agrees(s)
        BY <1>1, <1>2, <1>3, <1>5, <2>2 DEF Writes, Has, Agrees
    <2>5. NewVersions(Chain[i], s) = {}
        BY <2>1 DEF NewVersions
    <2>11. i # 6 /\ Writes(r, s, NewVersions(Chain[i], s), Chain[i])
        BY <1>6, <2>2, <2>5
    <2>12. \/ FinalMarkdown(s) = Append(FinalMarkdown(r), Chain[i])
           \/ FinalMarkdown(s) = FinalMarkdown(r) /\ Chain[i] \notin Rewrites \cup structure
        BY <2>2, <2>3, <2>4, <2>5
    <2> QED BY <2>11, <2>12, <2>2, <2>3, <2>4, <2>5 DEF r, s
<1>7. CASE i = 3
    <2> DEFINE changed == "heading_levels" \in structure
    <2>1. /\ Chain[i] = "heading_levels" /\ Chain[i] \in Names
          /\ s = Record(EditInPlace(r, "v0", "heading_levels", changed), "heading_levels")
        BY <1>7, ChainIs, PlainNames DEF StepEffect, HeadingLevelsStep, r, s, Edits
    <2>2. changed \in BOOLEAN /\ "v0" \in Paged
        BY <1>2
    <2> HIDE DEF changed
    <2>3. /\ Writes(r, s, {"v0"}, Chain[i])
          /\ s.versions["v0"]
                = IF changed THEN Append(r.pages["v0"], Chain[i]) ELSE r.versions["v0"]
          /\ s.pages["v0"] = IF changed THEN Append(r.pages["v0"], Chain[i]) ELSE r.pages["v0"]
        BY <1>1, <2>1, <2>2, EditStep
    <2>4. ~Has(r, "v1") /\ ~Has(r, "v2") /\ ~Has(r, "v3")
        BY <1>1, <2>1 DEF Stage, Unpaged, Unjoined
    <2>5. ~Has(s, "v1") /\ ~Has(s, "v2") /\ ~Has(s, "v3") /\ Agrees(s)
        BY <1>1, <1>2, <2>3, <2>4 DEF Writes, Has, Agrees
    <2>6. FinalMarkdown(s) = s.versions["v0"] /\ FinalMarkdown(r) = r.versions["v0"]
        BY <1>3, <1>5, <2>3, <2>4, <2>5 DEF Writes
    <2>7. r.pages["v0"] = r.versions["v0"]
        BY <1>1, <1>2 DEF Agrees
    <2>8. ~changed => Chain[i] \notin Rewrites \cup structure
        BY <2>1 DEF Rewrites, changed
    <2>9. NewVersions(Chain[i], s) = {"v0"}
        BY <2>1 DEF NewVersions
    <2>11. i # 6 /\ Writes(r, s, NewVersions(Chain[i], s), Chain[i])
        BY <1>7, <2>3, <2>9
    <2>12. \/ FinalMarkdown(s) = Append(FinalMarkdown(r), Chain[i])
           \/ FinalMarkdown(s) = FinalMarkdown(r) /\ Chain[i] \notin Rewrites \cup structure
        BY <2>3, <2>5, <2>6, <2>7, <2>8, <2>9
    <2> QED BY <2>11, <2>12, <2>3, <2>5, <2>6, <2>7, <2>8, <2>9 DEF r, s
<1>8. CASE i = 4
    <2>1. Chain[i] = "page_content" /\ s = PageContentStep(r) /\ Chain[i] \in Names
        BY <1>8, ChainIs, PlainNames DEF StepEffect, r, s, Edits, Rewrites
    <2>2. /\ Writes(r, s, {"v1"}, Chain[i])
          /\ s.versions["v1"] = Append(r.pages["v0"], Chain[i])
          /\ s.pages["v1"] = Append(r.pages["v0"], Chain[i])
        BY <1>1, <2>1, PageContentWrites
    <2>3. ~Has(r, "v1") /\ ~Has(r, "v2") /\ ~Has(r, "v3")
        BY <1>1, <2>1 DEF Stage, Unpaged, Unjoined
    <2>4. Has(s, "v1")
        BY <1>1, <1>2, <1>4, <2>1, <2>2 DEF Has
    <2>5. ~Has(s, "v2") /\ ~Has(s, "v3") /\ Agrees(s)
        BY <1>1, <1>2, <2>2, <2>3 DEF Writes, Has, Agrees
    <2>6. FinalMarkdown(s) = s.versions["v1"] /\ FinalMarkdown(r) = r.versions["v0"]
        BY <1>3, <1>5, <2>2, <2>3, <2>4, <2>5 DEF Writes
    <2>7. r.pages["v0"] = r.versions["v0"]
        BY <1>1, <1>2 DEF Agrees
    <2>8. NewVersions(Chain[i], s) = {"v1"}
        BY <2>1 DEF NewVersions
    <2>11. i # 6 /\ Writes(r, s, NewVersions(Chain[i], s), Chain[i])
        BY <1>8, <2>2, <2>8
    <2>12. \/ FinalMarkdown(s) = Append(FinalMarkdown(r), Chain[i])
           \/ FinalMarkdown(s) = FinalMarkdown(r) /\ Chain[i] \notin Rewrites \cup structure
        BY <2>2, <2>5, <2>6, <2>7, <2>8
    <2> QED BY <2>11, <2>12, <2>2, <2>5, <2>6, <2>7, <2>8 DEF r, s
<1>9. CASE i = 5
    <2> DEFINE changed == "code_blocks" \in structure
               v == PagedSource(r)
    <2>1. /\ Chain[i] = "code_blocks" /\ Chain[i] \in Names
          /\ s = Record(EditInPlace(r, v, "code_blocks", changed), "code_blocks")
        BY <1>9, ChainIs, PlainNames DEF StepEffect, CodeBlocksStep, r, s, Edits
    <2>2. changed \in BOOLEAN /\ v \in Paged
        BY <1>2 DEF PagedSource
    <2>3. r.pages[v] = r.versions[v] /\ v = (IF Has(r, "v1") THEN "v1" ELSE "v0")
        BY <1>1, <1>2 DEF Agrees, PagedSource, Has
    <2> HIDE DEF changed, v
    <2>4. /\ Writes(r, s, {v}, Chain[i])
          /\ s.versions[v] = IF changed THEN Append(r.pages[v], Chain[i]) ELSE r.versions[v]
          /\ s.pages[v] = IF changed THEN Append(r.pages[v], Chain[i]) ELSE r.pages[v]
        BY <1>1, <2>1, <2>2, EditStep
    <2>5. ~Has(r, "v2") /\ ~Has(r, "v3")
        BY <1>1, <2>1 DEF Stage, Unjoined
    <2>6. Append(r.pages[v], Chain[i]) # <<>>
        BY <1>1, <1>4, <2>1, <2>2
    <2>7. /\ ~Has(s, "v2") /\ ~Has(s, "v3") /\ Agrees(s)
          /\ Has(s, "v1") <=> Has(r, "v1")
        BY <1>1, <1>2, <2>2, <2>3, <2>4, <2>5, <2>6 DEF Writes, Has, Agrees
    <2>8. FinalMarkdown(s) = s.versions[v] /\ FinalMarkdown(r) = r.versions[v]
        BY <1>3, <1>5, <2>3, <2>4, <2>5, <2>7 DEF Writes
    <2>9. ~changed => Chain[i] \notin Rewrites \cup structure
        BY <2>1 DEF Rewrites, changed
    <2>10. NewVersions(Chain[i], s) = {v}
        BY <1>2, <2>1, <2>3, <2>7 DEF NewVersions, PagedSource, Agrees, Has
    <2>11. i # 6 /\ Writes(r, s, NewVersions(Chain[i], s), Chain[i])
        BY <1>9, <2>4, <2>10
    <2>12. \/ FinalMarkdown(s) = Append(FinalMarkdown(r), Chain[i])
           \/ FinalMarkdown(s) = FinalMarkdown(r) /\ Chain[i] \notin Rewrites \cup structure
        BY <2>3, <2>4, <2>7, <2>8, <2>9, <2>10
    <2> QED BY <2>11, <2>12, <2>3, <2>4, <2>7, <2>8, <2>9, <2>10 DEF r, s
<1>10. CASE i = 6
    <2>1. Chain[i] = "boundaries" /\ s = BoundariesStep(r) /\ Chain[i] \in Names
        BY <1>10, ChainIs, PlainNames DEF StepEffect, r, s, Edits, Rewrites
    <2>2. /\ Writes(r, s, {"v2"}, Chain[i])
          /\ s.versions["v2"] = Append(r.versions[BoundarySource(r)], Chain[i])
        BY <1>1, <2>1, BoundariesWrites
    <2>3. ~Has(r, "v2") /\ ~Has(r, "v3")
        BY <1>1, <2>1 DEF Stage, Unjoined
    <2>4. Has(s, "v2") /\ ~Has(s, "v3") /\ Agrees(s)
        <3>1. BoundarySource(r) \in VersionNames
            BY <1>2 DEF BoundarySource
        <3>2. s.versions["v2"] # <<>>
            BY <1>1, <1>4, <2>1, <2>2, <3>1
        <3>3. \A v \in {"v0", "v1", "v3"} : s.versions[v] = r.versions[v]
            BY <1>2, <2>2 DEF Writes
        <3>4. \A v \in Paged : s.pages[v] = r.pages[v]
            BY <1>2, <2>2 DEF Writes
        <3> QED BY <1>1, <1>2, <2>3, <3>2, <3>3, <3>4 DEF Has, Agrees
    <2>5. FinalMarkdown(s) = s.versions["v2"] /\ FinalMarkdown(r) = r.versions[BoundarySource(r)]
        BY <1>3, <1>5, <2>2, <2>3, <2>4 DEF Writes, BoundarySource
    <2>6. NewVersions(Chain[i], s) = {"v2"}
        BY <2>1 DEF NewVersions
    <2> QED BY <1>10, <2>2, <2>4, <2>5, <2>6 DEF r, s
<1>11. CASE i = 7
    <2>1. Chain[i] = "cleanup" /\ s = CleanupStep(r) /\ Chain[i] \in Names
        BY <1>11, ChainIs, PlainNames DEF StepEffect, r, s, Edits, Rewrites
    <2>2. /\ Writes(r, s, {"v3"}, Chain[i])
          /\ s.versions["v3"] = Append(r.versions["v2"], Chain[i])
        BY <1>1, <2>1, CleanupWrites
    <2>3. Has(r, "v2") /\ ~Has(r, "v3")
        BY <1>1, <2>1 DEF Stage
    <2>4. Has(s, "v3") /\ Agrees(s)
        BY <1>1, <1>2, <1>4, <2>1, <2>2, <2>3 DEF Writes, Has, Agrees
    <2>5. FinalMarkdown(s) = s.versions["v3"] /\ FinalMarkdown(r) = r.versions["v2"]
        BY <1>3, <1>5, <2>2, <2>3, <2>4 DEF Writes
    <2>6. NewVersions(Chain[i], s) = {"v3"}
        BY <2>1 DEF NewVersions
    <2>11. i # 6 /\ Writes(r, s, NewVersions(Chain[i], s), Chain[i])
        BY <1>11, <2>2, <2>6
    <2>12. \/ FinalMarkdown(s) = Append(FinalMarkdown(r), Chain[i])
           \/ FinalMarkdown(s) = FinalMarkdown(r) /\ Chain[i] \notin Rewrites \cup structure
        BY <2>2, <2>4, <2>5, <2>6
    <2> QED BY <2>11, <2>12, <2>2, <2>4, <2>5, <2>6 DEF r, s
<1> QED BY <1>6, <1>7, <1>8, <1>9, <1>10, <1>11, ChainIs

(* The steps of the chain keep the edits, whether they end or raise.       *)
LEMMA ChainEdits ==
    ASSUME TypeOK, TypeOK', EditInv, NEW i \in DOMAIN Chain, ChainStepEnds(i)
    PROVE  EditInv'
<1>1. CASE i = 1
    <2>1. task = "structure" /\ task' # "cleanup"
        BY <1>1, ChainIs, AfterIs DEF ChainStepEnds, Proceed
    <2>2. result' = result \/ result' = Record(result, "structure")
        BY <1>1, ChainIs DEF ChainStepEnds, StepEffect, StructureStep
    <2> QED BY <2>1, <2>2, EarlyStep DEF Early
<1>2. CASE i # 1 /\ UNCHANGED <<result, structure>>
    <2>1. task = Chain[i] /\ task' = After(i, result, structure)
        BY <1>2 DEF ChainStepEnds, Proceed
    <2>2. Stage(task', result)
        BY <1>2, <2>1, ChainIs, AfterIs DEF EditInv, Stage, Early, Unpaged, Unjoined, Before
    <2> QED BY <1>2, <2>2 DEF EditInv, Agrees, Carried
<1>3. CASE i # 1 /\ result' = StepEffect(Chain[i]) /\ structure' = structure
    <2>1. task = Chain[i] /\ task' = After(i, result', structure')
        BY <1>3 DEF ChainStepEnds, Proceed
    <2>2. /\ Writes(result, result', NewVersions(Chain[i], result'), Chain[i])
          /\ Agrees(result')
          /\ \/ FinalMarkdown(result') = Append(FinalMarkdown(result), Chain[i])
             \/ FinalMarkdown(result') = FinalMarkdown(result)
                  /\ Chain[i] \notin Rewrites \cup structure
    BY <1>3, <2>1, EffectIs
    <2>3. result' \in Results /\ result'.steps = Append(result.steps, Chain[i])
        BY <2>2 DEF Writes
    <2>4. Carried(result', Rewrites \cup structure)
        <3> DEFINE S == Rewrites \cup structure
        <3>1. /\ result \in Results /\ Carried(result, S) /\ FinalMarkdown(result) \in Text
            BY FinalTyped DEF EditInv
        <3> HIDE DEF S
        <3>2. Chain[i] \notin Rewrites \cup structure <=> Chain[i] \notin S
            BY DEF S
        <3>3. Carried(result', S)
            BY <2>2, <2>3, <3>1, <3>2, EditCarried
        <3> QED BY <3>3 DEF S
    <2>5. Stage(task', result')
        <3>1. \A v \in VersionNames \ NewVersions(Chain[i], result') :
                 Has(result', v) <=> Has(result, v)
            BY <2>2 DEF Writes, Has
        <3>2. \/ i \in {2, 3} /\ NewVersions(Chain[i], result') \subseteq {"v0"}
              \/ i \in {4, 5} /\ NewVersions(Chain[i], result') \subseteq {"v0", "v1"}
              \/ i = 6 /\ NewVersions(Chain[i], result') = {"v2"}
              \/ i = 7
            BY <1>3, ChainIs DEF NewVersions, PagedSource
        <3>3. i = 6 => After(i, result', structure') = "upload" \/ Has(result', "v2")
            BY AfterIs
        <3> QED BY <1>3, <2>1, <3>1, <3>2, <3>3, ChainIs, AfterIs
            DEF EditInv, Stage, Early, Unpaged, Unjoined, Before, VersionNames
    <2> QED BY <1>3, <2>2, <2>3, <2>4, <2>5 DEF EditInv, Agrees, Carried
<1>4. \/ UNCHANGED <<result, structure>>
      \/ result' = StepEffect(Chain[i]) /\ (i # 1 => structure' = structure)
    BY DEF ChainStepEnds
<1> QED BY <1>1, <1>2, <1>3, <1>4

(* Every step of a session keeps the edits.                                *)
LEMMA EditsKept == TypeOK /\ TypeOK' /\ EditInv /\ [Next]_vars => EditInv'
<1> SUFFICES ASSUME TypeOK, TypeOK', EditInv, [Next]_vars
             PROVE  EditInv'
    OBVIOUS
<1> DEFINE Stays == UNCHANGED <<result, structure>> /\ task' \in {"leaving", "ended", task}
<1>1. CASE Stays
    <2>1. Stage(task', result)
        BY <1>1 DEF EditInv, Stage, Early, Unpaged, Unjoined, Before
    <2> QED BY <1>1, <2>1 DEF EditInv, Agrees, Carried
<1>2. CASE TaskNext
    <2>1. CASE Begin
        <3>1. task \in Early /\ task' # "cleanup"
            BY <2>1 DEF Begin, EndsWith, Proceed, Early, Before
        <3>2. result' = result \/ result' = Record(result, "classification")
            BY <2>1 DEF Begin
        <3> QED BY <3>1, <3>2, EarlyStep
    <2>2. ASSUME NEW findings \in BOOLEAN, ScanEnds(findings)
          PROVE  EditInv'
        <3>1. task \in Early /\ task' # "cleanup" /\ result' = Record(result, "pii_scan")
            BY <2>2 DEF ScanEnds, Proceed, Early, Before
        <3> QED BY <3>1, EarlyStep
    <2>3. CASE DecisionHeard \/ DecisionTimesOut
        <3>1. task \in Early /\ task' # "cleanup" /\ result' = result
            BY <2>3 DEF DecisionHeard, DecisionTimesOut, EndsWith, Proceed, Early, Before
        <3> QED BY <3>1, EarlyStep
    <2>4. CASE DoclingEnds \/ DoclingOcrEnds
        <3>1. task \in Early /\ task' # "cleanup"
            BY <2>4 DEF DoclingEnds, DoclingOcrEnds, ShowExtraction, EndsWith, Proceed, Early
        <3>2. \/ result' = result
              \/ \E step \in {"docling", "docling_ocr"} :
                    \/ result' = Extracted(result, step)
                    \/ result' = Record(Extracted(result, step), step)
            BY <2>4 DEF DoclingEnds, DoclingOcrEnds, DoclingStep, DoclingOcrStep, OcrFailures
        <3> QED BY <3>1, <3>2, EarlyStep
    <2>5. ASSUME NEW i \in DOMAIN Chain, ChainStepEnds(i)
          PROVE  EditInv'
        BY <2>5, ChainEdits
    <2>6. CASE UploadEnds \/ PipelineTimesOut \/ Leave
        BY <1>1, <2>6 DEF UploadEnds, PipelineTimesOut, Leave, EndsWith
    <2> QED BY <1>2, <2>1, <2>2, <2>3, <2>4, <2>5, <2>6 DEF TaskNext
<1>3. CASE EvictExpired
    BY <1>1, <1>3 DEF EvictExpired, CancelTask
<1>4. CASE \/ Lookup \/ (\E verdict \in {"approved", "denied"} : Decide(verdict)) \/ Tick
           \/ UNCHANGED vars
    BY <1>1, <1>4 DEF Lookup, Decide, Tick, vars
<1> QED BY <1>2, <1>3, <1>4 DEF Next

(* A session starts with an empty result.                                  *)
LEMMA EditsInitial == TypeOK /\ Init => EditInv
<1> SUFFICES ASSUME TypeOK, Init
             PROVE  EditInv
    OBVIOUS
<1>1. result = EmptyResult /\ task = "starting"
    BY DEF Init
<1>2. <<>> \in Text
    BY EmptySeq DEF Text
<1>3. result \in Results /\ Agrees(result)
    BY <1>1, <1>2 DEF EmptyResult, Results, Agrees, Paged, VersionNames
<1>4. \A v \in VersionNames : ~Has(result, v)
    BY <1>1 DEF EmptyResult, Has
<1>5. StepsOf(result) = {}
    BY <1>1 DEF StepsOf, EmptyResult
<1>6. Stage(task, result)
    BY <1>1, <1>4, <1>5 DEF Stage, VersionNames
<1> QED BY <1>3, <1>5, <1>6 DEF EditInv, Carried

(* The invariant holds in every reachable state of a session.              *)
LEMMA EditInvHolds == Spec => []EditInv
<1>1. Spec => TypeOK
    BY ViewerTyped, PTL
<1>2. Init /\ TypeOK => EditInv
    BY EditsInitial
<1> QED BY <1>1, <1>2, ViewerTyped, EditsKept, PTL DEF Spec

(* No failure of a step loses an edit: the pages and the document of a     *)
(* version agree, and the newest version carries every step that rewrote   *)
(* the text, whatever failed, was skipped, timed out or was cancelled.     *)
THEOREM NoEditIsEverLost == Spec => []NoEditIsLost
<1>1. EditInv => NoEditIsLost
    BY DEF EditInv, NoEditIsLost, Agrees, Carried, Paged
<1> QED BY <1>1, EditInvHolds, PTL

-----------------------------------------------------------------------------
(* The view is a recursive function over the events handled so far. That   *)
(* it exists and is unique is shown by induction on how many there are; a  *)
(* set without a least number is empty, which needs no schema.             *)
LEMMA Induct ==
    ASSUME NEW S, 0 \in S, \A n \in Nat : n \in S => n + 1 \in S
    PROVE  Nat \subseteq S
<1> SUFFICES ASSUME NEW k \in Nat, k \notin S
             PROVE  FALSE
    OBVIOUS
<1> DEFINE Rest == {n \in Nat : n \notin S}
<1>1. IsWellFoundedOn(OpToRel(<, Nat), Nat)
    BY NatLessThanWellFounded
<1>2. PICK m \in Rest : \A n \in Rest : <<n, m>> \notin OpToRel(<, Nat)
    <2>1. Rest \subseteq Nat /\ Rest # {}
        OBVIOUS
    <2> QED BY <1>1, <2>1, WFMin
<1>3. \A n \in Rest : ~(n < m)
    BY <1>2 DEF OpToRel
<1>4. m \in Nat /\ m # 0 /\ m \notin S
    OBVIOUS
<1>5. m - 1 \in Nat /\ m - 1 < m /\ (m - 1) + 1 = m
    BY <1>4
<1>6. m - 1 \in S
    BY <1>3, <1>5
<1> QED BY <1>4, <1>5, <1>6

IsView(f, events, n) ==
    f = [k \in 0..n |-> IF k = 0 THEN EmptyResult ELSE Apply(f[k - 1], events[k])]

(* Two views of the same events agree.                                     *)
LEMMA ViewsAgree ==
    ASSUME NEW events, NEW others, NEW m \in Nat, NEW n \in Nat, m <= n, NEW f, NEW g,
           IsView(f, events, m), IsView(g, others, n),
           \A k \in 1..m : events[k] = others[k]
    PROVE  \A k \in 0..m : f[k] = g[k]
<1> DEFINE S == {k \in Nat : k <= m => f[k] = g[k]}
<1>1. 0 \in S
    <2>1. 0 \in 0..m /\ 0 \in 0..n
        OBVIOUS
    <2>2. f[0] = EmptyResult /\ g[0] = EmptyResult
        BY <2>1 DEF IsView
    <2> QED BY <2>2
<1>2. ASSUME NEW k \in Nat, k \in S
      PROVE  k + 1 \in S
    <2> SUFFICES ASSUME k + 1 <= m
                 PROVE  f[k + 1] = g[k + 1]
        OBVIOUS
    <2>1. k + 1 \in 0..m /\ k + 1 \in 0..n /\ k + 1 # 0 /\ (k + 1) - 1 = k /\ k + 1 \in 1..m
        OBVIOUS
    <2>2. f[k + 1] = Apply(f[k], events[k + 1]) /\ g[k + 1] = Apply(g[k], others[k + 1])
        BY <2>1 DEF IsView
    <2>3. f[k] = g[k]
        BY <1>2
    <2> QED BY <2>1, <2>2, <2>3
<1>3. Nat \subseteq S
    <2> HIDE DEF S
    <2> QED BY <1>1, <1>2, Induct
<1> QED BY <1>3

(* A view of some events goes on with the next one.                        *)
LEMMA ViewGoesOn ==
    ASSUME NEW events, NEW n \in Nat, NEW f, IsView(f, events, n)
    PROVE  \E g : IsView(g, events, n + 1)
<1> DEFINE g == [k \in 0..(n + 1) |-> IF k <= n THEN f[k] ELSE Apply(f[n], events[n + 1])]
           h == [k \in 0..(n + 1) |-> IF k = 0 THEN EmptyResult ELSE Apply(g[k - 1], events[k])]
<1>1. ASSUME NEW k \in 0..(n + 1)
      PROVE  g[k] = h[k]
    <2>1. CASE k = 0
        <3>1. 0 \in 0..n /\ 0 \in 0..(n + 1)
            OBVIOUS
        <3>2. f[0] = EmptyResult
            BY <3>1 DEF IsView
        <3>3. g[0] = f[0] /\ h[0] = EmptyResult
            BY <3>1
        <3> QED BY <2>1, <3>2, <3>3
    <2>2. CASE k # 0 /\ k <= n
        <3>1. k \in 0..n /\ k - 1 \in 0..(n + 1) /\ k - 1 <= n
            BY <2>2
        <3>2. f[k] = Apply(f[k - 1], events[k])
            BY <2>2, <3>1 DEF IsView
        <3>3. g[k] = f[k] /\ g[k - 1] = f[k - 1]
            BY <2>2, <3>1
        <3>4. h[k] = Apply(g[k - 1], events[k])
            BY <2>2
        <3> QED BY <3>2, <3>3, <3>4
    <2>3. CASE k = n + 1
        <3>1. n \in 0..(n + 1) /\ n <= n /\ k # 0 /\ k - 1 = n /\ ~(k <= n)
            BY <2>3
        <3>2. g[n] = f[n] /\ g[k] = Apply(f[n], events[n + 1])
            BY <3>1
        <3>3. h[k] = Apply(g[k - 1], events[k])
            BY <3>1
        <3> QED BY <2>3, <3>1, <3>2, <3>3
    <2> QED BY <2>1, <2>2, <2>3
<1>2. g = h
    <2> HIDE DEF g
    <2>1. g = [k \in 0..(n + 1) |-> g[k]]
        BY DEF g
    <2> HIDE DEF h
    <2>2. h = [k \in 0..(n + 1) |-> h[k]]
        BY DEF h
    <2> QED BY <1>1, <2>1, <2>2
<1>3. IsView(g, events, n + 1)
    <2> HIDE DEF g
    <2> QED BY <1>2 DEF IsView
<1> QED BY <1>3

(* Any events have a view.                                                 *)
LEMMA ViewExists == \A events : \A n \in Nat : \E f : IsView(f, events, n)
<1> SUFFICES ASSUME NEW events
             PROVE  \A n \in Nat : \E f : IsView(f, events, n)
    OBVIOUS
<1> DEFINE S == {n \in Nat : \E f : IsView(f, events, n)}
<1>1. 0 \in S
    <2> DEFINE f == [k \in 0..0 |-> EmptyResult]
    <2>1. f = [k \in 0..0 |-> IF k = 0 THEN EmptyResult ELSE Apply(f[k - 1], events[k])]
        OBVIOUS
    <2> HIDE DEF f
    <2>2. IsView(f, events, 0)
        BY <2>1 DEF IsView
    <2> QED BY <2>2
<1>2. ASSUME NEW n \in Nat, n \in S
      PROVE  n + 1 \in S
    BY <1>2, ViewGoesOn
<1> HIDE DEF S
<1>3. Nat \subseteq S
    BY <1>1, <1>2, Induct
<1> QED BY <1>3 DEF S

(* Handling one more event applies it to the view.                         *)
LEMMA ViewAppends ==
    ASSUME NEW S, NEW events \in Seq(S), NEW e
    PROVE  ViewOf(Append(events, e)) = Apply(ViewOf(events), e)
<1> DEFINE more == Append(events, e)
           n == Len(events)
           f == CHOOSE v : IsView(v, events, n)
           g == CHOOSE v : IsView(v, more, n + 1)
<1>1. n \in Nat /\ Len(more) = n + 1 /\ more[n + 1] = e /\ \A k \in 1..n : events[k] = more[k]
    OBVIOUS
<1> HIDE DEF more, n
<1>2. IsView(f, events, n) /\ IsView(g, more, n + 1)
    <2>1. n + 1 \in Nat
        BY <1>1
    <2>2. (\E v : IsView(v, events, n)) /\ (\E v : IsView(v, more, n + 1))
        BY <1>1, <2>1, ViewExists
    <2> QED BY <2>2
<1>3. ViewOf(events) = f[n] /\ ViewOf(more) = g[n + 1]
    BY <1>1 DEF ViewOf, IsView, n
<1> HIDE DEF f, g
<1>4. f[n] = g[n]
    <2>1. \A k \in 0..n : f[k] = g[k]
        BY <1>1, <1>2, ViewsAgree
    <2> QED BY <1>1, <2>1
<1>5. g[n + 1] = Apply(g[n], more[n + 1])
    <2>1. n + 1 \in 0..(n + 1) /\ n + 1 # 0 /\ (n + 1) - 1 = n
        BY <1>1
    <2> QED BY <1>2, <2>1 DEF IsView
<1> QED BY <1>1, <1>3, <1>4, <1>5 DEF more

(* A shown result is the session's own: nothing is shown before the first  *)
(* "init" event, which carries the whole result.                           *)
Quiet == Before \cup {"docling", "docling_ocr"}
ViewInv ==
    /\ BufferOK
    /\ task \in Quiet => ~Shown
    /\ Shown => View = result

\* what an event does to the view, and to whether there is one
Shows(e) == e.type = "init"
Ignored(e) == e.type \notin {"init", "step", "pii_scan"}

(* One more event.                                                         *)
LEMMA OneMore ==
    ASSUME NEW S, NEW events \in Seq(S), NEW e
    PROVE  /\ Append(events, e) \in Seq(S \cup {e})
           /\ (\E i \in DOMAIN Append(events, e) : Append(events, e)[i].type = "init")
                <=> (\E i \in DOMAIN events : events[i].type = "init") \/ Shows(e)
           /\ ViewOf(Append(events, e)) = Apply(ViewOf(events), e)
<1> DEFINE more == Append(events, e)
           n == Len(events)
<1>1. events \in Seq(S \cup {e})
    <2>1. \A i \in 1..Len(events) : events[i] \in S \cup {e}
        BY ElementOfSeq
    <2> QED BY <2>1, SeqMonotonic
<1>2. /\ more \in Seq(S \cup {e}) /\ n \in Nat
      /\ DOMAIN more = 1..(n + 1) /\ DOMAIN events = 1..n
      /\ more[n + 1] = e /\ \A i \in 1..n : more[i] = events[i]
    BY <1>1
<1>3. ViewOf(more) = Apply(ViewOf(events), e)
    BY ViewAppends
<1> HIDE DEF more, n
<1>4. (\E i \in DOMAIN more : more[i].type = "init")
        <=> (\E i \in DOMAIN events : events[i].type = "init") \/ Shows(e)
    <2>1. \A i \in 1..(n + 1) : i \in 1..n \/ i = n + 1
        BY <1>2
    <2>2. 1..n \subseteq 1..(n + 1) /\ n + 1 \in 1..(n + 1)
        BY <1>2
    <2> QED BY <1>2, <2>1, <2>2 DEF Shows
<1> QED BY <1>2, <1>3, <1>4 DEF more

(* Appending one event, two, or one and then "done".                       *)
LEMMA ShownAfter ==
    ASSUME BufferOK
    PROVE  /\ \A e : buffer' = buffer \o <<e>> =>
                 /\ BufferOK' /\ (Shown' <=> Shown \/ Shows(e))
                 /\ View' = Apply(View, e)
           /\ \A d, e : buffer' = buffer \o <<d, e>> =>
                 /\ BufferOK' /\ (Shown' <=> Shown \/ Shows(d) \/ Shows(e))
                 /\ View' = Apply(Apply(View, d), e)
<1>1. PICK S : buffer \in Seq(S)
    BY DEF BufferOK
<1>2. ASSUME NEW e, buffer' = buffer \o <<e>>
      PROVE  /\ BufferOK' /\ (Shown' <=> Shown \/ Shows(e))
             /\ View' = Apply(View, e)
    <2>1. buffer' = Append(buffer, e)
        BY <1>1, <1>2
    <2> QED BY <1>1, <2>1, OneMore DEF BufferOK, Shown, View
<1>3. ASSUME NEW d, NEW e, buffer' = buffer \o <<d, e>>
      PROVE  /\ BufferOK' /\ (Shown' <=> Shown \/ Shows(d) \/ Shows(e))
             /\ View' = Apply(Apply(View, d), e)
    <2> DEFINE half == Append(buffer, d)
    <2>1. buffer' = Append(half, e)
        BY <1>1, <1>3
    <2>2. /\ half \in Seq(S \cup {d})
          /\ (\E i \in DOMAIN half : half[i].type = "init") <=> Shown \/ Shows(d)
          /\ ViewOf(half) = Apply(View, d)
        BY <1>1, OneMore DEF Shown, View
    <2> DEFINE T == S \cup {d}
    <2> HIDE DEF half, T
    <2>4. /\ Append(half, e) \in Seq(T \cup {e})
          /\ (\E i \in DOMAIN Append(half, e) : Append(half, e)[i].type = "init")
                <=> (\E i \in DOMAIN half : half[i].type = "init") \/ Shows(e)
          /\ ViewOf(Append(half, e)) = Apply(ViewOf(half), e)
        <3>1. half \in Seq(T)
            BY <2>2 DEF T
        <3> QED BY <3>1, OneMore
    <2>3. /\ buffer' \in Seq(T \cup {e})
          /\ Shown' <=> (\E i \in DOMAIN half : half[i].type = "init") \/ Shows(e)
          /\ View' = Apply(ViewOf(half), e)
        BY <2>1, <2>4 DEF Shown, View
    <2> QED BY <2>2, <2>3 DEF BufferOK
<1> QED BY <1>2, <1>3

(* The events that leave the view as it is.                                *)
LEMMA IgnoredEvents ==
    /\ Ignored(Done) /\ Ignored(Approved) /\ (\A r : Ignored(Denied(r)))
    /\ \A s : Ignored(Failed(s))
    /\ \A e, v : Ignored(e) => ~Shows(e) /\ Apply(v, e) = v
    /\ \A r, v : Shows(InitEvent(r)) /\ Apply(v, InitEvent(r)) = r
    /\ \A s, r : ~Shows(StepEvent(s, r))
    /\ \A f : ~Shows([type |-> "pii_scan", awaiting |-> f])
BY DEF Ignored, Shows, Done, Event, Approved, Denied, Failed, InitEvent, StepEvent, Apply

(* Merging the new values of some keys into the old function gives the new *)
(* one, if it has no other new values.                                     *)
LEMMA Merged ==
    ASSUME NEW D, NEW T, NEW old \in [D -> T], NEW new \in [D -> T], NEW part,
           DOMAIN part \in SUBSET D, \A k \in DOMAIN part : part[k] = new[k],
           \A k \in D \ DOMAIN part : new[k] = old[k]
    PROVE  Spread(old, part) = new
<1> DEFINE keys == DOMAIN part
<1>1. Spread(old, part) = [k \in D |-> IF k \in keys THEN part[k] ELSE old[k]]
    BY DEF Spread
<1>2. \A k \in D : (IF k \in keys THEN part[k] ELSE old[k]) = new[k]
    OBVIOUS
<1>3. [k \in D |-> IF k \in keys THEN part[k] ELSE old[k]] = [k \in D |-> new[k]]
    BY <1>2
<1> QED BY <1>1, <1>3

(* The event of a step carries what the step wrote.                        *)
LEMMA StepShows ==
    ASSUME NEW r \in Results, NEW s, NEW step, Writes(r, s, NewVersions(step, s), step)
    PROVE  Apply(r, StepEvent(step, s)) = s
<1> DEFINE W == NewVersions(step, s)
           P == NewPages(step, s)
           e == StepEvent(step, s)
<1>1. /\ s \in Results /\ s.steps = Append(r.steps, step)
      /\ \A v \in VersionNames \ W : s.versions[v] = r.versions[v]
      /\ \A v \in Paged \ W : s.pages[v] = r.pages[v]
    BY DEF Writes
<1>2. W \in SUBSET VersionNames
    BY DEF NewVersions, PagedSource, VersionNames
<1>3. P \in SUBSET Paged /\ \A v \in Paged \ P : s.pages[v] = r.pages[v]
    BY <1>1 DEF NewPages, Paged
<1>4. /\ e.type = "step" /\ e.step = s.steps[Len(s.steps)]
      /\ e.versions = [v \in W |-> s.versions[v]] /\ e.pages = [v \in P |-> s.pages[v]]
    BY DEF StepEvent
<1> HIDE DEF W, P, e
<1>5. Spread(r.versions, e.versions) = s.versions
    <2>1. r.versions \in [VersionNames -> Text] /\ s.versions \in [VersionNames -> Text]
        BY <1>1 DEF Results
    <2>2. \A v \in VersionNames \ W : s.versions[v] = r.versions[v]
        BY <1>1
    <2>3. DOMAIN e.versions = W /\ \A v \in W : e.versions[v] = s.versions[v]
        BY <1>4
    <2> DEFINE old == r.versions
               new == s.versions
               part == e.versions
    <2>4. /\ old \in [VersionNames -> Text] /\ new \in [VersionNames -> Text]
          /\ DOMAIN part \in SUBSET VersionNames
          /\ \A v \in DOMAIN part : part[v] = new[v]
          /\ \A v \in VersionNames \ DOMAIN part : new[v] = old[v]
        BY <1>2, <2>1, <2>2, <2>3
    <2> HIDE DEF old, new, part
    <2>5. Spread(old, part) = new
        BY <2>4, Merged
    <2> QED BY <2>5 DEF old, new, part
<1>6. Spread(r.pages, e.pages) = s.pages
    <2>1. r.pages \in [Paged -> Text] /\ s.pages \in [Paged -> Text]
        BY <1>1 DEF Results
    <2>2. \A v \in Paged \ P : s.pages[v] = r.pages[v]
        BY <1>3
    <2>3. DOMAIN e.pages = P /\ \A v \in P : e.pages[v] = s.pages[v]
        BY <1>4
    <2> DEFINE old == r.pages
               new == s.pages
               part == e.pages
    <2>4. /\ old \in [Paged -> Text] /\ new \in [Paged -> Text] /\ DOMAIN part \in SUBSET Paged
          /\ \A v \in DOMAIN part : part[v] = new[v]
          /\ \A v \in Paged \ DOMAIN part : new[v] = old[v]
        BY <1>3, <2>1, <2>2, <2>3
    <2> HIDE DEF old, new, part
    <2>5. Spread(old, part) = new
        BY <2>4, Merged
    <2> QED BY <2>5 DEF old, new, part
<1>7. Append(r.steps, e.step) = s.steps
    <2>1. r.steps \in Seq(Names)
        BY DEF Results, Text
    <2>2. Append(r.steps, step)[Len(Append(r.steps, step))] = step
        BY <2>1
    <2> QED BY <1>1, <1>4, <2>2
<1>8. Apply(r, e) = [versions |-> s.versions, pages |-> s.pages, steps |-> s.steps]
    BY <1>4, <1>5, <1>6, <1>7 DEF Apply
<1>9. s = [versions |-> s.versions, pages |-> s.pages, steps |-> s.steps]
    BY <1>1 DEF Results
<1> QED BY <1>8, <1>9 DEF e

(* A step of the chain, as a browser sees it.                              *)
LEMMA ChainShows ==
    ASSUME TypeOK, EditInv, ViewInv, NEW i \in DOMAIN Chain, ChainStepEnds(i)
    PROVE  ViewInv'
<1>1. BufferOK /\ (Shown => View = result) /\ result \in Results
    BY DEF ViewInv, EditInv
<1>2. task' \notin Quiet
    BY AfterIs DEF ChainStepEnds, Proceed, Quiet, Before
<1>3. CASE UNCHANGED result /\ Proceed(task', <<Failed(Chain[i])>>)
    BY <1>1, <1>2, <1>3, ShownAfter, IgnoredEvents DEF Proceed, ViewInv
<1>4. CASE result' = StepEffect(Chain[i]) /\ Proceed(task', <<StepEvent(Chain[i], result')>>)
    <2>1. Writes(result, result', NewVersions(Chain[i], result'), Chain[i])
        <3>1. CASE i # 1
            BY <1>4, <3>1, EffectIs DEF ChainStepEnds
        <3>2. CASE i = 1
            <4>1. Chain[i] = "structure" /\ result' = Record(result, "structure")
                BY <1>4, <3>2, ChainIs DEF StepEffect, StructureStep
            <4>2. NewVersions(Chain[i], result') = {} /\ "structure" \in Names
                BY <4>1, PlainNames DEF NewVersions
            <4> QED BY <1>1, <4>1, <4>2, Recorded
        <3> QED BY <3>1, <3>2
    <2>2. Apply(result, StepEvent(Chain[i], result')) = result'
        BY <1>1, <2>1, StepShows
    <2>3. /\ BufferOK' /\ (Shown' <=> Shown)
          /\ View' = Apply(View, StepEvent(Chain[i], result'))
        BY <1>1, <1>4, ShownAfter, IgnoredEvents DEF Proceed
    <2> QED BY <1>1, <1>2, <2>2, <2>3 DEF ViewInv
<1> QED BY <1>3, <1>4 DEF ChainStepEnds, Proceed

(* Every step of a session keeps the view.                                 *)
LEMMA ViewKept == TypeOK /\ EditInv /\ ViewInv /\ [Next]_vars => ViewInv'
<1> SUFFICES ASSUME TypeOK, EditInv, ViewInv, [Next]_vars
             PROVE  ViewInv'
    OBVIOUS
<1>1. BufferOK /\ (task \in Quiet => ~Shown) /\ (Shown => View = result)
    BY DEF ViewInv
<1>2. ASSUME UNCHANGED <<result, buffer>>, task' \in {"leaving", "ended", task}
      PROVE  ViewInv'
    BY <1>1, <1>2 DEF ViewInv, BufferOK, Shown, View, Quiet, Before
<1>3. ASSUME NEW outcome, NEW e, Ignored(e), UNCHANGED result \/ ~Shown,
             EndsWith(outcome, <<>>) \/ EndsWith(outcome, <<e>>)
      PROVE  ViewInv'
    <2>1. task' = "leaving" /\ (buffer' = buffer \o <<Done>> \/ buffer' = buffer \o <<e, Done>>)
        BY <1>3 DEF EndsWith
    <2>2. BufferOK' /\ (Shown' <=> Shown) /\ View' = View
        BY <1>1, <1>3, <2>1, ShownAfter, IgnoredEvents
    <2> QED BY <1>1, <1>3, <2>1, <2>2 DEF ViewInv, Quiet, Before
<1>4. ASSUME NEW next, ~Shown, \/ Proceed(next, <<>>)
                               \/ Proceed(next, <<Approved>>)
                               \/ \E f : Proceed(next, <<[type |-> "pii_scan", awaiting |-> f]>>)
      PROVE  ViewInv'
    <2>1. CASE Proceed(next, <<>>)
        <3>1. buffer' = buffer
            BY <1>1, <2>1 DEF Proceed, BufferOK
        <3> QED BY <1>1, <1>4, <3>1 DEF ViewInv, BufferOK, Shown
    <2>2. CASE \E e : ~Shows(e) /\ buffer' = buffer \o <<e>>
        <3>1. PICK e : ~Shows(e) /\ buffer' = buffer \o <<e>>
            BY <2>2
        <3>2. BufferOK' /\ ~Shown'
            BY <1>1, <1>4, <3>1, ShownAfter
        <3> QED BY <3>2 DEF ViewInv
    <2> QED BY <1>4, <2>1, <2>2, IgnoredEvents DEF Proceed
<1>5. ASSUME ShowExtraction(result')
      PROVE  ViewInv'
    <2>1. task' = "structure" /\ buffer' = buffer \o <<InitEvent(result')>>
        BY <1>5 DEF ShowExtraction, Proceed
    <2>2. BufferOK' /\ View' = result'
        BY <1>1, <2>1, ShownAfter, IgnoredEvents
    <2> QED BY <2>1, <2>2 DEF ViewInv, Quiet, Before
<1>6. CASE TaskNext
    <2>1. CASE Begin
        <3>1. ~Shown
            BY <1>1, <2>1 DEF Begin, Quiet, Before
        <3>2. CASE EndsWith("completed", <<InitEvent(result')>>)
            <4>1. task' = "leaving" /\ buffer' = buffer \o <<InitEvent(result'), Done>>
                BY <3>2 DEF EndsWith
            <4>2. BufferOK' /\ View' = Apply(Apply(View, InitEvent(result')), Done)
                BY <1>1, <4>1, ShownAfter
            <4>3. View' = result'
                BY <4>2, IgnoredEvents
            <4> QED BY <4>1, <4>2, <4>3 DEF ViewInv, Quiet, Before
        <3>3. CASE EndsWith("error", <<Failed("pipeline")>>)
            BY <1>3, <3>1, <3>3, IgnoredEvents
        <3> QED BY <1>4, <2>1, <3>1, <3>2, <3>3 DEF Begin
    <2>2. ASSUME NEW findings \in BOOLEAN, ScanEnds(findings)
          PROVE  ViewInv'
        <3>1. ~Shown
            BY <1>1, <2>2 DEF ScanEnds, Quiet, Before
        <3>2. \E next, f : Proceed(next, <<[type |-> "pii_scan", awaiting |-> f]>>)
            BY <2>2 DEF ScanEnds
        <3> QED BY <1>4, <3>1, <3>2
    <2>3. CASE DecisionHeard \/ DecisionTimesOut
        <3>1. ~Shown /\ UNCHANGED result
            BY <1>1, <2>3 DEF DecisionHeard, DecisionTimesOut, Quiet, Before
        <3>2. \/ Proceed("docling", <<Approved>>)
              \/ \E r : EndsWith("completed", <<Denied(r)>>)
            BY <2>3 DEF DecisionHeard, DecisionTimesOut
        <3> QED BY <1>3, <1>4, <3>1, <3>2, IgnoredEvents
    <2>4. CASE DoclingEnds
        <3>1. ~Shown
            BY <1>1, <2>4 DEF DoclingEnds, Quiet
        <3> QED BY <1>3, <1>4, <1>5, <2>4, <3>1, IgnoredEvents DEF DoclingEnds
    <2>5. CASE DoclingOcrEnds
        <3>1. CASE Proceed("structure", <<Failed("docling_ocr"), InitEvent(result')>>)
            <4>1. task' = "structure"
                  /\ buffer' = buffer \o <<Failed("docling_ocr"), InitEvent(result')>>
                BY <3>1 DEF Proceed
            <4>2. BufferOK' /\ View' = result'
                BY <1>1, <4>1, ShownAfter, IgnoredEvents
            <4> QED BY <4>1, <4>2 DEF ViewInv, Quiet, Before
        <3> QED BY <1>5, <2>5, <3>1 DEF DoclingOcrEnds
    <2>6. ASSUME NEW i \in DOMAIN Chain, ChainStepEnds(i)
          PROVE  ViewInv'
        BY <2>6, ChainShows
    <2>7. CASE UploadEnds \/ PipelineTimesOut
        <3>1. UNCHANGED result /\ (\E outcome, s : \/ EndsWith(outcome, <<>>)
                                                   \/ EndsWith(outcome, <<Failed(s)>>))
            BY <2>7 DEF UploadEnds, PipelineTimesOut
        <3> QED BY <1>3, <3>1, IgnoredEvents
    <2>8. CASE Leave
        BY <1>2, <2>8 DEF Leave
    <2> QED BY <1>6, <2>1, <2>2, <2>3, <2>4, <2>5, <2>6, <2>7, <2>8 DEF TaskNext
<1>7. CASE EvictExpired
    BY <1>2, <1>7 DEF EvictExpired, CancelTask
<1>8. CASE \/ Lookup \/ (\E verdict \in {"approved", "denied"} : Decide(verdict)) \/ Tick
           \/ UNCHANGED vars
    BY <1>2, <1>8 DEF Lookup, Decide, Tick, vars
<1> QED BY <1>6, <1>7, <1>8 DEF Next

(* A browser that has handled the events of a session shows the versions,  *)
(* the pages and the steps of its result: after the "done" event, as the   *)
(* model states it, and in fact after every event since the first "init".  *)
THEOREM ViewAlwaysMatches == Spec => []ViewMatches
<1>1. Init => ViewInv
    <2> SUFFICES ASSUME Init
                 PROVE  ViewInv
        OBVIOUS
    <2>1. buffer = <<Event("session")>>
        BY DEF Init
    <2>2. buffer \in Seq({Event("session")}) /\ DOMAIN buffer = {1} /\ buffer[1].type = "session"
        BY <2>1 DEF Event
    <2> QED BY <2>2 DEF ViewInv, BufferOK, Shown
<1>2. ViewInv => ViewMatches
    BY DEF ViewInv, ViewMatches
<1> QED BY <1>1, <1>2, ViewerTyped, EditInvHolds, ViewKept, PTL DEF Spec
=============================================================================
