-------------------------- MODULE JobStream_proofs --------------------------
(***************************************************************************)
(* Theorems about JobStream, for any finite set of tasks, any choice of    *)
(* the features and any number of faults: the registry, the gauge, the     *)
(* progress and what a stream delivers, whatever interleaving, failed call *)
(* or crash.                                                               *)
(***************************************************************************)
EXTENDS JobStream, FiniteSetTheorems, SequenceTheorems, TLAPS

Names == {"docling", "docling_ocr", "structure", "heading_reconciliation", "heading_levels",
          "page_content", "code_blocks", "boundaries", "cleanup"}

(* Appending to a sequence that is not empty leaves its first element.     *)
LEMMA FirstStays ==
    ASSUME NEW s \in Seq(Names), NEW t \in Seq(Names), Len(s) >= 1
    PROVE  s \o t \in Seq(Names) /\ Len(s \o t) >= 1 /\ (s \o t)[1] = s[1]
<1>1. Len(s) \in Nat /\ Len(t) \in Nat
    BY LenProperties
<1>2. Len(s \o t) = Len(s) + Len(t) /\ s \o t \in Seq(Names)
    BY ConcatProperties
<1>3. 1 \in 1..(Len(s) + Len(t)) /\ 1 <= Len(s)
    BY <1>1
<1> QED BY <1>1, <1>2, <1>3, ConcatProperties

(* The chain of any configuration is made of these phases, docling first.  *)
LEMMA ChainNames == Chain \in Seq(Names) /\ Len(Chain) >= 1 /\ Chain[1] = "docling"
<1> DEFINE none == <<>>
           A == <<"docling">>
           B == IF "structure" \in Features
                THEN <<"structure", "heading_reconciliation", "heading_levels">> ELSE <<>>
           C == IF {"structure", "page_content"} \subseteq Features
                THEN <<"page_content", "code_blocks">> ELSE <<>>
           D == IF {"structure", "boundaries"} \subseteq Features
                THEN <<"boundaries", "cleanup">> ELSE <<>>
<1>1. none \in Seq(Names)
    BY EmptySeq
<1>2. A \in Seq(Names) /\ Len(A) >= 1 /\ A[1] = "docling"
    BY DEF Names
<1>3. B \in Seq(Names)
    <2>1. <<"structure", "heading_reconciliation", "heading_levels">> \in Seq(Names)
        BY DEF Names
    <2> QED BY <1>1, <2>1
<1>4. C \in Seq(Names)
    <2>1. <<"page_content", "code_blocks">> \in Seq(Names)
        BY DEF Names
    <2> QED BY <1>1, <2>1
<1>5. D \in Seq(Names)
    <2>1. <<"boundaries", "cleanup">> \in Seq(Names)
        BY DEF Names
    <2> QED BY <1>1, <2>1
<1>6. Chain = A \o B \o C \o D
    BY DEF Chain
<1> HIDE DEF A, B, C, D
<1>7. A \o B \in Seq(Names) /\ Len(A \o B) >= 1 /\ (A \o B)[1] = "docling"
    BY <1>2, <1>3, FirstStays
<1>8. /\ A \o B \o C \in Seq(Names) /\ Len(A \o B \o C) >= 1
      /\ (A \o B \o C)[1] = "docling"
    BY <1>4, <1>7, FirstStays
<1>9. /\ A \o B \o C \o D \in Seq(Names) /\ Len(A \o B \o C \o D) >= 1
      /\ (A \o B \o C \o D)[1] = "docling"
    BY <1>5, <1>8, FirstStays
<1> QED BY <1>6, <1>9

(* So a phase is none of the states in which a task is not at work.        *)
LEMMA PhaseNames ==
    /\ Len(Chain) \in Nat /\ DOMAIN Chain = 1..Len(Chain)
    /\ \A i \in 1..Len(Chain) : Chain[i] \in Phases
    /\ "docling" \in Phases /\ "docling_ocr" \in Phases
    /\ Phases \subseteq Names
<1>1. Len(Chain) \in Nat /\ DOMAIN Chain = 1..Len(Chain)
    BY ChainNames, LenProperties
<1>2. \A i \in 1..Len(Chain) : Chain[i] \in Names
    BY ChainNames, ElementOfSeq
<1>3. Chain[1] = "docling" /\ 1 \in 1..Len(Chain)
    BY <1>1, ChainNames
<1> QED BY <1>1, <1>2, <1>3 DEF Phases, Names

-----------------------------------------------------------------------------
(* What a step of a task does to its place, in five kinds.                 *)

Working == Phases \cup {"prepare", "finish", "failing", "complete", "error", "leaving"}
RunsTyped == run \in [Runs -> RunStates]
Same(r) == \A s \in Runs \ {r} : run'[s] = run[s]
Untouched == UNCHANGED <<registry, gauge, leaked, overlapped>>

(* A task at work is in none of the other places.                          *)
LEMMA WorkingNames ==
    /\ Working \cap {"idle", "count", "lingering", "ended"} = {}
    /\ Working \subseteq RunSteps
    /\ {"idle", "count", "lingering", "ended"} \subseteq RunSteps
BY PhaseNames DEF Working, RunSteps, Names

(* A step of one task leaves the other tasks where they are.               *)
LEMMA Moved ==
    ASSUME RunsTyped, NEW r \in Runs, NEW x \in RunStates, run' = [run EXCEPT ![r] = x]
    PROVE  RunsTyped' /\ run'[r] = x /\ Same(r)
BY DEF RunsTyped, Same

(* Goes changes the place of the task, and Emit its counters as well.      *)
LEMMA Went ==
    ASSUME RunsTyped, NEW r \in Runs, NEW step \in RunSteps, Goes(r, step)
    PROVE  RunsTyped' /\ run'[r].at = step /\ Same(r)
<1> DEFINE x == [run[r] EXCEPT !.at = step]
<1>1. x \in RunStates /\ x.at = step
    BY DEF RunsTyped, RunStates
<1>2. run' = [run EXCEPT ![r] = x]
    BY DEF Goes, RunsTyped
<1> HIDE DEF x
<1> QED BY <1>1, <1>2, Moved

(* Emit changes the place and the counters of one task.                    *)
LEMMA Emitted ==
    ASSUME RunsTyped, NEW r \in Runs, NEW phase \in Phases, NEW more \in Nat, Emit(r, phase, more)
    PROVE  RunsTyped' /\ run'[r].at = phase /\ Same(r)
<1> DEFINE x == [at |-> phase, step |-> run[r].step + 1, total |-> run[r].total + more]
<1>1. phase \in RunSteps
    BY DEF RunSteps
<1>2. run[r].step \in Nat /\ run[r].total \in Nat
    BY DEF RunsTyped, RunStates
<1>3. x \in RunStates /\ x.at = phase
    BY <1>1, <1>2 DEF RunStates
<1>4. run' = [run EXCEPT ![r] = x]
    BY DEF Emit
<1> HIDE DEF x
<1> QED BY <1>3, <1>4, Moved

(* After a phase comes another phase of the chain, or the results.         *)
LEMMA FollowGoes ==
    ASSUME NEW r \in Runs, NEW p \in Phases, Follow(r, p)
    PROVE  \/ Goes(r, "finish") /\ UNCHANGED bus
           \/ \E next \in Phases : Emit(r, next, 0)
<1> DEFINE i == IF p = "docling_ocr" THEN 1 ELSE CHOOSE k \in DOMAIN Chain : Chain[k] = p
<1>1. i \in Nat /\ (i # Len(Chain) => i + 1 \in 1..Len(Chain))
    <2>1. \E k \in 1..Len(Chain) : Chain[k] = "docling"
        BY PhaseNames DEF Phases
    <2>2. i \in 1..Len(Chain)
        BY <2>1, PhaseNames DEF Phases
    <2> QED BY <2>2, PhaseNames
<1>2. IF i = Len(Chain) THEN Goes(r, "finish") /\ UNCHANGED bus ELSE Emit(r, Chain[i + 1], 0)
    BY DEF Follow
<1> HIDE DEF i
<1> QED BY <1>1, <1>2, PhaseNames

(* Either way the task is still at work.                                   *)
LEMMA Followed ==
    ASSUME RunsTyped, NEW r \in Runs, NEW p \in Phases, Follow(r, p)
    PROVE  RunsTyped' /\ run'[r].at \in Working /\ Same(r)
BY FollowGoes, Went, Emitted, WorkingNames DEF Working

Starts(r) == run[r].at = "idle" /\ run'[r].at \in {"count", "ended"} /\ Untouched
Works(r) == run[r].at \in Working /\ run'[r].at \in Working /\ Untouched

(* Every step of a task starts it, keeps it at work, or is one of three    *)
(* that change what it is counted or found by.                             *)
LEMMA Kinds ==
    ASSUME RunsTyped, NEW r \in Runs, RunStep(r)
    PROVE  /\ RunsTyped' /\ Same(r)
           /\ \/ Starts(r) \/ Works(r)
              \/ Register(r) /\ run'[r].at = "prepare"
              \/ Uncount(r) /\ run'[r].at = "lingering"
              \/ Unregister(r) /\ run'[r].at = "ended"
<1>1. CASE MarkProcessing(r)
    BY <1>1, Went, WorkingNames DEF MarkProcessing, Starts, Untouched
<1>2. CASE Register(r)
    BY <1>2, Went, WorkingNames DEF Register, Working
<1>3. CASE Prepare(r)
    <2>1. \/ Goes(r, "failing") \/ Goes(r, "leaving") \/ Emit(r, "docling", Len(Chain))
        BY <1>3 DEF Prepare, Raises, Rejects
    <2>2. RunsTyped' /\ Same(r) /\ run'[r].at \in Working
        BY <2>1, Went, Emitted, WorkingNames, PhaseNames DEF Working
    <2> QED BY <1>3, <2>2 DEF Prepare, Rejects, Works, Working, Untouched
<1>4. CASE PhaseEnds(r)
    <2>1. /\ run[r].at \in Phases
          /\ \/ Follow(r, run[r].at) \/ Goes(r, "finish") \/ Emit(r, "docling_ocr", 1)
             \/ Goes(r, "failing")
        BY <1>4 DEF PhaseEnds, EmptyContent, Raises
    <2>2. RunsTyped' /\ Same(r) /\ run'[r].at \in Working
        BY <2>1, Followed, Went, Emitted, WorkingNames, PhaseNames DEF Working
    <2> QED BY <1>4, <2>1, <2>2 DEF PhaseEnds, Works, Working, Untouched
<1>5. CASE Finish(r)
    BY <1>5, Went, WorkingNames DEF Finish, Raises, Works, Working, Untouched
<1>6. CASE Fail(r)
    BY <1>6, Went, WorkingNames DEF Fail, Works, Working, Untouched
<1>9. CASE Announce(r)
    <2>1. Goes(r, "leaving") \/ Goes(r, "failing")
        BY <1>9 DEF Announce, Raises
    <2>2. RunsTyped' /\ Same(r) /\ run'[r].at \in Working
        BY <2>1, Went, WorkingNames DEF Working
    <2> QED BY <1>9, <2>2 DEF Announce, Works, Working, Untouched
<1>7. CASE Uncount(r)
    BY <1>7, Went, WorkingNames DEF Uncount
<1>8. CASE Unregister(r)
    BY <1>8, Went, WorkingNames DEF Unregister
<1> QED BY <1>1, <1>2, <1>3, <1>4, <1>5, <1>6, <1>7, <1>8, <1>9 DEF RunStep

-----------------------------------------------------------------------------
(* Type correctness.                                                       *)
BusTyped == bus \in [Runs -> Seq(EventStates)]

(* A bus only gets events: of a phase, or one of the two that end it.      *)
LEMMA BusAppended ==
    ASSUME BusTyped, NEW r \in Runs, NEW e \in EventStates,
           bus' = [bus EXCEPT ![r] = Append(@, e)]
    PROVE  BusTyped'
<1>1. Append(bus[r], e) \in Seq(EventStates)
    BY AppendProperties DEF BusTyped
<1> QED BY <1>1 DEF BusTyped

(* A progress event is one of these.                                       *)
LEMMA EmittedBus ==
    ASSUME RunsTyped, BusTyped, NEW r \in Runs, NEW phase \in Phases, NEW more \in Nat,
           Emit(r, phase, more)
    PROVE  BusTyped'
<1> DEFINE e == [type |-> phase, step |-> run[r].step + 1, total |-> run[r].total + more]
<1>1. run[r].step \in Nat /\ run[r].total \in Nat
    BY DEF RunsTyped, RunStates
<1>2. e \in EventStates
    BY <1>1 DEF EventStates
<1>3. bus' = [bus EXCEPT ![r] = Append(@, e)]
    BY DEF Emit
<1> HIDE DEF e
<1> QED BY <1>2, <1>3, BusAppended

(* So is the event of the phase that follows.                              *)
LEMMA FollowedBus ==
    ASSUME RunsTyped, BusTyped, NEW r \in Runs, NEW p \in Phases, Follow(r, p)
    PROVE  BusTyped'
BY FollowGoes, EmittedBus DEF BusTyped

(* Every step of a task keeps the buses typed.                             *)
LEMMA BusStep ==
    ASSUME RunsTyped, BusTyped, NEW r \in Runs, RunStep(r)
    PROVE  BusTyped'
<1>1. CASE UNCHANGED bus
    BY <1>1 DEF BusTyped
<1>2. ASSUME NEW type \in {"complete", "error"}, Publishes(r, type)
      PROVE  BusTyped'
    <2>1. [type |-> type] \in EventStates
        BY DEF EventStates
    <2> QED BY <1>2, <2>1, BusAppended DEF Publishes
<1>3. CASE Prepare(r)
    <2>1. UNCHANGED bus \/ Emit(r, "docling", Len(Chain))
        BY <1>3 DEF Prepare, Raises, Rejects
    <2> QED BY <1>1, <2>1, EmittedBus, PhaseNames
<1>4. CASE PhaseEnds(r)
    <2>1. /\ run[r].at \in Phases
          /\ UNCHANGED bus \/ Follow(r, run[r].at) \/ Emit(r, "docling_ocr", 1)
        BY <1>4 DEF PhaseEnds, EmptyContent, Raises
    <2> QED BY <1>1, <2>1, FollowedBus, EmittedBus, PhaseNames
<1>5. CASE Finish(r) \/ Fail(r)
    BY <1>1, <1>5 DEF Finish, Fail, Raises
<1>7. CASE Announce(r)
    <2>1. /\ run[r].at \in {"complete", "error"}
          /\ UNCHANGED bus \/ Publishes(r, run[r].at)
        BY <1>7 DEF Announce, Raises
    <2> QED BY <1>1, <1>2, <2>1
<1>6. CASE MarkProcessing(r) \/ Register(r) \/ Uncount(r) \/ Unregister(r)
    BY <1>1, <1>6 DEF MarkProcessing, Register, Uncount, Unregister
<1> QED BY <1>3, <1>4, <1>5, <1>6, <1>7 DEF RunStep

(* What the tasks, the client and a crash do to the rest of the state.     *)
LEMMA TasksTyped ==
    ASSUME TypeOK, NEW r \in Runs, RunNext(r)
    PROVE  TypeOK'
<1>1. RunsTyped /\ BusTyped /\ RunStep(r) /\ UNCHANGED <<token, asked, client, seen>>
    BY DEF TypeOK, RunsTyped, BusTyped, RunNext, stream
<1>2. RunsTyped' /\ BusTyped'
    BY <1>1, Kinds, BusStep
<1>3. status' \in {"processing_queued", "processing", "denied"} \cup Terminal
    BY <1>1 DEF RunStep, MarkProcessing, Register, Prepare, PhaseEnds, Finish, Fail, Announce,
                Uncount, Unregister, Rejects, Writes, Terminal, TypeOK
<1>4. UNCHANGED faults \/ Fault
    BY <1>1 DEF RunStep, MarkProcessing, Register, Prepare, PhaseEnds, Finish, Fail, Announce,
                Uncount, Unregister, Raises, Count
<1>5. faults' \in 0..MaxFaults
    BY <1>4, StreamAssumption DEF Fault, TypeOK
<1>6. registry' \in Runs \cup {NoRun} /\ overlapped' \subseteq Runs
    <2>1. CASE Register(r)
        BY <2>1 DEF Register, Present, TypeOK
    <2>2. CASE ~Register(r)
        BY <1>1, <2>2, Kinds DEF Starts, Works, Untouched, Uncount, Unregister, TypeOK
    <2> QED BY <2>1, <2>2
<1>7. gauge' \in Int /\ leaked' \in Int
    <2>1. UNCHANGED <<gauge, leaked>> \/ Count(1) \/ Count(-1)
        BY <1>1, Kinds DEF Starts, Works, Untouched, Register, Uncount, Unregister
    <2> QED BY <2>1 DEF Count, TypeOK
<1> QED BY <1>1, <1>2, <1>3, <1>5, <1>6, <1>7 DEF TypeOK, RunsTyped, BusTyped

(* A client without a stream is well typed.                                *)
LEMMA NoStreamTyped == \A at \in StreamSteps : NoStream(at) \in StreamStates
BY StreamAssumption DEF NoStream, StreamStates

(* Every step of the client and of its stream keeps the types.             *)
LEMMA ClientTyped ==
    ASSUME TypeOK, ClientNext
    PROVE  TypeOK'
<1>0. client \in StreamStates /\ seen \in Seq(Nat) /\ <<>> \in Seq(Nat)
    BY EmptySeq DEF TypeOK
<1>1. UNCHANGED <<status, tasks>> /\ (UNCHANGED faults \/ Fault)
    BY DEF ClientNext, AskToken, TokenExpires, Connect, Breaks, StreamNext, ReadJob, StartOrPoll,
           Replay, Follows, KeepAlive
<1>2. faults' \in 0..MaxFaults
    BY <1>1, StreamAssumption DEF Fault, TypeOK
<1>3. token' \in {"none", "live", "spent"} /\ asked' \in 0..MaxTokens
    BY StreamAssumption
    DEF ClientNext, AskToken, TokenExpires, Connect, Breaks, StreamNext, ReadJob, StartOrPoll,
        Replay, Follows, KeepAlive, TypeOK
<1>4. client' \in StreamStates /\ seen' \in Seq(Nat)
    <2>1. CASE AskToken \/ TokenExpires \/ Connect \/ Breaks
        <3>1. {"idle", "handler", "refused", "broken"} \subseteq StreamSteps
            BY DEF StreamSteps, Closed
        <3>2. \/ UNCHANGED <<client, seen>>
              \/ /\ \E at \in {"idle", "handler", "refused", "broken"} : client' = NoStream(at)
                 /\ seen' = <<>>
            BY <2>1 DEF AskToken, TokenExpires, Connect, Breaks
        <3> QED BY <1>0, <3>1, <3>2, NoStreamTyped
    <2>2. CASE ReadJob
        <3>1. \E b \in BOOLEAN : client' = [client EXCEPT !.at = "start", !.settled = b]
            <4>1. (status \in Terminal) \in BOOLEAN
                OBVIOUS
            <4> QED BY <2>2, <4>1, Zenon DEF ReadJob
        <3>2. client' \in StreamStates
            BY <1>0, <3>1 DEF StreamStates, StreamSteps
        <3> QED BY <1>0, <2>2, <3>2 DEF ReadJob
    <2>3. CASE StartOrPoll
        <3>1. "unavailable" \in StreamSteps
            BY DEF StreamSteps, Closed
        <3>2. registry # NoRun => Len(bus[registry]) \in Nat /\ registry \in Runs
            BY LenProperties DEF TypeOK
        <3>3. ASSUME client' = Subscribed /\ registry # NoRun
              PROVE  client' \in StreamStates
            BY <1>0, <3>2, <3>3 DEF Subscribed, StreamStates, StreamSteps
        <3>4. ASSUME client' = [client EXCEPT !.at = "final", !.of = registry]
              PROVE  client' \in StreamStates
            BY <1>0, <3>4 DEF StreamStates, StreamSteps, TypeOK
        <3>5. ASSUME ClientGoes("done") \/ ClientGoes("poll")
              PROVE  client' \in StreamStates
            BY <1>0, <3>5 DEF ClientGoes, StreamStates, StreamSteps, Closed
        <3>6. ASSUME client' = NoStream("unavailable")
              PROVE  client' \in StreamStates
            BY <3>1, <3>6, NoStreamTyped
        <3>7. ASSUME ~GivesUp /\ client' = [client EXCEPT !.polls = @ + 1]
              PROVE  client' \in StreamStates
            <4>1. client.polls + 1 \in 0..MaxWait
                BY <1>0, <3>7, StreamAssumption DEF GivesUp, StreamStates
            <4> QED BY <1>0, <3>7, <4>1 DEF StreamStates
        <3>8. client' \in StreamStates
            BY <2>3, <3>3, <3>4, <3>5, <3>6, <3>7 DEF StartOrPoll
        <3> QED BY <1>0, <2>3, <3>8 DEF StartOrPoll
    <2>4. CASE Replay
        <3>1. client.replayed + 1 \in Nat
            BY <1>0 DEF StreamStates
        <3>2. Append(seen, client.replayed + 1) \in Seq(Nat)
            BY <1>0, <3>1, AppendProperties
        <3>3. seen' \in Seq(Nat)
            BY <1>0, <2>4, <3>2 DEF Replay
        <3>4. ASSUME client' = [client EXCEPT !.replayed = @ + 1]
              PROVE  client' \in StreamStates
            BY <1>0, <3>1, <3>4 DEF StreamStates
        <3>5. ASSUME ClientGoes("done") \/ ClientGoes("live")
              PROVE  client' \in StreamStates
            BY <1>0, <3>5 DEF ClientGoes, StreamStates, StreamSteps, Closed
        <3> QED BY <2>4, <3>3, <3>4, <3>5 DEF Replay
    <2>5. CASE Follows
        <3>1. NextQueued \in Nat /\ client.taken + 1 \in Nat
            BY <1>0 DEF StreamStates, NextQueued
        <3>2. Append(seen, NextQueued) \in Seq(Nat)
            BY <1>0, <3>1, AppendProperties
        <3>3. \E at \in {"done", "live"} :
                client' = [client EXCEPT !.taken = @ + 1, !.at = at]
            BY <2>5 DEF Follows
        <3>4. client' \in StreamStates
            BY <1>0, <3>1, <3>3 DEF StreamStates, StreamSteps, Closed
        <3> QED BY <2>5, <3>2, <3>4 DEF Follows
    <2>6. CASE KeepAlive
        BY <1>0, <2>6 DEF KeepAlive, ClientGoes, StreamStates, StreamSteps, Closed
    <2> QED BY <2>1, <2>2, <2>3, <2>4, <2>5, <2>6 DEF ClientNext, StreamNext
<1> QED BY <1>1, <1>2, <1>3, <1>4 DEF TypeOK, tasks

(* A crash keeps the types.                                                *)
LEMMA CrashTyped ==
    ASSUME TypeOK, Crash
    PROVE  TypeOK'
<1>1. \A s \in Runs : [run[s] EXCEPT !.at = "ended"] \in RunStates /\ Idle \in RunStates
    BY DEF TypeOK, RunStates, RunSteps, Idle
<1>2. run' \in [Runs -> RunStates]
    BY <1>1 DEF Crash
<1>3. leaked' \in Int
    <2>1. IsFiniteSet({r \in Runs : Counted(r)})
        BY StreamAssumption, FS_Subset
    <2> QED BY <2>1, FS_CardinalityType DEF Crash, TypeOK
<1>4. client' \in StreamStates /\ seen' \in Seq(Nat)
    BY NoStreamTyped, EmptySeq DEF Crash, TypeOK, StreamSteps, Closed
<1>5. faults' \in 0..MaxFaults
    BY StreamAssumption DEF Crash, Fault, TypeOK
<1> QED BY <1>2, <1>3, <1>4, <1>5 DEF Crash, TypeOK

(* The types hold in every reachable state of the tasks and the stream.    *)
THEOREM JobStreamTyped == Spec => []TypeOK
<1>1. Init => TypeOK
    <2> SUFFICES ASSUME Init
                 PROVE  TypeOK
        OBVIOUS
    <2>1. Idle \in RunStates /\ <<>> \in Seq(EventStates) /\ <<>> \in Seq(Nat)
        BY EmptySeq DEF Idle, RunStates, RunSteps
    <2>2. client \in StreamStates
        BY NoStreamTyped DEF Init, StreamSteps, Closed
    <2> QED BY <2>1, <2>2, StreamAssumption DEF Init, TypeOK
<1>2. TypeOK /\ [Next]_vars => TypeOK'
    <2> SUFFICES ASSUME TypeOK, [Next]_vars
                 PROVE  TypeOK'
        OBVIOUS
    <2>1. CASE WrittenByOthers
        BY <2>1, StreamAssumption DEF WrittenByOthers, Fault, tasks, stream, TypeOK, Terminal
    <2>2. CASE UNCHANGED vars
        BY <2>2 DEF vars, TypeOK
    <2> QED BY <2>1, <2>2, TasksTyped, ClientTyped, CrashTyped DEF Next
<1> QED BY <1>1, <1>2, PTL DEF Spec

-----------------------------------------------------------------------------
(* The registry. Two tasks that are there at once overlap, so the entry of *)
(* a task that never overlapped can only be its own, and can only be taken *)
(* away by itself; RunIsFound alone does not say who else is there.        *)
PairsOverlap == \A r, s \in Present : r # s => {r, s} \subseteq overlapped
FoundInv == RunsTyped /\ RunIsFound /\ PairsOverlap

(* Only Register and Unregister change who is there.                       *)
LEMMA PresentMoves ==
    ASSUME RunsTyped, NEW r \in Runs, RunStep(r)
    PROVE  /\ RunsTyped'
           /\ \/ Present' = Present /\ UNCHANGED <<registry, overlapped>>
              \/ Present' = Present \cup {r} /\ Register(r)
              \/ /\ r \in Present /\ Present' = Present \ {r}
                 /\ registry' = NoRun /\ UNCHANGED overlapped
<1>1. RunsTyped' /\ Same(r)
    BY Kinds
<1>2. \A s \in Runs \ {r} : s \in Present' <=> s \in Present
    BY <1>1 DEF Same, Present
<1>3. Present \subseteq Runs /\ Present' \subseteq Runs
    BY DEF Present
<1>4. CASE Starts(r)
    <2>1. r \notin Present /\ r \notin Present'
        BY <1>4 DEF Starts, Present
    <2> QED BY <1>1, <1>2, <1>3, <1>4, <2>1 DEF Starts, Untouched
<1>5. CASE Works(r)
    <2>1. r \in Present /\ r \in Present'
        BY <1>5, WorkingNames DEF Works, Present
    <2> QED BY <1>1, <1>2, <1>3, <1>5, <2>1 DEF Works, Untouched
<1>6. CASE Register(r) /\ run'[r].at = "prepare"
    <2>1. r \in Present'
        BY <1>6 DEF Present
    <2> QED BY <1>1, <1>2, <1>3, <1>6, <2>1
<1>7. CASE Uncount(r) /\ run'[r].at = "lingering"
    <2>1. r \in Present /\ r \in Present'
        BY <1>7 DEF Uncount, Present
    <2> QED BY <1>1, <1>2, <1>3, <1>7, <2>1 DEF Uncount
<1>8. CASE Unregister(r) /\ run'[r].at = "ended"
    <2>1. r \in Present /\ r \notin Present'
        BY <1>8 DEF Unregister, Present
    <2> QED BY <1>1, <1>2, <1>3, <1>8, <2>1 DEF Unregister
<1> QED BY <1>4, <1>5, <1>6, <1>7, <1>8, Kinds

(* Every step keeps what the registry finds.                               *)
LEMMA FoundStep == FoundInv /\ [Next]_vars => FoundInv'
<1> SUFFICES ASSUME FoundInv, [Next]_vars
             PROVE  FoundInv'
    OBVIOUS
<1> USE DEF FoundInv
<1>1. ASSUME NEW r \in Runs, RunStep(r)
      PROVE  FoundInv'
    <2>1. CASE Present' = Present /\ UNCHANGED <<registry, overlapped>>
        BY <1>1, <2>1, PresentMoves DEF RunIsFound, PairsOverlap
    <2>2. CASE Present' = Present \cup {r} /\ Register(r)
        <3>1. /\ registry' = r
              /\ overlapped' = IF Present = {} THEN overlapped ELSE overlapped \cup Present \cup {r}
            BY <2>2 DEF Register
        <3> QED BY <1>1, <2>2, <3>1, PresentMoves DEF RunIsFound, PairsOverlap
    <2>3. CASE /\ r \in Present /\ Present' = Present \ {r}
               /\ registry' = NoRun /\ UNCHANGED overlapped
        <3>1. PairsOverlap' /\ Present' \subseteq overlapped
            BY <2>3 DEF PairsOverlap
        <3> QED BY <1>1, <2>3, <3>1, PresentMoves DEF RunIsFound
    <2> QED BY <1>1, <2>1, <2>2, <2>3, PresentMoves
<1>2. CASE Crash
    <2>1. \A s \in Runs : run'[s].at \in {"idle", "ended"}
        BY <1>2 DEF Crash, Idle, RunsTyped, RunStates
    <2>2. Present' = {}
        BY <2>1 DEF Present
    <2>3. RunsTyped'
        <3>1. \A s \in Runs : [run[s] EXCEPT !.at = "ended"] \in RunStates /\ Idle \in RunStates
            BY DEF RunsTyped, RunStates, RunSteps, Idle
        <3> QED BY <1>2, <3>1 DEF Crash, RunsTyped
    <2> QED BY <2>2, <2>3 DEF RunIsFound, PairsOverlap
<1>3. CASE UNCHANGED <<run, registry, overlapped>>
    BY <1>3 DEF RunsTyped, RunIsFound, PairsOverlap, Present
<1>4. CASE ClientNext \/ WrittenByOthers \/ UNCHANGED vars
    <2>1. UNCHANGED <<run, registry, overlapped>>
        BY <1>4 DEF ClientNext, AskToken, TokenExpires, Connect, Breaks, StreamNext, ReadJob,
                    StartOrPoll, Replay, Follows, KeepAlive, WrittenByOthers, tasks, vars
    <2> QED BY <1>3, <2>1
<1> QED BY <1>1, <1>2, <1>4 DEF Next, RunNext

(* In every reachable state a task that has not overlapped another one of  *)
(* its job is the one that the registry finds.                             *)
THEOREM RunAlwaysFound == Spec => []RunIsFound
<1>1. Init => FoundInv
    <2> SUFFICES ASSUME Init
                 PROVE  FoundInv
        OBVIOUS
    <2>1. RunsTyped
        BY DEF Init, Idle, RunsTyped, RunStates, RunSteps
    <2>2. Present = {}
        BY DEF Init, Idle, Present
    <2> QED BY <2>1, <2>2 DEF FoundInv, RunIsFound, PairsOverlap
<1>2. FoundInv => RunIsFound
    BY DEF FoundInv
<1> QED BY <1>1, <1>2, FoundStep, PTL DEF Spec

-----------------------------------------------------------------------------
(* The gauge. Each task moves it by one when it joins and when it leaves   *)
(* the set it counts; a call that failed unapplied, and a crash, move the  *)
(* difference from that set instead.                                       *)
CountedRuns == {r \in Runs : Counted(r)}
GaugeInv == RunsTyped /\ gauge \in Int /\ leaked \in Int /\ GaugeAccounts

(* The counted tasks are finitely many, as the tasks are.                  *)
LEMMA CountedFinite ==
    /\ IsFiniteSet(CountedRuns) /\ Cardinality(CountedRuns) \in Nat
    /\ GaugeAccounts <=> gauge = Cardinality(CountedRuns) + leaked
<1>1. CountedRuns \subseteq Runs
    BY DEF CountedRuns
<1>2. IsFiniteSet(CountedRuns)
    BY <1>1, StreamAssumption, FS_Subset
<1> QED BY <1>2, FS_CardinalityType DEF CountedRuns, GaugeAccounts

(* Only Register and Uncount change who is counted, with the call they     *)
(* make.                                                                   *)
LEMMA CountedMoves ==
    ASSUME RunsTyped, NEW r \in Runs, RunStep(r)
    PROVE  /\ RunsTyped'
           /\ \/ CountedRuns' = CountedRuns /\ UNCHANGED <<gauge, leaked>>
              \/ r \notin CountedRuns /\ CountedRuns' = CountedRuns \cup {r} /\ Count(1)
              \/ r \in CountedRuns /\ CountedRuns' = CountedRuns \ {r} /\ Count(-1)
<1>1. RunsTyped' /\ Same(r)
    BY Kinds
<1>2. \A s \in Runs \ {r} : s \in CountedRuns' <=> s \in CountedRuns
    BY <1>1 DEF Same, CountedRuns, Counted
<1>3. CountedRuns \subseteq Runs /\ CountedRuns' \subseteq Runs
    BY DEF CountedRuns
<1>4. CASE Starts(r)
    <2>1. r \notin CountedRuns /\ r \notin CountedRuns'
        BY <1>4 DEF Starts, CountedRuns, Counted
    <2> QED BY <1>1, <1>2, <1>3, <1>4, <2>1 DEF Starts, Untouched
<1>5. CASE Works(r)
    <2>1. r \in CountedRuns /\ r \in CountedRuns'
        BY <1>5, WorkingNames DEF Works, CountedRuns, Counted
    <2> QED BY <1>1, <1>2, <1>3, <1>5, <2>1 DEF Works, Untouched
<1>6. CASE Register(r) /\ run'[r].at = "prepare"
    <2>1. r \notin CountedRuns /\ r \in CountedRuns' /\ Count(1)
        BY <1>6 DEF Register, CountedRuns, Counted
    <2> QED BY <1>1, <1>2, <1>3, <2>1
<1>7. CASE Uncount(r) /\ run'[r].at = "lingering"
    <2>1. r \in CountedRuns /\ r \notin CountedRuns' /\ Count(-1)
        BY <1>7 DEF Uncount, CountedRuns, Counted
    <2> QED BY <1>1, <1>2, <1>3, <2>1
<1>8. CASE Unregister(r) /\ run'[r].at = "ended"
    <2>1. r \notin CountedRuns /\ r \notin CountedRuns'
        BY <1>8 DEF Unregister, CountedRuns, Counted
    <2> QED BY <1>1, <1>2, <1>3, <1>8, <2>1 DEF Unregister
<1> QED BY <1>4, <1>5, <1>6, <1>7, <1>8, Kinds

(* Every step keeps the account of the gauge.                              *)
LEMMA GaugeStep == GaugeInv /\ [Next]_vars => GaugeInv'
<1> SUFFICES ASSUME GaugeInv, [Next]_vars
             PROVE  GaugeInv'
    OBVIOUS
<1> DEFINE n == Cardinality(CountedRuns)
<1>0. /\ RunsTyped /\ n \in Nat /\ gauge \in Int /\ leaked \in Int /\ gauge = n + leaked
      /\ IsFiniteSet(CountedRuns)
    BY CountedFinite DEF GaugeInv
<1>9. ASSUME RunsTyped', gauge' \in Int, leaked' \in Int, gauge' = n' + leaked'
      PROVE  GaugeInv'
    BY <1>9 DEF GaugeInv, GaugeAccounts, CountedRuns
<1>1. ASSUME NEW r \in Runs, RunStep(r)
      PROVE  GaugeInv'
    <2>1. RunsTyped'
        BY <1>0, <1>1, CountedMoves
    <2>2. CASE CountedRuns' = CountedRuns /\ UNCHANGED <<gauge, leaked>>
        <3>1. n' = n
            BY <2>2
        <3> HIDE DEF n
        <3>2. gauge' \in Int /\ leaked' \in Int /\ gauge' = n' + leaked'
            BY <1>0, <2>2, <3>1
        <3> QED BY <2>1, <3>2, <1>9
    <2>3. CASE r \notin CountedRuns /\ CountedRuns' = CountedRuns \cup {r} /\ Count(1)
        <3>1. n' = n + 1
            BY <1>0, <2>3, FS_AddElement
        <3> HIDE DEF n
        <3>2. gauge' \in Int /\ leaked' \in Int /\ gauge' = n' + leaked'
            BY <1>0, <2>3, <3>1 DEF Count
        <3> QED BY <2>1, <3>2, <1>9
    <2>4. CASE r \in CountedRuns /\ CountedRuns' = CountedRuns \ {r} /\ Count(-1)
        <3>1. n' = n - 1
            BY <1>0, <2>4, FS_RemoveElement
        <3> HIDE DEF n
        <3>2. gauge' \in Int /\ leaked' \in Int /\ gauge' = n' + leaked'
            BY <1>0, <2>4, <3>1 DEF Count
        <3> QED BY <2>1, <3>2, <1>9
    <2> QED BY <1>0, <1>1, <2>2, <2>3, <2>4, CountedMoves
<1>2. CASE Crash
    <2>1. \A s \in Runs : run'[s].at \in {"idle", "ended"}
        BY <1>0, <1>2 DEF Crash, Idle, RunsTyped, RunStates
    <2>2. CountedRuns' = {}
        BY <2>1 DEF CountedRuns, Counted
    <2>3. n' = 0
        BY <2>2, FS_EmptySet
    <2>4. leaked' = leaked + n /\ gauge' = gauge
        BY <1>2 DEF Crash, CountedRuns
    <2>5. RunsTyped'
        <3>1. \A s \in Runs : [run[s] EXCEPT !.at = "ended"] \in RunStates /\ Idle \in RunStates
            BY <1>0 DEF RunsTyped, RunStates, RunSteps, Idle
        <3> QED BY <1>2, <3>1 DEF Crash, RunsTyped
    <2> HIDE DEF n
    <2>6. gauge' \in Int /\ leaked' \in Int /\ gauge' = n' + leaked'
        BY <1>0, <2>3, <2>4
    <2> QED BY <2>5, <2>6, <1>9
<1>3. CASE ClientNext \/ WrittenByOthers \/ UNCHANGED vars
    <2>1. UNCHANGED <<run, gauge, leaked>>
        BY <1>3 DEF ClientNext, AskToken, TokenExpires, Connect, Breaks, StreamNext, ReadJob,
                    StartOrPoll, Replay, Follows, KeepAlive, WrittenByOthers, tasks, vars
    <2>2. CountedRuns' = CountedRuns
        BY <2>1 DEF CountedRuns, Counted
    <2>3. n' = n
        BY <2>2
    <2> HIDE DEF n
    <2>4. gauge' \in Int /\ leaked' \in Int /\ gauge' = n' + leaked'
        BY <1>0, <2>1, <2>3
    <2>5. RunsTyped'
        BY <1>0, <2>1 DEF RunsTyped
    <2> QED BY <2>4, <2>5, <1>9
<1> QED BY <1>1, <1>2, <1>3 DEF Next, RunNext

(* In every reachable state the gauge of jobs in processing is the number  *)
(* of tasks at work plus what failed calls and crashes left behind: no     *)
(* path through a task, early or late, counts twice or forgets to.         *)
THEOREM GaugeAlwaysAccounts == Spec => []GaugeAccounts
<1>1. Init => GaugeInv
    <2> SUFFICES ASSUME Init
                 PROVE  GaugeInv
        OBVIOUS
    <2>1. RunsTyped
        BY DEF Init, Idle, RunsTyped, RunStates, RunSteps
    <2>2. CountedRuns = {} /\ gauge = 0 /\ leaked = 0
        BY DEF Init, Idle, CountedRuns, Counted
    <2>3. Cardinality(CountedRuns) = 0
        BY <2>2, FS_EmptySet
    <2> QED BY <2>1, <2>2, <2>3, CountedFinite DEF GaugeInv
<1>2. GaugeInv => GaugeAccounts
    BY DEF GaugeInv
<1> QED BY <1>1, <1>2, GaugeStep, PTL DEF Spec
-----------------------------------------------------------------------------
(* What a step of a task does to its bus: nothing, or one more event; and  *)
(* only a task that is leaving has told that it is complete.               *)
Left == {"leaving", "lingering", "ended"}
Appends(r, e) == e \in EventStates /\ bus' = [bus EXCEPT ![r] = Append(@, e)]

(* A step leaves the bus alone or appends one event to it.                 *)
LEMMA BusMoves ==
    ASSUME RunsTyped, NEW r \in Runs, RunStep(r)
    PROVE  \/ UNCHANGED bus /\ (run[r].at \in Left => run'[r].at \in Left)
           \/ \E e : /\ Appends(r, e) /\ run[r].at \notin Left
                     /\ e.type = "complete" => run'[r].at \in Left
<1>0. /\ RunsTyped' /\ run[r].step \in Nat /\ run[r].total \in Nat
      /\ Phases \cap {"leaving", "lingering", "ended", "complete"} = {}
      /\ {"leaving", "lingering", "ended"} \subseteq RunSteps
    BY Kinds, PhaseNames DEF RunsTyped, RunStates, Names, RunSteps
<1>1. ASSUME NEW phase \in Phases, NEW more \in Nat, Emit(r, phase, more)
      PROVE  \E e : Appends(r, e) /\ e.type # "complete"
    <2> DEFINE e == [type |-> phase, step |-> run[r].step + 1, total |-> run[r].total + more]
    <2>1. e \in EventStates /\ e.type = phase
        BY <1>0 DEF EventStates
    <2>2. bus' = [bus EXCEPT ![r] = Append(@, e)]
        BY <1>1 DEF Emit
    <2> HIDE DEF e
    <2> QED BY <1>0, <2>1, <2>2 DEF Appends
<1>2. ASSUME NEW type \in {"complete", "error"}, Publishes(r, type)
      PROVE  \E e : Appends(r, e) /\ e.type = type
    <2> DEFINE e == [type |-> type]
    <2>1. e \in EventStates /\ e.type = type
        BY DEF EventStates
    <2>2. bus' = [bus EXCEPT ![r] = Append(@, e)]
        BY <1>2 DEF Publishes
    <2> HIDE DEF e
    <2> QED BY <2>1, <2>2 DEF Appends
<1>3. CASE MarkProcessing(r) \/ Register(r)
    BY <1>3 DEF MarkProcessing, Register, Left
<1>4. CASE Prepare(r)
    <2>1. run[r].at = "prepare"
        BY <1>4 DEF Prepare
    <2>2. UNCHANGED bus \/ Emit(r, "docling", Len(Chain))
        BY <1>4 DEF Prepare, Raises, Rejects
    <2>3. Len(Chain) \in Nat /\ "docling" \in Phases
        BY PhaseNames
    <2> QED BY <1>1, <2>1, <2>2, <2>3 DEF Left
<1>5. CASE PhaseEnds(r)
    <2>1. run[r].at \in Phases /\ run[r].at \notin Left
        BY <1>0, <1>5 DEF PhaseEnds, Left
    <2>2. \/ UNCHANGED bus \/ Follow(r, run[r].at)
          \/ Emit(r, "docling_ocr", 1)
        BY <1>5 DEF PhaseEnds, EmptyContent, Raises
    <2>3. \/ UNCHANGED bus
          \/ \E next \in Phases, more \in Nat : Emit(r, next, more)
        BY <2>1, <2>2, FollowGoes, PhaseNames
    <2> QED BY <1>1, <2>1, <2>3
<1>8. CASE Finish(r) \/ Fail(r)
    BY <1>8 DEF Finish, Fail, Raises, Left
<1>6. CASE Announce(r)
    <2>1. run[r].at \in {"complete", "error"} /\ run[r].at \notin Left
        BY <1>6 DEF Announce, Left
    <2>2. \/ UNCHANGED bus \/ Publishes(r, "error")
          \/ Publishes(r, "complete") /\ Goes(r, "leaving")
        BY <1>6, <2>1 DEF Announce, Raises
    <2>3. Goes(r, "leaving") => run'[r].at \in Left
        BY <1>0, Went DEF Left
    <2>4. CASE Publishes(r, "error")
        BY <1>2, <2>1, <2>4
    <2>5. CASE Publishes(r, "complete") /\ Goes(r, "leaving")
        BY <1>2, <2>1, <2>3, <2>5
    <2> QED BY <2>1, <2>2, <2>4, <2>5
<1>7. CASE Uncount(r) \/ Unregister(r)
    <2>1. UNCHANGED bus /\ (Goes(r, "lingering") \/ Goes(r, "ended"))
        BY <1>7 DEF Uncount, Unregister
    <2>2. run'[r].at \in Left
        BY <1>0, <2>1, Went DEF Left
    <2> QED BY <2>1, <2>2
<1> QED BY <1>3, <1>4, <1>5, <1>6, <1>7, <1>8 DEF RunStep

(* A bus with one more event.                                              *)
LEMMA BusGrows ==
    ASSUME BusTyped, NEW r \in Runs, NEW e, Appends(r, e)
    PROVE  /\ BusTyped' /\ \A s \in Runs \ {r} : bus'[s] = bus[s]
           /\ Len(bus[r]) \in Nat /\ Len(bus'[r]) = Len(bus[r]) + 1
           /\ \A i \in 1..Len(bus[r]) : bus'[r][i] = bus[r][i]
           /\ bus'[r][Len(bus[r]) + 1] = e
<1>1. bus[r] \in Seq(EventStates) /\ Len(bus[r]) \in Nat /\ e \in EventStates
    BY LenProperties DEF BusTyped, Appends
<1>2. bus'[r] = Append(bus[r], e) /\ \A s \in Runs \ {r} : bus'[s] = bus[s]
    BY DEF BusTyped, Appends
<1>3. BusTyped'
    BY BusAppended DEF Appends
<1> QED BY <1>1, <1>2, <1>3, AppendProperties

-----------------------------------------------------------------------------
(* Progress. The phases have an order, and every configuration runs some   *)
(* of them in that order: so the chain names no phase twice and never the  *)
(* OCR run, and the number of a step says where in the chain it is.        *)
Rank == [n \in Names |->
    CASE n = "docling_ocr" -> 0
      [] n = "docling" -> 1
      [] n = "structure" -> 2
      [] n = "heading_reconciliation" -> 3
      [] n = "heading_levels" -> 4
      [] n = "page_content" -> 5
      [] n = "code_blocks" -> 6
      [] n = "boundaries" -> 7
      [] OTHER -> 8]
Ascends(s, low, high) ==
    /\ s \in Seq(Names)
    /\ \A i \in 1..Len(s) : low < Rank[s[i]] /\ Rank[s[i]] <= high
    /\ \A i, j \in 1..Len(s) : i < j => Rank[s[i]] < Rank[s[j]]

(* Two parts of which the second starts where the first one ends.          *)
LEMMA Ascending ==
    ASSUME NEW s, NEW t, NEW a \in Nat, NEW b \in Nat, NEW c \in Nat, a <= b, b <= c,
           Ascends(s, a, b), Ascends(t, b, c)
    PROVE  Ascends(s \o t, a, c)
<1> DEFINE u == s \o t
           m == Len(s)
           n == Len(t)
<1>1. s \in Seq(Names) /\ t \in Seq(Names) /\ m \in Nat /\ n \in Nat
    BY LenProperties DEF Ascends
<1>2. u \in Seq(Names) /\ Len(u) = m + n
    BY <1>1, ConcatProperties
<1>3. \A i \in 1..(m + n) : u[i] = IF i <= m THEN s[i] ELSE t[i - m]
    BY <1>1, ConcatProperties
<1>4. \A x \in Names : Rank[x] \in Nat
    BY DEF Rank
<1>5. \A i \in 1..m : s[i] \in Names
    BY <1>1, ElementOfSeq
<1>6. \A i \in 1..n : t[i] \in Names
    BY <1>1, ElementOfSeq
<1>7. \A i \in 1..m : a < Rank[s[i]] /\ Rank[s[i]] <= b
    BY DEF Ascends
<1>8. \A i \in 1..n : b < Rank[t[i]] /\ Rank[t[i]] <= c
    BY DEF Ascends
<1>9. /\ \A i, j \in 1..m : i < j => Rank[s[i]] < Rank[s[j]]
      /\ \A i, j \in 1..n : i < j => Rank[t[i]] < Rank[t[j]]
    BY DEF Ascends
<1>10. \A i \in 1..(m + n) : IF i <= m THEN i \in 1..m ELSE i - m \in 1..n
    BY <1>1
<1> HIDE DEF u, m, n
<1>11. \A i \in 1..(m + n) : a < Rank[u[i]] /\ Rank[u[i]] <= c
    <2> TAKE i \in 1..(m + n)
    <2>1. CASE i <= m
        BY <1>3, <1>4, <1>5, <1>7, <1>10, <2>1
    <2>2. CASE ~(i <= m)
        BY <1>3, <1>4, <1>6, <1>8, <1>10, <2>2
    <2> QED BY <2>1, <2>2
<1>12. \A i, j \in 1..(m + n) : i < j => Rank[u[i]] < Rank[u[j]]
    <2> TAKE i, j \in 1..(m + n)
    <2> HAVE i < j
    <2>1. CASE j <= m
        BY <1>1, <1>3, <1>9, <1>10, <2>1
    <2>2. CASE i <= m /\ ~(j <= m)
        <3>1. u[i] = s[i] /\ i \in 1..m /\ u[j] = t[j - m] /\ j - m \in 1..n
            BY <1>3, <1>10, <2>2
        <3> QED BY <1>4, <1>5, <1>6, <1>7, <1>8, <3>1
    <2>3. CASE ~(i <= m)
        <3>1. u[i] = t[i - m] /\ u[j] = t[j - m] /\ i - m \in 1..n /\ j - m \in 1..n
            BY <1>1, <1>3, <1>10, <2>3
        <3>2. i - m < j - m
            BY <1>1
        <3> QED BY <1>9, <3>1, <3>2
    <2> QED BY <2>1, <2>2, <2>3
<1> QED BY <1>2, <1>11, <1>12 DEF Ascends, u, m, n

(* So no phase is in the chain twice, and the OCR run is not in it.        *)
LEMMA ChainUnique ==
    /\ \A i, j \in 1..Len(Chain) : Chain[i] = Chain[j] => i = j
    /\ \A i \in 1..Len(Chain) : Chain[i] # "docling_ocr"
<1> DEFINE A == <<"docling">>
           B == IF "structure" \in Features
                THEN <<"structure", "heading_reconciliation", "heading_levels">> ELSE <<>>
           C == IF {"structure", "page_content"} \subseteq Features
                THEN <<"page_content", "code_blocks">> ELSE <<>>
           D == IF {"structure", "boundaries"} \subseteq Features
                THEN <<"boundaries", "cleanup">> ELSE <<>>
<1>0. /\ Rank["docling_ocr"] = 0 /\ Rank["docling"] = 1 /\ Rank["structure"] = 2
      /\ Rank["heading_reconciliation"] = 3 /\ Rank["heading_levels"] = 4
      /\ Rank["page_content"] = 5 /\ Rank["code_blocks"] = 6
      /\ Rank["boundaries"] = 7 /\ Rank["cleanup"] = 8
    BY DEF Rank, Names
<1>1. \A k, l \in Nat : Ascends(<<>>, k, l)
    BY EmptySeq DEF Ascends
<1>2. Ascends(A, 0, 1)
    <2>1. A \in Seq(Names)
        BY DEF Names
    <2> QED BY <1>0, <2>1 DEF Ascends
<1>3. Ascends(B, 1, 4)
    <2> DEFINE b == <<"structure", "heading_reconciliation", "heading_levels">>
    <2>1. b \in Seq(Names) /\ Len(b) = 3
        BY DEF Names
    <2>2. b[1] = "structure" /\ b[2] = "heading_reconciliation" /\ b[3] = "heading_levels"
        OBVIOUS
    <2> HIDE DEF b
    <2>3. Ascends(b, 1, 4)
        BY <1>0, <2>1, <2>2 DEF Ascends
    <2> QED BY <1>1, <2>3 DEF b
<1>4. Ascends(C, 4, 6)
    <2> DEFINE c == <<"page_content", "code_blocks">>
    <2>1. c \in Seq(Names) /\ Len(c) = 2 /\ c[1] = "page_content" /\ c[2] = "code_blocks"
        BY DEF Names
    <2> HIDE DEF c
    <2>2. Ascends(c, 4, 6)
        BY <1>0, <2>1 DEF Ascends
    <2> QED BY <1>1, <2>2 DEF c
<1>5. Ascends(D, 6, 8)
    <2> DEFINE d == <<"boundaries", "cleanup">>
    <2>1. d \in Seq(Names) /\ Len(d) = 2 /\ d[1] = "boundaries" /\ d[2] = "cleanup"
        BY DEF Names
    <2> HIDE DEF d
    <2>2. Ascends(d, 6, 8)
        BY <1>0, <2>1 DEF Ascends
    <2> QED BY <1>1, <2>2 DEF d
<1>6. Chain = A \o B \o C \o D
    BY DEF Chain
<1> HIDE DEF A, B, C, D
<1>7. Ascends(A \o B, 0, 4)
    BY <1>2, <1>3, Ascending
<1>8. Ascends(A \o B \o C, 0, 6)
    BY <1>4, <1>7, Ascending
<1>9. Ascends(Chain, 0, 8)
    BY <1>5, <1>6, <1>8, Ascending
<1>10. \A i \in 1..Len(Chain) : Chain[i] \in Names
    BY ChainNames, ElementOfSeq
<1>11. \A x \in Names : Rank[x] \in Nat
    BY DEF Rank
<1>12. \A i, j \in 1..Len(Chain) : i # j => Chain[i] # Chain[j]
    <2> TAKE i, j \in 1..Len(Chain)
    <2> HAVE i # j
    <2>1. i < j \/ j < i
        BY PhaseNames
    <2>2. Rank[Chain[i]] < Rank[Chain[j]] \/ Rank[Chain[j]] < Rank[Chain[i]]
        BY <1>9, <2>1 DEF Ascends
    <2> QED BY <1>10, <1>11, <2>2
<1>13. \A i \in 1..Len(Chain) : Rank[Chain[i]] # 0
    BY <1>9, <1>10, <1>11 DEF Ascends
<1> QED BY <1>0, <1>12, <1>13
(* Where a phase stands in a run: with step k of Len(Chain), or one later  *)
(* of one more once the OCR run came between.                              *)
Placed(phase, step, total) ==
    \/ \E k \in 1..Len(Chain) : phase = Chain[k] /\ step = k /\ total = Len(Chain)
    \/ \E k \in 2..Len(Chain) : phase = Chain[k] /\ step = k + 1 /\ total = Len(Chain) + 1
    \/ phase = "docling_ocr" /\ step = 2 /\ total = Len(Chain) + 1

EventsPlaced(r) == \A i \in 1..Len(bus[r]) :
    bus[r][i].type \in Phases =>
        bus[r][i].step = i /\ Placed(bus[r][i].type, i, bus[r][i].total)
TaskPlaced(r) ==
    /\ run[r].at \in {"idle", "count", "prepare"}
          => bus[r] = <<>> /\ run[r].step = 0 /\ run[r].total = 0
    /\ run[r].at \in Phases
          => run[r].step = Len(bus[r]) /\ Placed(run[r].at, run[r].step, run[r].total)
ProgressInv ==
    RunsTyped /\ BusTyped /\ \A r \in Runs : EventsPlaced(r) /\ TaskPlaced(r)

(* An event that tells a placed phase keeps both.                          *)
LEMMA EmitPlaced ==
    ASSUME ProgressInv, NEW r \in Runs, NEW phase \in Phases, NEW more \in Nat,
           Emit(r, phase, more), run[r].step = Len(bus[r]),
           Placed(phase, run[r].step + 1, run[r].total + more)
    PROVE  EventsPlaced(r)' /\ TaskPlaced(r)'
<1> DEFINE step == run[r].step + 1
           total == run[r].total + more
           p == [at |-> phase, step |-> step, total |-> total]
           e == [type |-> phase, step |-> step, total |-> total]
           n == Len(bus[r])
<1>1. run[r].step \in Nat /\ run[r].total \in Nat /\ bus[r] \in Seq(EventStates)
    BY DEF ProgressInv, RunsTyped, RunStates, BusTyped
<1>2. n \in Nat /\ DOMAIN run = Runs /\ DOMAIN bus = Runs
    BY <1>1, LenProperties DEF ProgressInv, RunsTyped, BusTyped
<1>3. step \in Nat /\ total \in Nat /\ step = n + 1
    BY <1>1, <1>2
<1>4. e \in EventStates /\ e.type = phase /\ e.step = step /\ e.total = total
    BY <1>3 DEF EventStates
<1>5. p.at = phase /\ p.step = step /\ p.total = total
    OBVIOUS
<1>6. run' = [run EXCEPT ![r] = p] /\ bus' = [bus EXCEPT ![r] = Append(@, e)]
    BY DEF Emit
<1>7. run'[r] = p /\ bus'[r] = Append(bus[r], e)
    BY <1>2, <1>6
<1>8. Placed(phase, step, total)
    OBVIOUS
<1>9. EventsPlaced(r)
    BY DEF ProgressInv
<1> HIDE DEF step, total, p, e, n
<1>10. /\ Len(Append(bus[r], e)) = n + 1
       /\ \A i \in 1..n : Append(bus[r], e)[i] = bus[r][i]
       /\ Append(bus[r], e)[n + 1] = e
    BY <1>1, <1>4, AppendProperties DEF n
<1>11. EventsPlaced(r)'
    <2>1. \A i \in 1..(n + 1) : bus'[r][i].type \in Phases =>
              bus'[r][i].step = i /\ Placed(bus'[r][i].type, i, bus'[r][i].total)
        <3> TAKE i \in 1..(n + 1)
        <3>1. CASE i \in 1..n
            BY <1>7, <1>9, <1>10, <3>1 DEF EventsPlaced, n
        <3>2. CASE i = n + 1
            BY <1>3, <1>4, <1>7, <1>8, <1>10, <3>2
        <3> QED BY <1>2, <3>1, <3>2
    <2>2. Len(bus'[r]) = n + 1
        BY <1>7, <1>10
    <2> QED BY <2>1, <2>2 DEF EventsPlaced, Placed
<1>12. TaskPlaced(r)'
    <2>1. phase \notin {"idle", "count", "prepare"}
        BY PhaseNames DEF Names
    <2>2. Len(bus'[r]) = step
        BY <1>3, <1>7, <1>10
    <2> QED BY <1>5, <1>7, <1>8, <2>1, <2>2 DEF TaskPlaced, Placed
<1> QED BY <1>11, <1>12

(* The phase that follows a placed phase is placed one step later.         *)
LEMMA FollowPlaced ==
    ASSUME ProgressInv, NEW r \in Runs, run[r].at \in Phases, Follow(r, run[r].at)
    PROVE  \/ Goes(r, "finish") /\ UNCHANGED bus
           \/ \E next \in Phases :
                 Emit(r, next, 0) /\ Placed(next, run[r].step + 1, run[r].total + 0)
<1> DEFINE p == run[r].at
           i == IF p = "docling_ocr" THEN 1 ELSE CHOOSE k \in DOMAIN Chain : Chain[k] = p
           n == Len(Chain)
           step == run[r].step
           total == run[r].total
<1>1. IF i = n THEN Goes(r, "finish") /\ UNCHANGED bus ELSE Emit(r, Chain[i + 1], 0)
    BY DEF Follow
<1>2. Placed(p, step, total) /\ step \in Nat /\ total \in Nat
    BY DEF ProgressInv, TaskPlaced, RunsTyped, RunStates
<1>3. n \in Nat /\ n >= 1 /\ DOMAIN Chain = 1..n
    BY PhaseNames, ChainNames
<1>4. ASSUME NEW k \in 1..n, p = Chain[k]
      PROVE  i = k
    BY <1>3, <1>4, ChainUnique
<1>5. \/ i \in 1..n /\ step = i /\ total = n
      \/ i \in 1..n /\ step = i + 1 /\ total = n + 1
    <2> HIDE DEF p, i, step, total
    <2>1. CASE \E k \in 1..n : p = Chain[k] /\ step = k /\ total = n
        BY <1>4, <2>1
    <2>2. CASE \E k \in 2..n : p = Chain[k] /\ step = k + 1 /\ total = n + 1
        <3>1. 2..n \subseteq 1..n
            BY <1>3
        <3> QED BY <1>4, <2>2, <3>1
    <2>3. CASE p = "docling_ocr" /\ step = 2 /\ total = n + 1
        <3>1. i = 1
            BY <2>3 DEF i
        <3> QED BY <1>3, <2>3, <3>1
    <2> QED BY <1>2, <2>1, <2>2, <2>3 DEF Placed
<1> HIDE DEF p, i, step, total, n
<1>6. CASE i # n
    <2>1. i + 1 \in 2..n /\ i + 1 \in 1..n
        BY <1>3, <1>5, <1>6
    <2>2. \/ step + 1 = i + 1 /\ total + 0 = n
          \/ step + 1 = (i + 1) + 1 /\ total + 0 = n + 1
        BY <1>2, <1>3, <1>5
    <2>3. Placed(Chain[i + 1], step + 1, total + 0)
        BY <2>1, <2>2 DEF Placed, n
    <2>4. Chain[i + 1] \in Phases
        BY <2>1, PhaseNames DEF n
    <2> QED BY <1>1, <1>6, <2>3, <2>4 DEF step, total
<1> QED BY <1>1, <1>6

(* Every step of a task keeps the places.                                  *)
LEMMA ProgressStep ==
    ASSUME ProgressInv, NEW r \in Runs, RunStep(r)
    PROVE  ProgressInv'
<1>1. RunsTyped' /\ BusTyped' /\ Same(r)
    BY Kinds, BusStep DEF ProgressInv
<1>2. EventsPlaced(r) /\ TaskPlaced(r) /\ bus[r] \in Seq(EventStates) /\ Len(bus[r]) \in Nat
    BY LenProperties DEF ProgressInv, BusTyped
<1>3. \A s \in Runs \ {r} : bus'[s] = bus[s]
    BY BusMoves, BusGrows DEF ProgressInv
<1>4. ASSUME NEW s \in Runs \ {r}
      PROVE  EventsPlaced(s)' /\ TaskPlaced(s)'
    <2>1. run'[s] = run[s] /\ bus'[s] = bus[s]
        BY <1>1, <1>3 DEF Same
    <2>2. EventsPlaced(s) /\ TaskPlaced(s)
        BY DEF ProgressInv
    <2> QED BY <2>1, <2>2 DEF EventsPlaced, TaskPlaced
<1>5. ASSUME NEW at \in RunSteps \ Phases, Goes(r, at), UNCHANGED bus,
             at \in {"idle", "count", "prepare"} => run[r].at \in {"idle", "count", "prepare"}
      PROVE  EventsPlaced(r)' /\ TaskPlaced(r)'
    <2>1. run'[r].at = at /\ run'[r].step = run[r].step /\ run'[r].total = run[r].total
        BY <1>5 DEF Goes, ProgressInv, RunsTyped, RunStates
    <2> QED BY <1>2, <1>5, <2>1 DEF EventsPlaced, TaskPlaced
<1>6. {"idle", "count", "prepare", "finish", "failing", "complete", "error", "leaving",
       "lingering", "ended"} \subseteq RunSteps \ Phases
    BY PhaseNames DEF RunSteps, Names
<1>7. ASSUME NEW type \in {"complete", "error"}, Publishes(r, type), Goes(r, "leaving")
      PROVE  EventsPlaced(r)' /\ TaskPlaced(r)'
    <2> DEFINE e == [type |-> type]
               n == Len(bus[r])
    <2>1. e \in EventStates /\ e.type \notin Phases
        BY PhaseNames DEF EventStates, Names
    <2>2. bus' = [bus EXCEPT ![r] = Append(@, e)]
        BY <1>7 DEF Publishes
    <2>3. bus'[r] = Append(bus[r], e)
        BY <2>2 DEF ProgressInv, BusTyped
    <2>4. run'[r].at = "leaving"
        BY <1>6, <1>7, Went DEF ProgressInv
    <2> HIDE DEF e
    <2>5. /\ Len(bus'[r]) = n + 1
          /\ \A i \in 1..n : bus'[r][i] = bus[r][i]
          /\ bus'[r][n + 1] = e
        BY <1>2, <2>1, <2>3, AppendProperties
    <2>6. EventsPlaced(r)'
        <3> SUFFICES ASSUME NEW i \in 1..Len(bus'[r]), bus'[r][i].type \in Phases
                     PROVE  bus'[r][i].step = i /\ Placed(bus'[r][i].type, i, bus'[r][i].total)
            BY DEF EventsPlaced, Placed
        <3>1. i \in 1..n
            BY <1>2, <2>1, <2>5
        <3> QED BY <1>2, <2>5, <3>1 DEF EventsPlaced
    <2>7. TaskPlaced(r)'
        BY <2>4, <1>6 DEF TaskPlaced
    <2> QED BY <2>6, <2>7
<1>8. CASE MarkProcessing(r) \/ Register(r) \/ Uncount(r) \/ Unregister(r)
    <2>1. \E at \in RunSteps \ Phases :
              /\ Goes(r, at) /\ UNCHANGED bus
              /\ at \in {"idle", "count", "prepare"} => run[r].at \in {"idle", "count", "prepare"}
        BY <1>6, <1>8 DEF MarkProcessing, Register, Uncount, Unregister
    <2> QED BY <1>1, <1>4, <1>5, <2>1 DEF ProgressInv
<1>9. CASE Prepare(r)
    <2>1. CASE (Goes(r, "failing") \/ Goes(r, "leaving")) /\ UNCHANGED bus
        BY <1>1, <1>4, <1>5, <1>6, <2>1 DEF ProgressInv
    <2>2. CASE Emit(r, "docling", Len(Chain))
        <3>1. bus[r] = <<>> /\ run[r].step = 0 /\ run[r].total = 0
            BY <1>2, <1>9 DEF TaskPlaced, Prepare
        <3>2. Placed("docling", 1, Len(Chain))
            <4>1. 1 \in 1..Len(Chain) /\ Chain[1] = "docling"
                BY ChainNames, PhaseNames
            <4> QED BY <4>1 DEF Placed
        <3>3. run[r].step = Len(bus[r]) /\ run[r].step + 1 = 1 /\ run[r].total + Len(Chain) = Len(Chain)
            BY <3>1, EmptySeq, PhaseNames
        <3>4. EventsPlaced(r)' /\ TaskPlaced(r)'
            BY <2>2, <3>2, <3>3, EmitPlaced, PhaseNames
        <3> QED BY <1>1, <1>4, <3>4 DEF ProgressInv
    <2> QED BY <1>9, <2>1, <2>2 DEF Prepare, Raises, Rejects
<1>10. CASE PhaseEnds(r)
    <2> SUFFICES EventsPlaced(r)' /\ TaskPlaced(r)'
        BY <1>1, <1>4 DEF ProgressInv
    <2>1. /\ run[r].at \in Phases /\ run[r].step = Len(bus[r])
          /\ Placed(run[r].at, run[r].step, run[r].total)
        BY <1>2, <1>10 DEF PhaseEnds, TaskPlaced
    <2>2. \/ (Goes(r, "finish") \/ Goes(r, "failing")) /\ UNCHANGED bus
          \/ Follow(r, run[r].at)
          \/ run[r].at = "docling" /\ Emit(r, "docling_ocr", 1)
        BY <1>10 DEF PhaseEnds, EmptyContent, Raises
    <2>3. CASE (Goes(r, "finish") \/ Goes(r, "failing")) /\ UNCHANGED bus
        BY <1>5, <1>6, <2>3
    <2>4. CASE Follow(r, run[r].at)
        <3>1. CASE \E next \in Phases :
                  Emit(r, next, 0) /\ Placed(next, run[r].step + 1, run[r].total + 0)
            BY <2>1, <3>1, EmitPlaced
        <3> QED BY <2>1, <2>3, <2>4, <3>1, FollowPlaced
    <2>5. CASE run[r].at = "docling" /\ Emit(r, "docling_ocr", 1)
        <3>1. \A k \in 1..Len(Chain) : Chain[k] = "docling" => k = 1
            BY ChainUnique, ChainNames, PhaseNames
        <3>2. run[r].step = 1 /\ run[r].total = Len(Chain)
            <4> DEFINE n == Len(Chain)
            <4>1. n \in Nat /\ 2..n \subseteq 1..n
                BY PhaseNames
            <4>2. ~(\E k \in 2..n : "docling" = Chain[k])
                BY <3>1, <4>1
            <4> QED BY <2>1, <2>5, <3>1, <4>2 DEF Placed
        <3>3. Placed("docling_ocr", run[r].step + 1, run[r].total + 1)
            BY <3>2, PhaseNames DEF Placed
        <3> QED BY <2>1, <2>5, <3>3, EmitPlaced, PhaseNames
    <2> QED BY <2>2, <2>3, <2>4, <2>5
<1>11. CASE Finish(r) \/ Fail(r)
    <2>1. /\ UNCHANGED bus
          /\ \/ Goes(r, "complete") \/ Goes(r, "error")
             \/ Goes(r, "failing") \/ Goes(r, "leaving")
        BY <1>11 DEF Finish, Fail, Raises
    <2>2. EventsPlaced(r)' /\ TaskPlaced(r)'
        BY <1>5, <1>6, <2>1
    <2> QED BY <1>1, <1>4, <2>2 DEF ProgressInv
<1>12. CASE Announce(r)
    <2>1. \/ /\ run[r].at \in {"complete", "error"}
             /\ Publishes(r, run[r].at) /\ Goes(r, "leaving")
          \/ (Goes(r, "leaving") \/ Goes(r, "failing")) /\ UNCHANGED bus
        BY <1>12 DEF Announce, Raises
    <2>2. EventsPlaced(r)' /\ TaskPlaced(r)'
        BY <1>5, <1>6, <1>7, <2>1
    <2> QED BY <1>1, <1>4, <2>2 DEF ProgressInv
<1> QED BY <1>8, <1>9, <1>10, <1>11, <1>12 DEF RunStep

(* A placed event does not run past its total, and the last phase of the   *)
(* chain is told with step n of n.                                         *)
LEMMA PlacedAddsUp ==
    ASSUME NEW phase, NEW i \in Nat, NEW total \in Nat, Placed(phase, i, total)
    PROVE  i <= total /\ (phase \in LastPhases => i = total)
<1>1. Len(Chain) \in Nat /\ Len(Chain) >= 1 /\ Len(Chain) \in 1..Len(Chain)
    BY ChainNames, PhaseNames
<1>2. \A k \in 1..Len(Chain) : Chain[k] \in LastPhases => k = Len(Chain)
    BY <1>1, ChainUnique DEF LastPhases
<1>3. "docling_ocr" \in LastPhases => Len(Chain) = 1
    BY <1>1, ChainUnique DEF LastPhases
<1> QED BY <1>1, <1>2, <1>3 DEF Placed

(* In every reachable state the progress told so far adds up, whatever     *)
(* features are on, with an OCR run or without, and whoever fails.         *)
THEOREM ProgressAlwaysAddsUp == Spec => []ProgressAddsUp
<1>1. Init => ProgressInv
    <2> SUFFICES ASSUME Init
                 PROVE  ProgressInv
        OBVIOUS
    <2>1. Idle \in RunStates /\ <<>> \in Seq(EventStates)
        BY EmptySeq DEF Idle, RunStates, RunSteps
    <2>2. RunsTyped /\ BusTyped
        BY <2>1 DEF Init, RunsTyped, BusTyped
    <2>3. \A r \in Runs : run[r] = Idle /\ bus[r] = <<>> /\ Len(bus[r]) = 0
        BY EmptySeq DEF Init
    <2>4. "idle" \notin Phases
        BY PhaseNames DEF Names
    <2> QED BY <2>2, <2>3, <2>4 DEF ProgressInv, EventsPlaced, TaskPlaced, Idle
<1>2. ProgressInv /\ [Next]_vars => ProgressInv'
    <2> SUFFICES ASSUME ProgressInv, [Next]_vars
                 PROVE  ProgressInv'
        OBVIOUS
    <2>1. CASE Crash
        <3>1. \A s \in Runs : [run[s] EXCEPT !.at = "ended"] \in RunStates /\ Idle \in RunStates
            BY DEF ProgressInv, RunsTyped, RunStates, RunSteps, Idle
        <3>2. RunsTyped' /\ BusTyped'
            BY <2>1, <3>1 DEF Crash, ProgressInv, RunsTyped, BusTyped
        <3>3. ASSUME NEW s \in Runs
              PROVE  EventsPlaced(s)' /\ TaskPlaced(s)'
            <4>1. \/ run[s].at = "idle" /\ run'[s] = Idle
                  \/ run'[s].at = "ended"
                BY <2>1 DEF Crash, ProgressInv, RunsTyped, RunStates
            <4>2. bus'[s] = bus[s] /\ EventsPlaced(s) /\ TaskPlaced(s)
                BY <2>1 DEF Crash, ProgressInv
            <4>3. "ended" \notin Phases /\ "idle" \notin Phases
                BY PhaseNames DEF Names
            <4> QED BY <4>1, <4>2, <4>3 DEF EventsPlaced, TaskPlaced, Idle
        <3> QED BY <3>2, <3>3 DEF ProgressInv
    <2>2. CASE ClientNext \/ WrittenByOthers \/ UNCHANGED vars
        <3>1. UNCHANGED <<run, bus>>
            BY <2>2 DEF ClientNext, AskToken, TokenExpires, Connect, Breaks, StreamNext, ReadJob,
                        StartOrPoll, Replay, Follows, KeepAlive, WrittenByOthers, tasks, vars
        <3> QED BY <3>1 DEF ProgressInv, RunsTyped, BusTyped, EventsPlaced, TaskPlaced
    <2> QED BY <2>1, <2>2, ProgressStep DEF Next, RunNext
<1>3. ProgressInv => ProgressAddsUp
    <2> SUFFICES ASSUME ProgressInv, NEW r \in Runs, NEW i \in DOMAIN bus[r],
                        bus[r][i].type \in Phases
                 PROVE  /\ bus[r][i].step = i /\ bus[r][i].step <= bus[r][i].total
                        /\ bus[r][i].type \in LastPhases => bus[r][i].step = bus[r][i].total
        BY DEF ProgressAddsUp
    <2> DEFINE e == bus[r][i]
    <2>1. bus[r] \in Seq(EventStates) /\ i \in 1..Len(bus[r]) /\ i \in Nat
        BY LenProperties DEF ProgressInv, BusTyped
    <2>2. e \in EventStates
        BY <2>1, ElementOfSeq
    <2>3. e.total \in Nat
        <3>1. e.type \notin {"complete", "error"}
            BY PhaseNames DEF Names
        <3> QED BY <2>2, <3>1 DEF EventStates
    <2>4. e.step = i /\ Placed(e.type, i, e.total)
        BY <2>1 DEF ProgressInv, EventsPlaced
    <2> HIDE DEF e
    <2>5. i <= e.total /\ (e.type \in LastPhases => i = e.total)
        BY <2>1, <2>3, <2>4, PlacedAddsUp
    <2> QED BY <2>4, <2>5 DEF e
<1> QED BY <1>1, <1>2, <1>3, PTL DEF Spec

-----------------------------------------------------------------------------
(* The stream. What it delivered is given by two numbers: first the events *)
(* that it replayed, then those that it took from the queue, which begins  *)
(* where the bus was at the subscription. The bus had at least as many by  *)
(* the end of the replay, so the two parts leave no gap.                   *)
EndsOnce(r) == \A i \in 1..Len(bus[r]) :
    bus[r][i].type = "complete" => i = Len(bus[r]) /\ run[r].at \in Left
Delivered ==
    /\ Len(seen) = client.replayed + client.taken
    /\ \A i \in 1..Len(seen) :
          seen[i] = IF i <= client.replayed THEN i ELSE client.since + (i - client.replayed)
Stored ==
    /\ client.of \in Runs => /\ client.replayed <= Len(bus[client.of])
                             /\ client.since + client.taken <= Len(bus[client.of])
    /\ client.of = NoRun => client.replayed = 0 /\ client.taken = 0 /\ client.since = 0
StreamStage ==
    /\ client.at \in {"replay", "final", "live"} => client.of \in Runs
    /\ client.at \in {"handler", "start", "poll"} => client.of = NoRun
    /\ client.at \in {"replay", "final"} => client.taken = 0
    /\ client.taken > 0 \/ client.at = "live" => client.since <= client.replayed
ShowsInv == TypeOK /\ Delivered /\ Stored /\ StreamStage /\ \A r \in Runs : EndsOnce(r)

(* The steps of the tasks keep what the stream has, and the bus of a task  *)
(* ends with the event that tells it is complete.                          *)
LEMMA ShowsTasks ==
    ASSUME ShowsInv, TypeOK', NEW r \in Runs, RunNext(r)
    PROVE  ShowsInv'
<1>1. RunsTyped /\ BusTyped /\ RunStep(r) /\ UNCHANGED <<client, seen>>
    BY DEF ShowsInv, TypeOK, RunsTyped, BusTyped, RunNext, stream
<1>2. Same(r) /\ \A s \in Runs : EndsOnce(s)
    BY <1>1, Kinds DEF ShowsInv
<1>3. CASE UNCHANGED bus /\ (run[r].at \in Left => run'[r].at \in Left)
    <2>1. \A s \in Runs : EndsOnce(s)'
        BY <1>2, <1>3 DEF EndsOnce, Same
    <2> QED BY <1>1, <1>3, <2>1 DEF ShowsInv, Delivered, Stored, StreamStage
<1>4. ASSUME NEW e, Appends(r, e), run[r].at \notin Left,
             e.type = "complete" => run'[r].at \in Left
      PROVE  ShowsInv'
    <2> DEFINE n == Len(bus[r])
    <2>1. /\ \A s \in Runs \ {r} : bus'[s] = bus[s]
          /\ n \in Nat /\ Len(bus'[r]) = n + 1
          /\ \A i \in 1..n : bus'[r][i] = bus[r][i]
          /\ bus'[r][n + 1] = e
        BY <1>1, <1>4, BusGrows
    <2>2. \A s \in Runs \ {r} : EndsOnce(s)'
        BY <1>2, <2>1 DEF EndsOnce, Same
    <2>3. \A i \in 1..n : bus[r][i].type # "complete"
        BY <1>2, <1>4 DEF EndsOnce
    <2> HIDE DEF n
    <2>4. EndsOnce(r)'
        <3> SUFFICES ASSUME NEW i \in 1..(n + 1), bus'[r][i].type = "complete"
                     PROVE  i = n + 1 /\ run'[r].at \in Left
            BY <2>1 DEF EndsOnce
        <3>1. i = n + 1
            BY <2>1, <2>3
        <3> QED BY <1>4, <2>1, <3>1
    <2>5. Stored'
        <3>1. \A s \in Runs : Len(bus[s]) \in Nat
            BY <1>1, LenProperties DEF BusTyped
        <3>2. \A s \in Runs : Len(bus[s]) <= Len(bus'[s]) /\ Len(bus'[s]) \in Nat
            BY <2>1, <3>1 DEF n
        <3>3. client.replayed \in Nat /\ client.since \in Nat /\ client.taken \in Nat
            BY DEF ShowsInv, TypeOK, StreamStates
        <3> QED BY <1>1, <3>1, <3>2, <3>3 DEF ShowsInv, Stored
    <2>6. Delivered' /\ StreamStage'
        BY <1>1 DEF ShowsInv, Delivered, StreamStage
    <2> QED BY <2>2, <2>4, <2>5, <2>6 DEF ShowsInv
<1> QED BY <1>1, <1>3, <1>4, BusMoves

(* A client that has no stream has nothing.                                *)
LEMMA NothingShown ==
    ASSUME TypeOK', NEW at \in {"idle", "handler", "refused", "unavailable", "broken"},
           client' = NoStream(at), seen' = <<>>
    PROVE  Delivered' /\ Stored' /\ StreamStage'
<1>1. /\ client'.at = at /\ client'.of = NoRun /\ client'.since = 0 /\ client'.replayed = 0
      /\ client'.taken = 0
    BY DEF NoStream
<1>2. Len(seen') = 0
    BY EmptySeq
<1> QED BY <1>1, <1>2, StreamAssumption DEF Delivered, Stored, StreamStage

(* One more event delivered, by the replay or from the queue.              *)
LEMMA DeliversOne ==
    ASSUME TypeOK, Delivered, NEW x \in Nat, seen' = Append(seen, x),
           client'.since = client.since,
           \/ /\ client.taken = 0 /\ x = client.replayed + 1
              /\ client'.replayed = client.replayed + 1 /\ client'.taken = client.taken
           \/ /\ x = client.since + client.taken + 1
              /\ client'.replayed = client.replayed /\ client'.taken = client.taken + 1
    PROVE  Delivered'
<1> DEFINE n == Len(seen)
<1>1. /\ seen \in Seq(Nat) /\ n \in Nat /\ client.replayed \in Nat /\ client.taken \in Nat
      /\ client.since \in Nat
    BY LenProperties DEF TypeOK, StreamStates
<1>2. /\ Len(seen') = n + 1
      /\ \A i \in 1..n : seen'[i] = seen[i]
      /\ seen'[n + 1] = x
    BY <1>1, AppendProperties
<1>3. n = client.replayed + client.taken
    BY DEF Delivered
<1>4. \A i \in 1..n :
        seen[i] = IF i <= client.replayed THEN i ELSE client.since + (i - client.replayed)
    BY DEF Delivered
<1> HIDE DEF n
<1>5. Len(seen') = client'.replayed + client'.taken
    BY <1>1, <1>2, <1>3
<1>6. ASSUME NEW i \in 1..(n + 1)
      PROVE  seen'[i] = IF i <= client'.replayed THEN i
                        ELSE client'.since + (i - client'.replayed)
    <2> DEFINE a == client.replayed
               t == client.taken
               b == client.since
    <2>0. /\ client'.since = b
          /\ \/ t = 0 /\ x = a + 1 /\ client'.replayed = a + 1
             \/ x = b + t + 1 /\ client'.replayed = a
          /\ n = a + t /\ a \in Nat /\ t \in Nat /\ b \in Nat /\ n \in Nat
        BY <1>1, <1>3
    <2>1. CASE i \in 1..n
        <3>1. seen'[i] = IF i <= a THEN i ELSE b + (i - a)
            BY <1>2, <1>4, <2>1
        <3> HIDE DEF a, t, b
        <3>2. CASE t = 0 /\ client'.replayed = a + 1
            BY <2>0, <2>1, <3>1, <3>2
        <3>3. CASE client'.replayed = a
            BY <2>0, <3>1, <3>3
        <3> QED BY <2>0, <3>2, <3>3
    <2>2. CASE i = n + 1
        <3>1. seen'[i] = x
            BY <1>2, <2>2
        <3> HIDE DEF a, t, b
        <3>2. CASE t = 0 /\ x = a + 1 /\ client'.replayed = a + 1
            <4>1. i <= client'.replayed /\ x = i
                BY <2>0, <2>2, <3>2
            <4> QED BY <3>1, <4>1
        <3>3. CASE x = b + t + 1 /\ client'.replayed = a
            <4>1. ~(i <= client'.replayed) /\ x = b + (i - a)
                BY <2>0, <2>2, <3>3
            <4> QED BY <2>0, <3>1, <3>3, <4>1
        <3> QED BY <2>0, <3>2, <3>3
    <2>3. i \in 1..n \/ i = n + 1
        BY <1>1
    <2> QED BY <2>1, <2>2, <2>3, Zenon
<1> QED BY <1>2, <1>5, <1>6 DEF Delivered

(* Every step of the client and of its stream keeps it.                    *)
LEMMA ShowsClient ==
    ASSUME ShowsInv, TypeOK', ClientNext
    PROVE  ShowsInv'
<1>1. UNCHANGED <<run, bus, registry>>
    BY DEF ClientNext, AskToken, TokenExpires, Connect, Breaks, StreamNext, ReadJob, StartOrPoll,
           Replay, Follows, KeepAlive, tasks
<1>2. \A r \in Runs : EndsOnce(r)'
    BY <1>1 DEF ShowsInv, EndsOnce
<1>3. Delivered /\ Stored /\ StreamStage /\ TypeOK
    BY DEF ShowsInv
<1>4. /\ client \in StreamStates /\ DOMAIN client = {"at", "settled", "of", "since", "replayed",
                                                     "taken", "polls"}
      /\ client.replayed \in Nat /\ client.taken \in Nat /\ client.since \in Nat
      /\ registry \in Runs \cup {NoRun} /\ NoRun \notin Runs
    BY StreamAssumption DEF ShowsInv, TypeOK, StreamStates
<1>5. \A r \in Runs : Len(bus[r]) \in Nat
    BY LenProperties DEF ShowsInv, TypeOK
<1> SUFFICES Delivered' /\ Stored' /\ StreamStage'
    BY <1>2 DEF ShowsInv
<1>6. ASSUME UNCHANGED <<client, seen>>
      PROVE  Delivered' /\ Stored' /\ StreamStage'
    BY <1>1, <1>3, <1>6 DEF Delivered, Stored, StreamStage
<1>7. CASE AskToken \/ TokenExpires \/ Connect \/ Breaks
    <2>1. \/ UNCHANGED <<client, seen>>
          \/ /\ \E at \in {"idle", "handler", "refused", "broken"} : client' = NoStream(at)
             /\ seen' = <<>>
        BY <1>7 DEF AskToken, TokenExpires, Connect, Breaks
    <2> QED BY <1>6, <2>1, NothingShown
<1>8. ASSUME NEW at \in {"start", "poll", "done"}, client'.at = at, UNCHANGED seen,
             client.at # "start" /\ client.at # "poll" => at = "start" \/ at = "done",
             client'.of = client.of, client'.since = client.since,
             client'.replayed = client.replayed, client'.taken = client.taken,
             at \in {"start", "poll"} => client.of = NoRun
      PROVE  Delivered' /\ Stored' /\ StreamStage'
    BY <1>1, <1>3, <1>4, <1>8 DEF Delivered, Stored, StreamStage
<1>9. CASE ReadJob
    <2>1. client.at = "handler" /\ UNCHANGED seen
        BY <1>9 DEF ReadJob
    <2>2. /\ client'.at = "start" /\ client'.of = client.of /\ client'.since = client.since
          /\ client'.replayed = client.replayed /\ client'.taken = client.taken
        BY <1>4, <1>9 DEF ReadJob
    <2>3. client.of = NoRun
        BY <1>3, <2>1 DEF StreamStage
    <2> QED BY <1>8, <2>1, <2>2, <2>3
<1>10. CASE StartOrPoll
    <2>1. client.of = NoRun /\ client.at \in {"start", "poll"} /\ UNCHANGED seen
        BY <1>3, <1>10 DEF StartOrPoll, StreamStage
    <2>2. client.replayed = 0 /\ client.taken = 0 /\ client.since = 0
        BY <1>3, <2>1 DEF Stored
    <2>3. Len(seen) = 0
        BY <1>3, <2>2 DEF Delivered
    <2>4. CASE ClientGoes("done") \/ ClientGoes("poll") \/ client' = [client EXCEPT !.polls = @ + 1]
        <3>1. /\ client'.at \in {"start", "poll", "done"}
              /\ client'.of = client.of /\ client'.since = client.since
              /\ client'.replayed = client.replayed /\ client'.taken = client.taken
            BY <1>4, <2>1, <2>4 DEF ClientGoes
        <3> QED BY <1>8, <2>1, <3>1
    <2>5. CASE client' = NoStream("unavailable")
        <3>1. seen = <<>>
            BY <1>3, <2>3, EmptySeq DEF TypeOK
        <3> QED BY <2>1, <2>5, <3>1, NothingShown
    <2>6. CASE registry # NoRun /\ client' = [client EXCEPT !.at = "final", !.of = registry]
        <3>1. /\ client'.at = "final" /\ client'.of = registry /\ client'.since = client.since
              /\ client'.replayed = client.replayed /\ client'.taken = client.taken
            BY <1>4, <2>6
        <3>2. Delivered'
            BY <1>3, <2>1, <2>2, <2>3, <3>1 DEF Delivered
        <3>3. registry \in Runs /\ bus'[registry] = bus[registry] /\ Len(bus[registry]) \in Nat
            BY <1>1, <1>4, <1>5, <2>6
        <3>4. Stored' /\ StreamStage'
            BY <1>4, <2>2, <3>1, <3>3 DEF Stored, StreamStage
        <3> QED BY <3>2, <3>4
    <2>7. CASE registry # NoRun /\ client' = Subscribed
        <3>1. /\ client'.at = "replay" /\ client'.of = registry
              /\ client'.since = Len(bus[registry])
              /\ client'.replayed = client.replayed /\ client'.taken = client.taken
            BY <1>4, <2>7 DEF Subscribed
        <3> QED BY <1>1, <1>3, <1>4, <1>5, <2>1, <2>2, <2>3, <2>7, <3>1
            DEF Delivered, Stored, StreamStage
    <2> QED BY <1>10, <2>4, <2>5, <2>6, <2>7 DEF StartOrPoll
<1>11. CASE Replay
    <2>1. client.at \in {"replay", "final"} /\ client.of \in Runs /\ client.taken = 0
        BY <1>3, <1>11 DEF Replay, StreamStage
    <2>2. CASE client.replayed < Len(Events)
        <3>1. /\ seen' = Append(seen, client.replayed + 1)
              /\ client' = [client EXCEPT !.replayed = @ + 1]
            BY <1>11, <2>2 DEF Replay
        <3>2. /\ client'.at = client.at /\ client'.of = client.of /\ client'.since = client.since
              /\ client'.replayed = client.replayed + 1 /\ client'.taken = client.taken
            BY <1>4, <3>1
        <3>3. Delivered'
            BY <1>3, <1>4, <2>1, <3>1, <3>2, DeliversOne
        <3> QED BY <1>1, <1>3, <1>4, <1>5, <2>1, <2>2, <3>2, <3>3 DEF Stored, StreamStage, Events
    <2>3. CASE ~(client.replayed < Len(Events))
        <3>1. /\ UNCHANGED seen
              /\ client' = [client EXCEPT !.at = IF client.at = "final" THEN "done" ELSE "live"]
            BY <1>11, <2>3 DEF Replay, ClientGoes
        <3>2. /\ client'.at \in {"done", "live"}
              /\ client'.of = client.of /\ client'.since = client.since
              /\ client'.replayed = client.replayed /\ client'.taken = client.taken
            BY <1>4, <3>1
        <3>3. client.since <= client.replayed
            BY <1>3, <1>4, <1>5, <2>1, <2>3 DEF Stored, Events
        <3> QED BY <1>1, <1>3, <1>4, <2>1, <3>1, <3>2, <3>3 DEF Delivered, Stored, StreamStage
    <2> QED BY <2>2, <2>3
<1>12. CASE Follows
    <2>1. /\ client.at = "live" /\ client.of \in Runs /\ client.since <= client.replayed
          /\ NextQueued <= Len(bus[client.of]) /\ seen' = Append(seen, NextQueued)
          /\ NextQueued = client.since + client.taken + 1 /\ NextQueued \in Nat
        BY <1>3, <1>4, <1>12 DEF Follows, StreamStage, NextQueued, Events
    <2>2. \E at \in {"done", "live"} : client' = [client EXCEPT !.taken = @ + 1, !.at = at]
        BY <1>12 DEF Follows
    <2>3. /\ client'.at \in {"done", "live"}
          /\ client'.of = client.of /\ client'.since = client.since
          /\ client'.replayed = client.replayed /\ client'.taken = client.taken + 1
        BY <1>4, <2>2
    <2>4. Delivered'
        BY <1>3, <1>4, <2>1, <2>3, DeliversOne
    <2> QED BY <1>1, <1>3, <1>4, <1>5, <2>1, <2>3, <2>4 DEF Stored, StreamStage
<1>13. CASE KeepAlive
    <2>1. client.at = "live" /\ UNCHANGED seen /\ client' = [client EXCEPT !.at = "done"]
        BY <1>13 DEF KeepAlive, ClientGoes
    <2>2. /\ client'.at = "done" /\ client'.of = client.of /\ client'.since = client.since
          /\ client'.replayed = client.replayed /\ client'.taken = client.taken
        BY <1>4, <2>1
    <2> QED BY <1>8, <2>1, <2>2
<1> QED BY <1>7, <1>9, <1>10, <1>11, <1>12, <1>13 DEF ClientNext, StreamNext

(* What the invariant says of the stream, read off the two parts.          *)
LEMMA ShowsAll == ShowsInv => StreamShowsBus
<1> SUFFICES ASSUME ShowsInv
             PROVE  StreamShowsBus
    OBVIOUS
<1> DEFINE a == client.replayed
           b == client.since
           t == client.taken
           n == Len(seen)
<1>1. a \in Nat /\ b \in Nat /\ t \in Nat /\ n \in Nat /\ DOMAIN seen = 1..n /\ n = a + t
    BY LenProperties DEF ShowsInv, TypeOK, StreamStates, Delivered
<1>2. \A i \in 1..n : seen[i] = IF i <= a THEN i ELSE b + (i - a)
    BY DEF ShowsInv, Delivered
<1>3. t > 0 => b <= a
    BY DEF ShowsInv, StreamStage
<1> HIDE DEF a, b, t, n
<1>4. InOrder
    <2> SUFFICES ASSUME NEW i \in 1..n
                 PROVE  /\ i = 1 => seen[i] = 1
                        /\ i > 1 => \/ seen[i] = seen[i - 1] + 1
                                    \/ i = a + 1 /\ seen[i] = b + 1
        BY <1>1 DEF InOrder, a, b
    <2>1. i = 1 => seen[i] = 1
        BY <1>1, <1>2, <1>3
    <2>2. ASSUME i > 1
          PROVE  seen[i] = seen[i - 1] + 1 \/ (i = a + 1 /\ seen[i] = b + 1)
        <3>1. i - 1 \in 1..n
            BY <1>1, <2>2
        <3> QED BY <1>1, <1>2, <2>2, <3>1
    <2> QED BY <2>1, <2>2
<1>5. RepeatsAreLive
    <2> SUFFICES ASSUME NEW i \in 1..n, NEW j \in 1..n, i < j, seen[i] = seen[j]
                 PROVE  seen[i] > b
        BY <1>1 DEF RepeatsAreLive, b
    <2> QED BY <1>1, <1>2
<1>6. SeesTheEnd
    <2> SUFFICES ASSUME seen # <<>>, Events[seen[n]].type = "complete"
                 PROVE  {seen[i] : i \in 1..n} = DOMAIN Events
        BY <1>1 DEF SeesTheEnd, n
    <2> DEFINE L == Len(Events)
    <2>1. n > 0
        BY <1>1, EmptySeq DEF ShowsInv, TypeOK, n
    <2>2. client.of \in Runs /\ Events \in Seq(EventStates)
        <3>1. client.of # NoRun
            BY <1>1, <2>1 DEF ShowsInv, Stored, a, t
        <3> QED BY <3>1 DEF ShowsInv, TypeOK, StreamStates, Events
    <2>3. L \in Nat /\ DOMAIN Events = 1..L /\ a <= L /\ b + t <= L
        BY <2>2, LenProperties DEF ShowsInv, Stored, Events, a, b, t
    <2>4. \A i \in 1..L : Events[i].type = "complete" => i = L
        BY <2>2 DEF ShowsInv, EndsOnce, Events
    <2> HIDE DEF L
    <2>5. seen[n] \in 1..L
        BY <1>1, <1>2, <1>3, <2>1, <2>3
    <2>6. seen[n] = L
        BY <2>4, <2>5
    <2>7. \A i \in 1..n : seen[i] \in 1..L
        BY SMTT(30), <1>1, <1>2, <1>3, <2>3
    <2>8. ASSUME NEW k \in 1..L
          PROVE  \E i \in 1..n : seen[i] = k
        <3>1. CASE k <= a
            <4>1. k \in 1..n /\ seen[k] = k
                BY <1>1, <1>2, <2>3, <3>1
            <4> QED BY <4>1
        <3>2. CASE ~(k <= a)
            <4>1. t > 0 /\ b + t = L
                BY <1>1, <1>2, <2>1, <2>3, <2>6, <3>2
            <4>2. a + (k - b) \in 1..n /\ seen[a + (k - b)] = k
                BY <1>1, <1>2, <1>3, <2>3, <3>2, <4>1
            <4> QED BY <4>2
        <3> QED BY <3>1, <3>2
    <2> QED BY <2>3, <2>7, <2>8
<1> QED BY <1>4, <1>5, <1>6 DEF StreamShowsBus

(* In every reachable state a stream has shown its bus from the start, in  *)
(* order and without a gap, repeating at most once what was published      *)
(* while it replayed; and who saw the job complete saw everything.         *)
THEOREM StreamAlwaysShowsBus == Spec => []StreamShowsBus
<1>1. Init => Delivered /\ Stored /\ StreamStage /\ \A r \in Runs : EndsOnce(r)
    <2> SUFFICES ASSUME Init
                 PROVE  Delivered /\ Stored /\ StreamStage /\ \A r \in Runs : EndsOnce(r)
        OBVIOUS
    <2>1. /\ client.at = "idle" /\ client.of = NoRun /\ client.since = 0 /\ client.replayed = 0
          /\ client.taken = 0 /\ Len(seen) = 0
        BY EmptySeq DEF Init, NoStream
    <2>2. \A r \in Runs : Len(bus[r]) = 0
        BY EmptySeq DEF Init
    <2> QED BY <2>1, <2>2, StreamAssumption DEF Delivered, Stored, StreamStage, EndsOnce
<1>2. ASSUME ShowsInv, TypeOK', [Next]_vars
      PROVE  ShowsInv'
    <2>1. CASE Crash
        <3>1. UNCHANGED bus
            BY <2>1 DEF Crash
        <3>2. \A r \in Runs : EndsOnce(r)'
            <4>1. \A r \in Runs : run[r].at \in Left => run'[r].at \in Left
                BY <2>1 DEF Crash, Left, ShowsInv, TypeOK, RunStates
            <4> QED BY <1>2, <3>1, <4>1 DEF ShowsInv, EndsOnce
        <3>3. \/ UNCHANGED <<client, seen>>
              \/ client' = NoStream("broken") /\ seen' = <<>>
            BY <2>1 DEF Crash
        <3>4. Delivered' /\ Stored' /\ StreamStage'
            BY <1>2, <3>1, <3>3, NothingShown DEF ShowsInv, Delivered, Stored, StreamStage
        <3> QED BY <1>2, <3>2, <3>4 DEF ShowsInv
    <2>2. CASE WrittenByOthers \/ UNCHANGED vars
        <3>1. UNCHANGED <<run, bus, client, seen>>
            BY <2>2 DEF WrittenByOthers, tasks, stream, vars
        <3> QED BY <1>2, <3>1 DEF ShowsInv, Delivered, Stored, StreamStage, EndsOnce
    <2> QED BY <1>2, <2>1, <2>2, ShowsTasks, ShowsClient DEF Next
<1>3. Spec => []TypeOK
    BY JobStreamTyped
<1>4. Init /\ TypeOK => ShowsInv
    BY <1>1 DEF ShowsInv
<1>5. ShowsInv /\ TypeOK' /\ [Next]_vars => ShowsInv'
    BY <1>2
<1> QED BY <1>3, <1>4, <1>5, ShowsAll, PTL DEF Spec
=============================================================================
