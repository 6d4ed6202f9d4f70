----------------------- MODULE CircuitBreaker_proofs ------------------------
(***************************************************************************)
(* Theorems about CircuitBreaker for every set of calls, every threshold   *)
(* and every timeout.                                                      *)
(***************************************************************************)
EXTENDS CircuitBreaker, FiniteSetTheorems, TLAPS

(* What taking and ending a call does to the number of probes.             *)
LEMMA ProbeCount ==
    ASSUME TypeOK, NEW c \in Calls
    PROVE  /\ Cardinality(probing) \in Nat
           /\ Cardinality(probing \ {c}) \in Nat
           /\ c \notin probing => /\ Cardinality(probing \cup {c}) = Cardinality(probing) + 1
                                  /\ probing \ {c} = probing
           /\ c \in probing => Cardinality(probing \ {c}) = Cardinality(probing) - 1
<1>1. IsFiniteSet(probing)
    BY FS_Subset, BreakerAssumption DEF TypeOK
<1>2. IsFiniteSet(probing \ {c})
    BY <1>1, FS_RemoveElement
<1>3. Cardinality(probing) \in Nat /\ Cardinality(probing \ {c}) \in Nat
    BY <1>1, <1>2, FS_CardinalityType
<1>4. c \notin probing => Cardinality(probing \cup {c}) = Cardinality(probing) + 1
    BY <1>1, FS_AddElement
<1>5. c \in probing => Cardinality(probing \ {c}) = Cardinality(probing) - 1
    BY <1>1, FS_RemoveElement
<1>6. c \notin probing => probing \ {c} = probing
    OBVIOUS
<1> QED BY <1>3, <1>4, <1>5, <1>6

LEMMA ProbeCountEnds == Cardinality({}) = 0 /\ \A c : Cardinality({c}) = 1
BY FS_EmptySet, FS_Singleton

-----------------------------------------------------------------------------
(* Type correctness.                                                       *)

LEMMA OutcomeTyped ==
    ASSUME TypeOK, NEW c \in Calls, RecordSuccess(c) \/ RecordFailure
    PROVE  /\ state' \in {"closed", "open", "half_open"}
           /\ failure_count' \in Nat /\ success_count' \in Nat /\ half_open_calls' \in Nat
           /\ since' \in 0..Never
           /\ probing' \subseteq Calls
           /\ strays' \in Nat /\ lost' \in Nat
<1>1. CASE RecordSuccess(c)
    BY <1>1, BreakerAssumption
    DEF TypeOK, RecordSuccess, Released, Ends, TransitionToClosed, NewPeriod, breaker, period, Never
<1>2. CASE RecordFailure
    BY <1>2, BreakerAssumption
    DEF TypeOK, RecordFailure, TransitionToOpen, NewPeriod, breaker, period, Never
<1> QED BY <1>1, <1>2

LEMMA GoesTyped ==
    ASSUME TypeOK, NEW c \in Calls, NEW step \in Stages, Goes(c, step)
    PROVE  /\ kind' \in {"upload", "download", "convert"} /\ healthy' \in BOOLEAN
           /\ call' \in [Calls -> Stages]
BY DEF TypeOK, Goes, Stages

LEMMA EnterTyped ==
    ASSUME TypeOK, NEW c \in Calls, Enter(c)
    PROVE  /\ kind' \in {"upload", "download", "convert"} /\ healthy' \in BOOLEAN
           /\ call' \in [Calls -> Stages]
           /\ attempt' \in [Calls -> 0..MaxAttempts]
<1>1. 1 \in 0..MaxAttempts
    BY BreakerAssumption
<1> QED BY <1>1 DEF TypeOK, Enter, Stages

(* Every step keeps the types.                                             *)
LEMMA TypeStep == TypeOK /\ [Next]_vars => TypeOK'
<1> SUFFICES ASSUME TypeOK, [Next]_vars
             PROVE  TypeOK'
    OBVIOUS
<1>1. ASSUME NEW c \in Calls, AdmitClosed(c)
      PROVE  TypeOK'
    BY <1>1, EnterTyped DEF AdmitClosed, TypeOK, breaker, period
<1>2. ASSUME NEW c \in Calls, AdmitFirstProbe(c)
      PROVE  TypeOK'
    BY <1>2, EnterTyped DEF AdmitFirstProbe, TypeOK
<1>3. ASSUME NEW c \in Calls, AdmitProbe(c)
      PROVE  TypeOK'
    BY <1>3, EnterTyped DEF AdmitProbe, TypeOK
<1>4. ASSUME NEW c \in Calls, Succeed(c)
      PROVE  TypeOK'
    BY <1>4, GoesTyped, OutcomeTyped DEF Succeed, TypeOK, Stages
<1>5. ASSUME NEW c \in Calls, ReadFails(c)
      PROVE  TypeOK'
    <2>1. /\ state' \in {"closed", "open", "half_open"}
          /\ failure_count' \in Nat /\ success_count' \in Nat /\ half_open_calls' \in Nat
          /\ since' \in 0..Never
          /\ probing' \subseteq Calls
          /\ strays' \in Nat /\ lost' \in Nat
        BY <1>5, OutcomeTyped, BreakerAssumption
        DEF ReadFails, TypeOK, TransitionToOpen, NewPeriod, Never
    <2> QED BY <1>5, <2>1, GoesTyped DEF ReadFails, TypeOK, Stages
<1>6. ASSUME NEW c \in Calls, Fail(c)
      PROVE  TypeOK'
    BY <1>6, GoesTyped, OutcomeTyped DEF Fail, TypeOK, Stages
<1>7. ASSUME NEW c \in Calls, FailAndRetry(c)
      PROVE  TypeOK'
    <2>1. attempt' \in [Calls -> 0..MaxAttempts]
        BY <1>7, BreakerAssumption DEF FailAndRetry, TypeOK
    <2> QED BY <1>7, <2>1, GoesTyped, OutcomeTyped DEF FailAndRetry, TypeOK, Stages
<1>8. ASSUME NEW c \in Calls, Abandon(c) \/ Cancel(c)
      PROVE  TypeOK'
    BY <1>8, GoesTyped DEF Abandon, Cancel, EndUntold, TypeOK, breaker, Stages
<1>9. CASE Heal
    BY <1>9 DEF Heal, TypeOK, breaker, period
<1>10. CASE Tick
    BY <1>10, BreakerAssumption DEF Tick, TypeOK, period, Never
<1>11. CASE UNCHANGED vars
    BY <1>11 DEF vars, breaker, period, TypeOK
<1>12. ASSUME NEW c \in Calls, Acquire(c) \/ Resume(c)
       PROVE  TypeOK'
    BY <1>12, GoesTyped DEF Acquire, Resume, TypeOK, breaker, period, Stages
<1> QED BY <1>1, <1>2, <1>3, <1>4, <1>5, <1>6, <1>7, <1>8, <1>9, <1>10, <1>11, <1>12
        DEF Next, Admit, Finish

(* The types hold in every reachable state of the breaker and its calls.   *)
THEOREM BreakerTyped == Spec => []TypeOK
<1>1. Init => TypeOK
    <2>1. 0 \in 0..MaxAttempts /\ Never \in 0..Never
        BY BreakerAssumption DEF Never
    <2> SUFFICES ASSUME Init
                 PROVE  TypeOK
        OBVIOUS
    <2>2. state \in {"closed", "open", "half_open"} /\ healthy \in BOOLEAN /\ probing \subseteq Calls
        BY DEF Init
    <2>3. call \in [Calls -> Stages]
        BY DEF Init, Stages
    <2>4. attempt \in [Calls -> 0..MaxAttempts]
        BY <2>1 DEF Init
    <2>5. /\ failure_count \in Nat /\ success_count \in Nat /\ half_open_calls \in Nat
          /\ since \in 0..Never /\ strays \in Nat /\ lost \in Nat
        BY <2>1 DEF Init
    <2> QED BY <2>2, <2>3, <2>4, <2>5 DEF Init, TypeOK
<1> QED BY <1>1, TypeStep, PTL DEF Spec

-----------------------------------------------------------------------------
(* The counters. They are disturbed by the breaker's own methods only, so  *)
(* the steps of a call reduce to the methods it runs.                      *)

LEMMA OutcomeCounters ==
    ASSUME TypeOK, CountersAgree, NEW c \in Calls, RecordSuccess(c) \/ RecordFailure
    PROVE  CountersAgree'
<1>1. CASE RecordSuccess(c)
    BY <1>1, BreakerAssumption
    DEF TypeOK, CountersAgree, RecordSuccess, Released, TransitionToClosed, breaker, Never
<1>2. CASE RecordFailure
    BY <1>2, BreakerAssumption
    DEF TypeOK, CountersAgree, RecordFailure, TransitionToOpen, breaker, Never
<1> QED BY <1>1, <1>2

LEMMA CountersStep == TypeOK /\ CountersAgree /\ [Next]_vars => CountersAgree'
<1> SUFFICES ASSUME TypeOK, CountersAgree, [Next]_vars
             PROVE  CountersAgree'
    OBVIOUS
<1>1. ASSUME NEW c \in Calls, Admit(c)
      PROVE  CountersAgree'
    <2>1. CASE AdmitClosed(c)
        BY <2>1 DEF AdmitClosed, CountersAgree, breaker, Never
    <2>2. CASE AdmitFirstProbe(c)
        BY <2>2, BreakerAssumption DEF AdmitFirstProbe, CountersAgree
    <2>3. CASE AdmitProbe(c)
        BY <2>3, BreakerAssumption DEF AdmitProbe, SlotFree, CountersAgree, TypeOK
    <2> QED BY <1>1, <2>1, <2>2, <2>3 DEF Admit
<1>2. ASSUME NEW c \in Calls, Finish(c)
      PROVE  CountersAgree'
    <2>1. CASE Succeed(c) \/ Fail(c) \/ FailAndRetry(c)
        BY <2>1, OutcomeCounters DEF Succeed, Fail, FailAndRetry
    <2>2. CASE ReadFails(c)
        <3>1. CASE RecordFailure
            BY <3>1, OutcomeCounters
        <3>2. CASE ~RecordFailure
            BY <2>2, <3>2, BreakerAssumption
            DEF ReadFails, TransitionToOpen, TypeOK, CountersAgree, Never
        <3> QED BY <3>1, <3>2
    <2>3. CASE Abandon(c)
        BY <2>3 DEF Abandon, EndUntold, CountersAgree, breaker, Never
    <2> QED BY <1>2, <2>1, <2>2, <2>3 DEF Finish
<1>3. CASE Heal
    BY <1>3 DEF Heal, CountersAgree, breaker, Never
<1>4. CASE Tick
    BY <1>4, BreakerAssumption DEF Tick, TypeOK, CountersAgree, Never
<1>5. CASE UNCHANGED vars
    BY <1>5 DEF vars, breaker, CountersAgree, Never
<1>6. ASSUME NEW c \in Calls, Acquire(c) \/ Resume(c) \/ Cancel(c)
      PROVE  CountersAgree'
    BY <1>6 DEF Acquire, Resume, Cancel, EndUntold, CountersAgree, breaker, Never
<1> QED BY <1>1, <1>2, <1>3, <1>4, <1>5, <1>6 DEF Next

(* An open breaker always knows what it waits for, a closed one is below   *)
(* its failure threshold and a half-open one holds no slot too many, in    *)
(* whatever order overlapping calls end (check_state, record_success and   *)
(* record_failure).                                                        *)
THEOREM CountersAlwaysAgree == Spec => []CountersAgree
<1>1. Init => CountersAgree
    BY BreakerAssumption DEF Init, CountersAgree
<1> QED BY <1>1, CountersStep, BreakerTyped, PTL DEF Spec

-----------------------------------------------------------------------------
(* The slots. A probe is a call in flight, so a call that enters is not    *)
(* one, and there are probes only while the breaker is half-open. The      *)
(* slots taken and the probes in flight then differ by exactly the calls   *)
(* that ended without telling, one way, and the calls of earlier periods   *)
(* that freed a slot, the other.                                           *)

ProbesInFlight ==
    /\ \A c \in probing : call[c] # "out"
    /\ state # "half_open" => probing = {}

SlotsCoverProbes ==
    state = "half_open" => Cardinality(probing) <= half_open_calls + strays

SlotInv == ProbesInFlight /\ SlotsCoverProbes /\ SlotsAreAccounted

(* Ending a call frees a slot or counts as a stray.                        *)
LEMMA EndsSlots ==
    ASSUME TypeOK, SlotInv, NEW c \in Calls, Ends(c), state = "half_open",
           half_open_calls' = Released, lost' = lost
    PROVE  /\ Cardinality(probing') <= half_open_calls' + strays'
           /\ half_open_calls' <= Cardinality(probing') + lost'
<1>1. /\ Cardinality(probing) <= half_open_calls + strays
      /\ half_open_calls <= Cardinality(probing) + lost
    BY DEF SlotInv, SlotsCoverProbes, SlotsAreAccounted
<1>2. half_open_calls \in Nat /\ strays \in Nat /\ lost \in Nat
    BY DEF TypeOK
<1>3. probing' = probing \ {c} /\ strays' = IF c \in probing THEN strays ELSE strays + 1
    BY DEF Ends
<1>4. CASE c \in probing
    <2>1. Cardinality(probing') = Cardinality(probing) - 1 /\ strays' = strays
        BY <1>3, <1>4, ProbeCount
    <2>2. Cardinality(probing) \in Nat /\ Cardinality(probing') \in Nat
        BY <1>3, ProbeCount
    <2> QED BY <1>1, <1>2, <2>1, <2>2 DEF Released
<1>5. CASE c \notin probing
    <2>1. Cardinality(probing') = Cardinality(probing) /\ strays' = strays + 1
        BY <1>3, <1>5, ProbeCount
    <2>2. Cardinality(probing) \in Nat
        BY ProbeCount
    <2> QED BY <1>1, <1>2, <2>1, <2>2 DEF Released
<1> QED BY <1>4, <1>5

(* Outside a half-open period nothing is claimed of the slots.             *)
LEMMA NoPeriod == probing = {} /\ state # "half_open" => SlotInv
BY DEF SlotInv, ProbesInFlight, SlotsCoverProbes, SlotsAreAccounted

LEMMA SuccessSlots ==
    ASSUME TypeOK, SlotInv, NEW c \in Calls, Succeed(c)
    PROVE  SlotInv'
<1>1. CASE state = "half_open" /\ success_count + 1 < success_threshold
    <2>1. Ends(c) /\ half_open_calls' = Released /\ lost' = lost /\ state' = state
        <3>1. ~(success_count + 1 >= success_threshold)
            BY <1>1, BreakerAssumption DEF TypeOK
        <3> QED BY <1>1, <3>1 DEF Succeed, RecordSuccess
    <2>2. SlotsCoverProbes' /\ SlotsAreAccounted'
        BY <1>1, <2>1, EndsSlots DEF SlotsCoverProbes, SlotsAreAccounted
    <2>3. ProbesInFlight'
        BY <1>1, <2>1 DEF SlotInv, ProbesInFlight, Ends, Succeed, Goes, TypeOK
    <2> QED BY <2>2, <2>3 DEF SlotInv
<1>2. CASE state = "half_open" /\ ~(success_count + 1 < success_threshold)
    <2>1. probing' = {} /\ state' = "closed"
        BY <1>2 DEF Succeed, RecordSuccess, TransitionToClosed, NewPeriod
    <2> QED BY <2>1 DEF SlotInv, ProbesInFlight, SlotsCoverProbes, SlotsAreAccounted
<1>3. CASE state # "half_open"
    <2>1. probing = {}
        BY <1>3 DEF SlotInv, ProbesInFlight
    <2>2. probing' = probing /\ state' = state
        BY <1>3 DEF Succeed, RecordSuccess, breaker, period
    <2> QED BY <1>3, <2>1, <2>2 DEF SlotInv, ProbesInFlight, SlotsCoverProbes, SlotsAreAccounted
<1> QED BY <1>1, <1>2, <1>3

(* After a failure the breaker is not half-open.                           *)
LEMMA FailureSlots ==
    ASSUME TypeOK, SlotInv, NEW c \in Calls, Fail(c) \/ FailAndRetry(c) \/ ReadFails(c)
    PROVE  SlotInv'
<1>1. probing' = {} /\ state' # "half_open"
    <2>1. state # "half_open" => probing = {}
        BY DEF SlotInv, ProbesInFlight
    <2>2. CASE RecordFailure
        BY <2>1, <2>2 DEF RecordFailure, TransitionToOpen, NewPeriod, period, TypeOK
    <2>3. CASE ~RecordFailure
        BY <2>3 DEF Fail, FailAndRetry, ReadFails, TransitionToOpen, NewPeriod
    <2> QED BY <2>2, <2>3
<1> QED BY <1>1 DEF SlotInv, ProbesInFlight, SlotsCoverProbes, SlotsAreAccounted

(* A call that ends without telling keeps its slot, and is counted lost.   *)
LEMMA AbandonSlots ==
    ASSUME TypeOK, SlotInv, NEW c \in Calls, Abandon(c) \/ Cancel(c)
    PROVE  SlotInv'
<1>1. /\ probing' = probing \ {c} /\ state' = state /\ strays' = strays
      /\ half_open_calls' = half_open_calls
      /\ lost' = IF c \in probing THEN lost + 1 ELSE lost
    BY DEF Abandon, Cancel, EndUntold, breaker
<1>2. ProbesInFlight'
    BY <1>1 DEF SlotInv, ProbesInFlight, Abandon, Cancel, EndUntold, Goes, TypeOK
<1>3. half_open_calls \in Nat /\ strays \in Nat /\ lost \in Nat
    BY DEF TypeOK
<1>4. SlotsCoverProbes' /\ SlotsAreAccounted'
    BY <1>1, <1>3, ProbeCount DEF SlotInv, SlotsCoverProbes, SlotsAreAccounted
<1> QED BY <1>2, <1>4 DEF SlotInv

LEMMA AdmitSlots ==
    ASSUME TypeOK, SlotInv, NEW c \in Calls, Admit(c)
    PROVE  SlotInv'
<1>1. c \notin probing
    BY DEF Admit, AdmitClosed, AdmitFirstProbe, AdmitProbe, Enter, SlotInv, ProbesInFlight
<1>2. CASE AdmitClosed(c)
    <2>1. probing' = {} /\ state' # "half_open"
        BY <1>2 DEF AdmitClosed, breaker, period, SlotInv, ProbesInFlight
    <2> QED BY <2>1 DEF SlotInv, ProbesInFlight, SlotsCoverProbes, SlotsAreAccounted
<1>3. CASE AdmitFirstProbe(c)
    <2>1. ProbesInFlight'
        BY <1>3 DEF AdmitFirstProbe, Enter, ProbesInFlight, TypeOK
    <2>2. Cardinality(probing') = 1 /\ half_open_calls' = 1 /\ strays' = 0 /\ lost' = 0
        BY <1>3, ProbeCountEnds DEF AdmitFirstProbe
    <2>3. SlotsCoverProbes' /\ SlotsAreAccounted'
        BY <2>2 DEF SlotsCoverProbes, SlotsAreAccounted
    <2> QED BY <2>1, <2>3 DEF SlotInv
<1>4. CASE AdmitProbe(c)
    <2>1. ProbesInFlight'
        BY <1>4 DEF AdmitProbe, Enter, SlotInv, ProbesInFlight, TypeOK
    <2>2. /\ Cardinality(probing') = Cardinality(probing) + 1
          /\ Cardinality(probing) \in Nat
        BY <1>1, <1>4, ProbeCount DEF AdmitProbe
    <2>3. /\ half_open_calls' = half_open_calls + 1 /\ strays' = strays /\ lost' = lost
          /\ state = "half_open"
        BY <1>4 DEF AdmitProbe
    <2>4. half_open_calls \in Nat /\ strays \in Nat /\ lost \in Nat
        BY DEF TypeOK
    <2>5. SlotsCoverProbes' /\ SlotsAreAccounted'
        BY <2>2, <2>3, <2>4 DEF SlotInv, SlotsCoverProbes, SlotsAreAccounted
    <2> QED BY <2>1, <2>5 DEF SlotInv
<1> QED BY <1>2, <1>3, <1>4 DEF Admit

LEMMA SlotStep == TypeOK /\ SlotInv /\ [Next]_vars => SlotInv'
<1> SUFFICES ASSUME TypeOK, SlotInv, [Next]_vars
             PROVE  SlotInv'
    OBVIOUS
<1>1. ASSUME NEW c \in Calls, Admit(c)
      PROVE  SlotInv'
    BY <1>1, AdmitSlots
<1>2. ASSUME NEW c \in Calls, Finish(c)
      PROVE  SlotInv'
    BY <1>2, SuccessSlots, FailureSlots, AbandonSlots DEF Finish
<1>3. CASE Heal \/ Tick \/ UNCHANGED vars
    <2>1. UNCHANGED <<state, half_open_calls, call, period>>
        BY <1>3 DEF Heal, Tick, vars, breaker
    <2> QED BY <2>1 DEF SlotInv, ProbesInFlight, SlotsCoverProbes, SlotsAreAccounted, period
<1>4. ASSUME NEW c \in Calls, Acquire(c) \/ Resume(c)
      PROVE  SlotInv'
    <2>1. UNCHANGED <<state, half_open_calls, period>>
        BY <1>4 DEF Acquire, Resume, breaker
    <2>2. \A d \in Calls : call[d] # "out" => call'[d] # "out"
        BY <1>4 DEF Acquire, Resume, Goes, TypeOK
    <2> QED BY <2>1, <2>2
            DEF SlotInv, ProbesInFlight, SlotsCoverProbes, SlotsAreAccounted, period, TypeOK
<1>5. ASSUME NEW c \in Calls, Cancel(c)
      PROVE  SlotInv'
    BY <1>5, AbandonSlots
<1> QED BY <1>1, <1>2, <1>3, <1>4, <1>5 DEF Next

LEMMA SlotInvariant == Spec => []SlotInv
<1>1. Init => SlotInv
    BY NoPeriod DEF Init
<1> QED BY <1>1, SlotStep, BreakerTyped, PTL DEF Spec

(* The breaker's arithmetic loses no slot: each one that is taken is that  *)
(* of a probe in flight or of a call that ended without telling            *)
(* (check_state, record_success, record_failure and the callers' exits).   *)
THEOREM SlotsAlwaysAccounted == Spec => []SlotsAreAccounted
<1>1. SlotInv => SlotsAreAccounted
    BY DEF SlotInv
<1> QED BY <1>1, SlotInvariant, PTL

(* A half-open breaker sends at most half_open_max_calls probes at once,   *)
(* and one more for each late outcome of an earlier period.                *)
THEOREM ProbesAlwaysBounded == Spec => []ProbesAreBounded
<1>1. TypeOK /\ CountersAgree /\ SlotInv => ProbesAreBounded
    <2> SUFFICES ASSUME TypeOK, CountersAgree, SlotInv, state = "half_open"
                 PROVE  Cardinality(probing) <= half_open_max_calls + strays
        BY DEF ProbesAreBounded
    <2>1. Cardinality(probing) \in Nat
        BY FS_Subset, FS_CardinalityType, BreakerAssumption DEF TypeOK
    <2> QED BY <2>1, BreakerAssumption DEF TypeOK, CountersAgree, SlotInv, SlotsCoverProbes
<1> QED BY <1>1, BreakerTyped, CountersAlwaysAgree, SlotInvariant, PTL

=============================================================================
