--------------------------- MODULE CircuitBreaker ---------------------------
(***************************************************************************)
(* A circuit breaker of the process and the calls it protects: S3 uploads, *)
(* S3 downloads or document conversions. Its methods hold a lock, so each  *)
(* is one action; a call that was admitted may end, in whatever state the  *)
(* breaker has reached by then, or end without telling the breaker. A      *)
(* conversion is admitted before it queues for the client's semaphore.     *)
(***************************************************************************)
EXTENDS Naturals, FiniteSets

CONSTANTS
    Calls,               \* the tasks that make calls
    failure_threshold,
    success_threshold,
    half_open_max_calls,
    timeout,             \* ticks an open breaker waits since the last failure
    MaxAttempts,         \* attempts of a conversion (max_retries + 1)
    MaxConcurrent        \* conversions at once (DOCLING_MAX_CONCURRENT)

ASSUME BreakerAssumption ==
    /\ IsFiniteSet(Calls)
    /\ failure_threshold \in Nat \ {0} /\ success_threshold \in Nat \ {0}
    /\ half_open_max_calls \in Nat \ {0}
    /\ timeout \in Nat /\ MaxAttempts \in Nat \ {0} /\ MaxConcurrent \in Nat \ {0}

VARIABLES
    kind,       \* which breaker this is: "upload", "download" or "convert"
    state, failure_count, success_count, half_open_calls,
    since,      \* time since _last_failure_time, "never" when it is None
    call,       \* where each task is
    attempt,    \* how many attempts its conversion has made
    healthy,    \* the service fails no call any more, not even for a
                \* missing object, which a download counts as a failure
    \* history
    probing,    \* calls admitted in this half-open period, not yet ended
    strays,     \* outcomes of other calls recorded in this period
    lost        \* calls of this period that ended without an outcome

breaker == <<state, failure_count, success_count, half_open_calls, since>>
period == <<probing, strays, lost>>
vars == <<kind, breaker, call, attempt, healthy, period>>

Never == timeout + 1

(* "queued": waits for the semaphore; "pausing": holds it between two      *)
(* attempts, until the service answers its health check or a delay is over *)
Stages == {"out", "queued", "in", "pausing"}

TypeOK ==
    /\ kind \in {"upload", "download", "convert"}
    /\ state \in {"closed", "open", "half_open"}
    /\ failure_count \in Nat /\ success_count \in Nat /\ half_open_calls \in Nat
    /\ since \in 0..Never
    /\ call \in [Calls -> Stages]
    /\ attempt \in [Calls -> 0..MaxAttempts]
    /\ healthy \in BOOLEAN
    /\ probing \subseteq Calls
    /\ strays \in Nat /\ lost \in Nat

Init ==
    /\ kind \in {"upload", "download", "convert"}
    /\ state = "closed"
    /\ failure_count = 0 /\ success_count = 0 /\ half_open_calls = 0
    /\ since = Never
    /\ call = [c \in Calls |-> "out"]
    /\ attempt = [c \in Calls |-> 0]
    /\ healthy = FALSE
    /\ probing = {} /\ strays = 0 /\ lost = 0

-----------------------------------------------------------------------------
(* The transitions, and the two ways to record an outcome.                 *)

NewPeriod == probing' = {} /\ strays' = 0 /\ lost' = 0

TransitionToClosed ==
    /\ state' = "closed"
    /\ failure_count' = 0 /\ success_count' = 0 /\ half_open_calls' = 0
    /\ since' = Never
    /\ NewPeriod

TransitionToOpen ==
    /\ state' = "open"
    /\ failure_count' = failure_count + 1
    /\ success_count' = 0 /\ half_open_calls' = 0
    /\ since' = 0
    /\ NewPeriod

(* max(0, half_open_calls - 1)                                             *)
Released == IF half_open_calls = 0 THEN 0 ELSE half_open_calls - 1

Ends(c) ==
    /\ probing' = probing \ {c}
    /\ strays' = IF c \in probing THEN strays ELSE strays + 1

MutantRecordSuccess(c) ==      \* a success keeps its slot
    \/ /\ state = "half_open" /\ success_count + 1 < success_threshold
       /\ success_count' = success_count + 1
       /\ Ends(c)
       /\ UNCHANGED <<state, failure_count, half_open_calls, since, lost>>
    \/ /\ state = "half_open" /\ success_count + 1 >= success_threshold
       /\ TransitionToClosed
    \/ /\ state # "half_open"
       /\ UNCHANGED <<breaker, period>>

RecordSuccess(c) ==
    \/ /\ state = "half_open" /\ success_count + 1 < success_threshold
       /\ success_count' = success_count + 1
       /\ half_open_calls' = Released
       /\ Ends(c)
       /\ UNCHANGED <<state, failure_count, since, lost>>
    \/ /\ state = "half_open" /\ success_count + 1 >= success_threshold
       /\ TransitionToClosed
    \/ /\ state = "closed"
       /\ failure_count' = 0
       /\ UNCHANGED <<state, success_count, half_open_calls, since, period>>
    \/ /\ state = "open"
       /\ UNCHANGED <<breaker, period>>

(* In every state a failure is counted and restarts the wait.              *)
RecordFailure ==
    \/ /\ state = "half_open" \/ (state = "closed" /\ failure_count + 1 >= failure_threshold)
       /\ TransitionToOpen
    \/ /\ state = "open" \/ (state = "closed" /\ failure_count + 1 < failure_threshold)
       /\ failure_count' = failure_count + 1
       /\ since' = 0
       /\ UNCHANGED <<state, success_count, half_open_calls, period>>

-----------------------------------------------------------------------------
(* The methods that ask a breaker, and what each may tell it: a success, a *)
(* failure, both in turn (the body of an object that was found cannot be   *)
(* read), or nothing. store_document validates the file after it was       *)
(* admitted and before its try; load_processing_result returns None for a  *)
(* missing object, which the other downloads count as a failure; convert   *)
(* tells nothing of an answer of 4xx or 504, of a connection that breaks   *)
(* while it reads and of a body that is no JSON. Nothing in the service    *)
(* calls upload_result, upload_image, upload_page_image,                   *)
(* upload_final_markdown and the two of processing results yet.            *)

Asks(name, told) == [breaker |-> name, tells |-> told]

store_document == Asks("upload", {"success", "failure", "nothing"})
upload_file == Asks("upload", {"success", "failure"})
upload_result == Asks("upload", {"success", "failure"})
upload_image == Asks("upload", {"success", "failure"})
upload_page_image == Asks("upload", {"success", "failure"})
save_processing_result == Asks("upload", {"success", "failure"})
upload_final_markdown == Asks("upload", {"success", "failure"})

download_temp_file == Asks("download", {"success", "failure", "both"})
download_file == Asks("download", {"success", "failure", "both"})
load_processing_result == Asks("download", {"success", "failure", "both", "nothing"})

convert == Asks("convert", {"success", "failure", "nothing"})

callers == {store_document, upload_file, upload_result, upload_image, upload_page_image,
            save_processing_result, upload_final_markdown,
            download_temp_file, download_file, load_processing_result, convert}

MayTell(what) == \E m \in callers : m.breaker = kind /\ what \in m.tells

-----------------------------------------------------------------------------
(* check_state, in the three cases in which it lets the call through. A    *)
(* call it refuses changes nothing. A conversion then awaits the semaphore *)

Enter(c) ==
    /\ call[c] = "out"
    /\ call' = [call EXCEPT ![c] = IF kind = "convert" THEN "queued" ELSE "in"]
    /\ attempt' = [attempt EXCEPT ![c] = 1]
    /\ UNCHANGED <<kind, healthy>>

AdmitClosed(c) ==
    /\ state = "closed"
    /\ Enter(c)
    /\ UNCHANGED <<breaker, period>>

(* _update_state and _transition_to_half_open: the first call after the    *)
(* wait starts a half-open period and takes its first slot.                *)
AdmitFirstProbe(c) ==
    /\ state = "open" /\ since = timeout
    /\ Enter(c)
    /\ state' = "half_open"
    /\ failure_count' = 0 /\ success_count' = 0 /\ half_open_calls' = 1
    /\ probing' = {c} /\ strays' = 0 /\ lost' = 0
    /\ UNCHANGED since

MutantSlotFree == half_open_calls <= half_open_max_calls
SlotFree == half_open_calls < half_open_max_calls

AdmitProbe(c) ==
    /\ state = "half_open" /\ SlotFree
    /\ Enter(c)
    /\ half_open_calls' = half_open_calls + 1
    /\ probing' = probing \cup {c}
    /\ UNCHANGED <<state, failure_count, success_count, since, strays, lost>>

Admit(c) == AdmitClosed(c) \/ AdmitFirstProbe(c) \/ AdmitProbe(c)

-----------------------------------------------------------------------------
(* What becomes of an admitted call.                                       *)

Goes(c, step) ==
    /\ call' = [call EXCEPT ![c] = step]
    /\ UNCHANGED <<kind, healthy>>

(* The conversions that hold the semaphore.                                *)
converting == {c \in Calls : call[c] \in {"in", "pausing"}}

(* async with _DOCLING_SEMAPHORE: the breaker is not asked again, whatever *)
(* has become of it while the conversion was queued.                       *)
Acquire(c) ==
    /\ call[c] = "queued"
    /\ Cardinality(converting) < MaxConcurrent
    /\ Goes(c, "in")
    /\ UNCHANGED <<breaker, attempt, period>>

Succeed(c) ==
    /\ call[c] = "in" /\ MayTell("success")
    /\ RecordSuccess(c)
    /\ Goes(c, "out")
    /\ UNCHANGED attempt

(* A download records its success before it reads the body, and a failure  *)
(* when the body cannot be read: both, with no await in between.           *)
ReadFails(c) ==
    /\ call[c] = "in" /\ ~healthy
    /\ MayTell("both")
    /\ \/ /\ state = "half_open" /\ success_count + 1 < success_threshold
          /\ TransitionToOpen
       \/ /\ state = "closed" \/ (state = "half_open" /\ success_count + 1 >= success_threshold)
          /\ state' = IF failure_threshold = 1 THEN "open" ELSE "closed"
          /\ failure_count' = 1 /\ success_count' = 0 /\ half_open_calls' = 0
          /\ since' = 0
          /\ NewPeriod
       \/ /\ state = "open"
          /\ RecordFailure
    /\ Goes(c, "out")
    /\ UNCHANGED attempt

Fail(c) ==
    /\ call[c] = "in" /\ ~healthy /\ MayTell("failure")
    /\ kind = "convert" => attempt[c] = MaxAttempts
    /\ RecordFailure
    /\ Goes(c, "out")
    /\ UNCHANGED attempt

(* A conversion keeps the semaphore, pauses and tries again without asking *)
(* the breaker again. _wait_for_healthy gives up after its timeout, so the *)
(* next attempt does not depend on the service.                            *)
FailAndRetry(c) ==
    /\ call[c] = "in" /\ ~healthy
    /\ kind = "convert" /\ attempt[c] < MaxAttempts
    /\ RecordFailure
    /\ attempt' = [attempt EXCEPT ![c] = @ + 1]
    /\ Goes(c, "pausing")

Resume(c) ==
    /\ call[c] = "pausing"
    /\ Goes(c, "in")
    /\ UNCHANGED <<breaker, attempt, period>>

(* A call that ends and tells the breaker nothing keeps its slot.          *)
EndUntold(c) ==
    /\ Goes(c, "out")
    /\ probing' = probing \ {c}
    /\ lost' = IF c \in probing THEN lost + 1 ELSE lost
    /\ UNCHANGED <<breaker, attempt, strays>>

Abandon(c) ==
    /\ call[c] = "in" /\ MayTell("nothing")
    /\ EndUntold(c)

(* The task of a conversion is cancelled: its viewer session was evicted.  *)
Cancel(c) ==
    /\ kind = "convert" /\ call[c] # "out"
    /\ EndUntold(c)

Finish(c) == Succeed(c) \/ ReadFails(c) \/ Fail(c) \/ FailAndRetry(c) \/ Abandon(c)

Heal ==
    /\ ~healthy
    /\ healthy' = TRUE
    /\ UNCHANGED <<kind, breaker, call, attempt, period>>

Tick ==
    /\ since < timeout
    /\ since' = since + 1
    /\ UNCHANGED <<kind, state, failure_count, success_count, half_open_calls, call, attempt,
                   healthy, period>>

Next ==
    \/ \E c \in Calls : Admit(c) \/ Acquire(c) \/ Resume(c) \/ Finish(c) \/ Cancel(c)
    \/ Heal \/ Tick

Spec == Init /\ [][Next]_vars

(* Time passes, a request is answered or times out, a free semaphore is    *)
(* taken, a pause ends, and there is demand: a task that would be admitted *)
(* makes its call. Nothing forces a cancellation.                          *)
Fairness ==
    /\ WF_vars(Tick)
    /\ \A c \in Calls : /\ WF_vars(Admit(c))
                         /\ WF_vars(Acquire(c)) /\ WF_vars(Resume(c))
                         /\ WF_vars(Finish(c))

FairSpec == Spec /\ Fairness

-----------------------------------------------------------------------------
(* The counters agree with the state, in every order in which overlapping  *)
(* calls end: an open breaker knows the time it waits from, a closed one   *)
(* is below its failure threshold, and a half-open one never holds more    *)
(* slots than its limit nor enough successes to be closed already.         *)
CountersAgree ==
    /\ state = "open" => since # Never /\ success_count = 0 /\ half_open_calls = 0
    /\ state = "closed" => /\ failure_count < failure_threshold
                           /\ success_count = 0 /\ half_open_calls = 0
    /\ state = "half_open" => /\ failure_count = 0
                              /\ success_count < success_threshold
                              /\ half_open_calls <= half_open_max_calls

(* A half-open breaker sends at most half_open_max_calls probes at once,   *)
(* and one more for each call of an earlier period that ended in this one  *)
(* and freed a slot it had never taken.                                    *)
ProbesAreBounded ==
    state = "half_open" => Cardinality(probing) <= half_open_max_calls + strays

(* Every slot that is taken is taken by a probe in flight or by one that   *)
(* ended without telling: the breaker's own arithmetic loses none.         *)
SlotsAreAccounted ==
    state = "half_open" => half_open_calls <= Cardinality(probing) + lost

(* When the service has recovered the breaker closes, unless a probe ended *)
(* without telling it.                                                     *)
RecoversUnlessLost == healthy ~> (state = "closed" \/ lost > 0)

(* When the service has recovered the breaker closes.                      *)
Recovers == healthy ~> state = "closed"
=============================================================================
