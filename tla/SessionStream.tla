---------------------------- MODULE SessionStream ----------------------------
(***************************************************************************)
(* How the events of a viewer session reach the browser: the reader that   *)
(* streams the session's buffer over the open connection, and the hook     *)
(* that consumes the stream, comes back after a break with the id of the   *)
(* last event it handled, and gives up after some attempts. The buffer is  *)
(* an EventSource, which ViewerPipeline implements. The id of an event is  *)
(* its position in the buffer, from 0.                                     *)
(***************************************************************************)
EXTENDS EventSource, Integers

CONSTANTS
    MaxEvents,       \* bound on the events of the session
    MaxBreaks,       \* bound on the connections and requests that fail
    MaxReconnects,   \* MAX_RECONNECT_ATTEMPTS of the hook
    WireSize         \* events a connection holds

ASSUME StreamAssumption ==
    /\ MaxEvents \in Nat \ {0} /\ MaxBreaks \in Nat
    /\ MaxReconnects \in Nat /\ WireSize \in Nat \ {0}

VARIABLES
    new_event,   \* session.new_event
    stored,      \* the store holds the session
    reader,      \* the _buffer_reader of the open connection
    wire,        \* ids of the events in flight
    breaks,
    at,          \* where the hook is
    sid,         \* it has learnt the session id
    last,        \* lastEventIdRef
    attempt,     \* reconnects so far
    seen         \* ids it has handled

hook == <<at, sid, last, attempt, seen>>
stream == <<source, new_event, stored, reader, wire, breaks, hook>>

(***************************************************************************)
(* The session: every emit wakes the reader.                               *)
(***************************************************************************)
Produce ==
    /\ (Publish /\ Len(events') < MaxEvents) \/ (Finish /\ Len(events') <= MaxEvents)
    /\ new_event' = TRUE
    /\ UNCHANGED <<stored, reader, wire, breaks, hook>>

\* the store drops an expired session; a task that still runs is cancelled
EvictExpired ==
    /\ stored /\ stored' = FALSE
    /\ IF closed THEN UNCHANGED <<source, new_event>> ELSE Abort /\ new_event' = TRUE

Evict == EvictExpired /\ UNCHANGED <<reader, wire, breaks, hook>>

(***************************************************************************)
(* The reader of the open connection.                                      *)
(***************************************************************************)
NoReader == [at |-> "none", cursor |-> 0, limit |-> 0]

\* one turn of the loop from its top: snapshot the length, or stop, or wait
Turn(cursor) ==
    \/ /\ cursor < Len(events)
       /\ reader' = [at |-> "drain", cursor |-> cursor, limit |-> Len(events)]
       /\ UNCHANGED new_event
    \/ /\ cursor >= Len(events) /\ closed
       /\ reader' = [at |-> "returned", cursor |-> cursor, limit |-> cursor]
       /\ UNCHANGED new_event
    \/ /\ cursor >= Len(events) /\ ~closed
       /\ reader' = [at |-> "wait", cursor |-> cursor, limit |-> cursor]
       /\ new_event' = FALSE

ReaderYields ==
    /\ reader.at = "drain" /\ reader.cursor < reader.limit
    /\ Len(wire) < WireSize
    /\ wire' = Append(wire, reader.cursor)
    /\ reader' = [reader EXCEPT !.cursor = @ + 1]
    /\ UNCHANGED <<source, new_event, stored, breaks, hook>>

\* the drained length was read before the last yield, the status is read after it
ReaderDrained ==
    /\ reader.at = "drain" /\ reader.cursor = reader.limit
    /\ \/ /\ closed
          /\ reader' = [reader EXCEPT !.at = "returned"]
          /\ UNCHANGED new_event
       \/ /\ ~closed
          /\ reader' = [reader EXCEPT !.at = "wait"]
          /\ new_event' = FALSE
    /\ UNCHANGED <<source, stored, wire, breaks, hook>>

\* the wait ends with a new event, or after a heartbeat interval without one
Pushed == new_event
MutantHeartbeatDue == FALSE
HeartbeatDue == ~new_event

ReaderWakes ==
    /\ reader.at = "wait"
    /\ Pushed \/ HeartbeatDue
    /\ Turn(reader.cursor)
    /\ UNCHANGED <<source, stored, wire, breaks, hook>>

ConnectionBreaks ==
    /\ breaks < MaxBreaks /\ breaks' = breaks + 1
    /\ at = "streaming" /\ at' = "broken"
    /\ reader' = NoReader /\ wire' = <<>>
    /\ UNCHANGED <<source, new_event, stored, sid, last, attempt, seen>>

(***************************************************************************)
(* The hook.                                                               *)
(***************************************************************************)
HandleEvent ==
    /\ at = "streaming" /\ wire # <<>>
    /\ last' = wire[1]
    /\ sid' = (sid \/ wire[1] = 0)
    /\ seen' = Append(seen, wire[1])
    /\ IF events[wire[1] + 1] = "done"
       THEN at' = "complete" /\ wire' = <<>> /\ reader' = NoReader
       ELSE wire' = Tail(wire) /\ UNCHANGED <<at, reader>>
    /\ UNCHANGED <<source, new_event, stored, breaks, attempt>>

\* the response ended before a done event
StreamEnds ==
    /\ at = "streaming" /\ wire = <<>> /\ reader.at = "returned"
    /\ at' = "broken" /\ reader' = NoReader
    /\ UNCHANGED <<source, new_event, stored, wire, breaks, sid, last, attempt, seen>>

MayRetry == at = "broken" /\ sid /\ attempt < MaxReconnects
Attempt == MayRetry /\ attempt' = attempt + 1

\* GET .../stream?last_event_id=last
MutantResumeAt == last
MutantResumeAfter == last + 2
ResumeAt == last + 1

Reconnect ==
    /\ Attempt
    /\ stored
    /\ at' = "streaming"
    /\ Turn(ResumeAt)
    /\ UNCHANGED <<source, stored, wire, breaks, sid, last, seen>>

\* a 404, whose lookup swept the session at the latest now, or no answer
ReconnectFails ==
    /\ Attempt
    /\ \/ breaks < MaxBreaks /\ breaks' = breaks + 1 /\ UNCHANGED <<source, new_event, stored>>
       \/ ~stored /\ UNCHANGED <<source, new_event, stored, breaks>>
       \/ EvictExpired /\ UNCHANGED breaks
    /\ UNCHANGED <<reader, wire, at, sid, last, seen>>

GiveUp ==
    /\ at = "broken" /\ ~MayRetry
    /\ at' = IF sid THEN "gaveup" ELSE "stranded"
    /\ UNCHANGED <<source, new_event, stored, reader, wire, breaks, sid, last, attempt, seen>>

-----------------------------------------------------------------------------
StreamInit ==
    /\ SourceInit
    /\ new_event = TRUE /\ stored = TRUE
    /\ reader = [at |-> "drain", cursor |-> 0, limit |-> 1]
    /\ wire = <<>> /\ breaks = 0
    /\ at = "streaming" /\ sid = FALSE /\ last = -1 /\ attempt = 0 /\ seen = <<>>

ReaderNext == ReaderYields \/ ReaderDrained \/ ReaderWakes
HookNext == HandleEvent \/ StreamEnds \/ Reconnect \/ ReconnectFails \/ GiveUp

StreamNext == Produce \/ Evict \/ ReaderNext \/ ConnectionBreaks \/ HookNext

StreamSpec == StreamInit /\ [][StreamNext]_stream

\* the heartbeat timer of a waiting reader fires, and the hook's timers run;
\* the session may be silent for as long as it likes
FairSpec == StreamSpec /\ WF_stream(ReaderNext) /\ WF_stream(HookNext)

-----------------------------------------------------------------------------
ReaderStates == [at : {"none", "drain", "wait", "returned"}, cursor : Nat, limit : Nat]

TypeOK ==
    /\ events \in Seq({"event", "done"}) /\ closed \in BOOLEAN
    /\ new_event \in BOOLEAN /\ stored \in BOOLEAN
    /\ reader \in ReaderStates
    /\ wire \in Seq(Nat) /\ breaks \in 0..MaxBreaks
    /\ at \in {"streaming", "broken", "complete", "gaveup", "stranded"}
    /\ sid \in BOOLEAN /\ last \in Nat \cup {-1} /\ attempt \in 0..MaxReconnects
    /\ seen \in Seq(Nat)

(* Whatever breaks and however often the hook comes back, it has handled    *)
(* the events of the session in order, without a gap and without a repeat.  *)
SeenInOrder == \A i \in DOMAIN seen : seen[i] = i - 1

(* The hook believes the stream complete only after the whole buffer.       *)
CompleteSawAll == at = "complete" => closed /\ Len(seen) = Len(events)

(* Every event, the last one included, reaches a hook that learnt its      *)
(* session unless the session was evicted, even if none follows it: a lost *)
(* wake-up costs only the time to the next heartbeat, and a reader that    *)
(* returns early one attempt. The hook never gets an attempt back: this    *)
(* holds only where the bounds keep the breaks below its attempts, and     *)
(* nothing is promised to a session that breaks MAX_RECONNECT times.       *)
EventsArrive == \A n \in 1..MaxEvents :
    Len(events) >= n ~> Len(seen) >= n \/ at = "stranded" \/ ~stored
=============================================================================
