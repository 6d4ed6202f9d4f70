----------------------------- MODULE EventSource -----------------------------
(***************************************************************************)
(* What a reader may count on from whoever fills the buffer of a session:  *)
(* events are only appended; the buffer is closed once, either together    *)
(* with a last event "done" or, when the task is cancelled, without one;   *)
(* and nothing is appended to a closed buffer.                             *)
(***************************************************************************)
EXTENDS Naturals, Sequences

CONSTANT MaxBurst    \* events appended between two awaits of the task

ASSUME BurstAssumption == MaxBurst \in Nat \ {0}

VARIABLES
    events,   \* session.event_buffer, an event being "event" or "done"
    closed    \* session.status is "completed" or "error"

source == <<events, closed>>

Burst(n) == [i \in 1..n |-> "event"]

SourceInit == events = <<"event">> /\ closed = FALSE

Publish ==
    /\ ~closed
    /\ \E n \in 1..MaxBurst : events' = events \o Burst(n)
    /\ UNCHANGED closed

Finish ==
    /\ ~closed /\ closed' = TRUE
    /\ \E n \in 0..MaxBurst : events' = events \o Append(Burst(n), "done")

Abort ==
    /\ ~closed /\ closed' = TRUE
    /\ UNCHANGED events

SourceNext == Publish \/ Finish \/ Abort

SourceSpec == SourceInit /\ [][SourceNext]_source
=============================================================================
