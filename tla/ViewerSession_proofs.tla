------------------------ MODULE ViewerSession_proofs ------------------------
(***************************************************************************)
(* Theorems about the two ends of a viewer session. About SessionStream,   *)
(* for any number of events, of events between two awaits, of breaks and   *)
(* reconnects, and any room on the wire: the hook sees every event in      *)
(* order. About PageEdits: replaying the recorded edits gives what the     *)
(* agents made of the text, for the pages and for the document.            *)
(***************************************************************************)
EXTENDS SessionStream, PageEdits, FiniteSetTheorems, SequenceTheorems, WellFoundedInduction, TLAPS

Kinds == {"event", "done"}

BufferOK ==
    /\ events \in Seq(Kinds) /\ closed \in BOOLEAN
    /\ \A k \in 1..Len(events) : events[k] = "done" => k = Len(events) /\ closed

(* What the buffer gets: events, and a last one that ends it.              *)
LEMMA BurstTyped ==
    ASSUME NEW n \in 0..MaxBurst
    PROVE  /\ Burst(n) \in Seq(Kinds) /\ Len(Burst(n)) = n /\ n \in Nat
           /\ \A i \in 1..n : Burst(n)[i] = "event"
<1>1. n \in Nat
    BY BurstAssumption
<1>2. Burst(n) \in [1..n -> Kinds]
    BY DEF Burst, Kinds
<1>3. Burst(n) \in Seq(Kinds) /\ Len(Burst(n)) = n
    BY <1>1, <1>2
<1> QED BY <1>1, <1>3 DEF Burst

(* Appending to an open buffer leaves what it holds where it is.           *)
LEMMA Appended ==
    ASSUME BufferOK, ~closed, closed' \in BOOLEAN,
           NEW added \in Seq(Kinds), events' = events \o added,
           \A i \in 1..Len(added) : added[i] = "done" => i = Len(added) /\ closed'
    PROVE  /\ BufferOK' /\ Len(events) <= Len(events')
           /\ \A k \in 1..Len(events) : events'[k] = events[k]
<1>1. events \in Seq(Kinds) /\ Len(events) \in Nat /\ Len(added) \in Nat
    BY LenProperties DEF BufferOK
<1>2. /\ events' \in Seq(Kinds)
      /\ Len(events') = Len(events) + Len(added)
      /\ \A i \in 1..(Len(events) + Len(added)) :
            events'[i] = IF i <= Len(events) THEN events[i] ELSE added[i - Len(events)]
    BY <1>1, ConcatProperties
<1>3. \A k \in 1..Len(events) : events'[k] = events[k] /\ events[k] # "done"
    BY <1>1, <1>2 DEF BufferOK
<1>4. ASSUME NEW k \in 1..Len(events'), events'[k] = "done"
      PROVE  k = Len(events') /\ closed'
    <2>1. ~(k <= Len(events))
        BY <1>1, <1>2, <1>3, <1>4
    <2>2. k - Len(events) \in 1..Len(added) /\ added[k - Len(events)] = "done"
        BY <1>1, <1>2, <1>4, <2>1
    <2> QED BY <1>1, <1>2, <2>2
<1> QED BY <1>1, <1>2, <1>3, <1>4 DEF BufferOK

(* A step of the source appends, and a "done" event stays the last one.    *)
LEMMA SourceStep ==
    ASSUME BufferOK, SourceNext \/ UNCHANGED source
    PROVE  /\ BufferOK' /\ Len(events) <= Len(events')
           /\ \A k \in 1..Len(events) : events'[k] = events[k]
           /\ closed => UNCHANGED source
<1>1. CASE Publish
    <2>1. PICK n \in 1..MaxBurst : events' = events \o Burst(n)
        BY <1>1 DEF Publish
    <2>2. n \in 0..MaxBurst
        BY BurstAssumption
    <2>3. \A i \in 1..Len(Burst(n)) : Burst(n)[i] # "done"
        BY <2>2, BurstTyped
    <2>4. ~closed /\ closed' = closed
        BY <1>1 DEF Publish
    <2> QED BY <2>1, <2>2, <2>3, <2>4, BurstTyped, Appended DEF BufferOK
<1>2. CASE Finish
    <2>1. PICK n \in 0..MaxBurst : events' = events \o Append(Burst(n), "done")
        BY <1>2 DEF Finish
    <2> DEFINE added == Append(Burst(n), "done")
    <2>2. /\ added \in Seq(Kinds) /\ Len(added) = n + 1
          /\ \A i \in 1..n : added[i] = Burst(n)[i]
        BY BurstTyped, AppendProperties DEF Kinds
    <2>3. \A i \in 1..Len(added) : added[i] = "done" => i = Len(added)
        BY <2>2, BurstTyped
    <2>4. ~closed /\ closed' = TRUE
        BY <1>2 DEF Finish
    <2> HIDE DEF added
    <2> QED BY <2>1, <2>2, <2>3, <2>4, Appended DEF added
<1>3. CASE Abort
    BY <1>3, LenProperties DEF Abort, BufferOK
<1>4. CASE UNCHANGED source
    BY <1>4, LenProperties DEF source, BufferOK
<1> QED BY <1>1, <1>2, <1>3, <1>4 DEF SourceNext
-----------------------------------------------------------------------------
(* Each step moves the buffer as a source does.                            *)
LEMMA SourceMoves ==
    ASSUME [StreamNext]_stream
    PROVE  SourceNext \/ UNCHANGED source
BY DEF StreamNext, Produce, Evict, EvictExpired, ReaderNext, ReaderYields, ReaderDrained, ReaderWakes,
       ConnectionBreaks, HookNext, HandleEvent, StreamEnds, Reconnect, ReconnectFails, GiveUp,
       SourceNext, source, stream

-----------------------------------------------------------------------------
(* Type correctness. Turn leaves the reader drained, waiting or gone.      *)

TypedInv == TypeOK /\ BufferOK /\ (sid => last \in Nat)

(* A turn of the reader leaves it in one of its states.                    *)
LEMMA TurnTyped ==
    ASSUME TypedInv, NEW cursor \in Nat, Turn(cursor)
    PROVE  new_event' \in BOOLEAN /\ reader' \in ReaderStates
<1>1. Len(events) \in Nat
    BY LenProperties DEF TypedInv, BufferOK
<1>2. reader' \in ReaderStates
    BY <1>1 DEF Turn, ReaderStates
<1>3. new_event' \in BOOLEAN
    BY DEF Turn, TypedInv, TypeOK
<1> QED BY <1>2, <1>3

(* A hook that reconnects has an id to resume after.                       *)
LEMMA AttemptTyped ==
    ASSUME TypedInv, Attempt
    PROVE  attempt' \in 0..MaxReconnects /\ last \in Nat /\ ResumeAt \in Nat
BY StreamAssumption DEF TypedInv, TypeOK, Attempt, MayRetry, ResumeAt

(* Every step keeps the types, and a "done" event the last one.            *)
LEMMA TypeStep == TypedInv /\ [StreamNext]_stream => TypedInv'
<1> SUFFICES ASSUME TypedInv, [StreamNext]_stream
             PROVE  TypeOK' /\ (sid => last \in Nat)'
    BY SourceMoves, SourceStep DEF TypedInv
<1> USE DEF TypedInv
<1>1. BufferOK'
    BY SourceMoves, SourceStep
<1>2. CASE Produce
    BY <1>1, <1>2 DEF Produce, TypeOK, BufferOK, Kinds, hook
<1>3. CASE Evict
    BY <1>1, <1>3 DEF Evict, EvictExpired, Abort, TypeOK, BufferOK, Kinds, hook, source
<1>4. CASE ReaderYields
    <2>1. wire' \in Seq(Nat) /\ reader' \in ReaderStates
        <3>1. reader.cursor \in Nat
            BY DEF TypeOK, ReaderStates
        <3>2. wire' \in Seq(Nat)
            <4>1. Append(wire, reader.cursor) \in Seq(Nat)
                BY <3>1, AppendProperties DEF TypeOK
            <4> QED BY <1>4, <4>1 DEF ReaderYields
        <3>3. reader' \in ReaderStates
            <4>1. reader' = [reader EXCEPT !.cursor = @ + 1] /\ reader \in ReaderStates
                BY <1>4 DEF ReaderYields, TypeOK
            <4> QED BY <3>1, <4>1 DEF ReaderStates
        <3> QED BY <3>2, <3>3
    <2> QED BY <1>1, <1>4, <2>1 DEF ReaderYields, TypeOK, BufferOK, Kinds, hook, source
<1>5. CASE ReaderDrained
    BY <1>1, <1>5 DEF ReaderDrained, TypeOK, BufferOK, Kinds, hook, source, ReaderStates
<1>6. CASE ReaderWakes
    <2>1. reader.cursor \in Nat
        BY DEF TypeOK, ReaderStates
    <2> QED BY <1>1, <1>6, <2>1, TurnTyped DEF ReaderWakes, TypeOK, BufferOK, Kinds, hook, source
<1>7. CASE ConnectionBreaks
    BY <1>1, <1>7, StreamAssumption, EmptySeq
    DEF ConnectionBreaks, NoReader, TypeOK, BufferOK, Kinds, source, ReaderStates
<1>8. CASE HandleEvent
    <2>1. wire[1] \in Nat /\ Tail(wire) \in Seq(Nat) /\ <<>> \in Seq(Nat)
        <3>1. wire # <<>>
            BY <1>8 DEF HandleEvent
        <3> QED BY <3>1, HeadTailProperties, EmptySeq DEF TypeOK
    <2>2. seen' \in Seq(Nat)
        <3>1. Append(seen, wire[1]) \in Seq(Nat)
            BY <2>1, AppendProperties DEF TypeOK
        <3> QED BY <1>8, <3>1 DEF HandleEvent
    <2>3. reader' \in ReaderStates /\ wire' \in Seq(Nat)
        <3>1. NoReader \in ReaderStates /\ reader \in ReaderStates
            BY DEF NoReader, TypeOK, ReaderStates
        <3>2. \/ wire' = <<>> /\ reader' = NoReader
              \/ wire' = Tail(wire) /\ reader' = reader
            BY <1>8 DEF HandleEvent
        <3> QED BY <2>1, <3>1, <3>2
    <2>4. sid' \in BOOLEAN /\ last' \in Nat /\ at' \in {"streaming", "complete"}
        BY <1>8, <2>1 DEF HandleEvent, TypeOK
    <2> QED BY <1>1, <1>8, <2>2, <2>3, <2>4 DEF HandleEvent, TypeOK, BufferOK, Kinds, source
<1>9. CASE StreamEnds
    BY <1>1, <1>9 DEF StreamEnds, NoReader, TypeOK, BufferOK, Kinds, source, ReaderStates
<1>10. CASE Reconnect
    <2>1. Attempt /\ Turn(ResumeAt)
        BY <1>10 DEF Reconnect
    <2>2. new_event' \in BOOLEAN /\ reader' \in ReaderStates /\ attempt' \in 0..MaxReconnects
        BY <2>1, AttemptTyped, TurnTyped
    <2> QED BY <1>1, <1>10, <2>2 DEF Reconnect, TypeOK, BufferOK, Kinds, source
<1>11. CASE ReconnectFails
    <2>1. new_event' \in BOOLEAN /\ stored' \in BOOLEAN
        BY <1>11 DEF ReconnectFails, EvictExpired, TypeOK, source
    <2>2. breaks' \in 0..MaxBreaks
        BY <1>11, StreamAssumption DEF ReconnectFails, TypeOK
    <2> QED BY <1>1, <1>11, <2>1, <2>2, AttemptTyped DEF ReconnectFails, TypeOK, BufferOK, Kinds
<1>12. CASE GiveUp
    BY <1>1, <1>12 DEF GiveUp, TypeOK, BufferOK, Kinds, source
<1>13. CASE UNCHANGED stream
    BY <1>1, <1>13 DEF stream, hook, TypeOK, BufferOK, Kinds, source
<1> QED BY <1>2, <1>3, <1>4, <1>5, <1>6, <1>7, <1>8, <1>9, <1>10, <1>11, <1>12, <1>13
        DEF StreamNext, ReaderNext, HookNext

(* The types and the shape of the buffer hold for ever.                    *)
LEMMA Typed == StreamSpec => []TypedInv
<1>1. StreamInit => TypedInv
    <2> SUFFICES ASSUME StreamInit
                 PROVE  TypedInv
        OBVIOUS
    <2>1. events = <<"event">> /\ events \in Seq(Kinds) /\ Len(events) = 1
        BY DEF StreamInit, SourceInit, Kinds
    <2>2. wire \in Seq(Nat) /\ seen \in Seq(Nat)
        BY EmptySeq DEF StreamInit
    <2>3. TypeOK
        <3>1. reader \in ReaderStates /\ last \in Nat \cup {-1}
            BY DEF StreamInit, ReaderStates
        <3>2. breaks \in 0..MaxBreaks /\ attempt \in 0..MaxReconnects
            BY StreamAssumption DEF StreamInit
        <3> QED BY <2>1, <2>2, <3>1, <3>2 DEF StreamInit, SourceInit, TypeOK, Kinds
    <2>4. \A k \in 1..Len(events) : events[k] # "done"
        BY <2>1
    <2> QED BY <2>1, <2>3, <2>4 DEF StreamInit, SourceInit, TypedInv, BufferOK
<1> QED BY <1>1, TypeStep, PTL DEF StreamSpec

(* The types hold in every reachable state of the stream.                  *)
THEOREM StreamTyped == StreamSpec => []TypeOK
<1>1. TypedInv => TypeOK
    BY DEF TypedInv
<1> QED BY <1>1, Typed, PTL
-----------------------------------------------------------------------------
(* The position of the hook, of the wire and of the reader in the buffer:  *)
(* the hook has handled a prefix, the wire carries what follows it, and    *)
(* the cursor of an open connection stands right after what the wire       *)
(* carries. Without the wire the order of what is handled is not           *)
(* inductive; without the bounds the last event handled could be missing.  *)
Prefix == Len(seen) = last + 1 /\ SeenInOrder
WireFollows ==
    /\ \A i \in 1..Len(wire) : wire[i] = last + i
    /\ last + 1 + Len(wire) <= Len(events)
    /\ at # "streaming" => wire = <<>>
CursorFollows ==
    /\ at = "streaming" <=> reader.at # "none"
    /\ at = "streaming" => reader.cursor = last + 1 + Len(wire)
    /\ reader.at = "drain" => reader.cursor <= reader.limit /\ reader.limit <= Len(events)

StreamInv == Prefix /\ WireFollows /\ CursorFollows /\ CompleteSawAll

(* A turn from the position after the wire leaves the cursor there.        *)
LEMMA TurnFollows ==
    ASSUME TypedInv, NEW cursor \in Nat, Turn(cursor)
    PROVE  /\ reader'.at # "none" /\ reader'.cursor = cursor
           /\ reader'.at = "drain" => cursor <= reader'.limit /\ reader'.limit <= Len(events)
<1>1. Len(events) \in Nat
    BY LenProperties DEF TypedInv, BufferOK
<1> QED BY <1>1 DEF Turn

(* The source grows under a hook and a reader that stay where they are.    *)
LEMMA SourceKeeps ==
    ASSUME TypedInv, StreamInv, SourceNext \/ UNCHANGED source,
           UNCHANGED <<at, last, seen, wire, reader>>
    PROVE  StreamInv'
<1>1. /\ Len(events) \in Nat /\ Len(events') \in Nat /\ Len(events) <= Len(events')
      /\ closed => UNCHANGED source
    BY SourceStep, LenProperties DEF TypedInv, BufferOK
<1>2. last \in Int /\ Len(wire) \in Nat /\ reader \in ReaderStates
    BY LenProperties DEF TypedInv, TypeOK
<1>3. Prefix'
    BY DEF StreamInv, Prefix, SeenInOrder
<1>4. WireFollows'
    BY <1>1, <1>2 DEF StreamInv, WireFollows
<1>5. CursorFollows'
    BY <1>1, <1>2 DEF StreamInv, CursorFollows, ReaderStates
<1>6. CompleteSawAll'
    BY <1>1 DEF StreamInv, CompleteSawAll, source
<1> QED BY <1>3, <1>4, <1>5, <1>6 DEF StreamInv

(* Handling the first id on the wire moves the position on by one; when it *)
(* is that of "done", the position is the end of a closed buffer.          *)
LEMMA HandledNext ==
    ASSUME TypedInv, StreamInv, HandleEvent
    PROVE  StreamInv'
<1>1. /\ wire \in Seq(Nat) /\ wire # <<>> /\ seen \in Seq(Nat) /\ Len(events) \in Nat
      /\ last \in Int /\ Len(seen) \in Nat /\ Len(wire) \in Nat \ {0}
    BY LenProperties, EmptySeq DEF HandleEvent, TypedInv, TypeOK, BufferOK
<1>2. wire[1] = last + 1 /\ last' = last + 1 /\ wire[1] = Len(seen) /\ wire[1] \in Nat
    BY <1>1 DEF HandleEvent, StreamInv, WireFollows, Prefix
<1>3. UNCHANGED <<events, closed>> /\ at = "streaming"
    BY DEF HandleEvent, source
<1>4. Prefix'
    <2>1. seen' = Append(seen, wire[1])
        BY DEF HandleEvent
    <2>2. /\ Len(seen') = Len(seen) + 1 /\ seen'[Len(seen) + 1] = Len(seen)
          /\ \A i \in 1..Len(seen) : seen'[i] = seen[i]
        BY <1>1, <1>2, <2>1, AppendProperties
    <2>3. seen' \in Seq(Nat)
        <3>1. Append(seen, wire[1]) \in Seq(Nat)
            BY <1>1, <1>2, AppendProperties
        <3> QED BY <2>1, <3>1
    <2>4. DOMAIN seen' = 1..Len(seen') /\ DOMAIN seen = 1..Len(seen)
        BY <1>1, <2>3, LenProperties
    <2>5. \A i \in DOMAIN seen' : seen'[i] = i - 1
        BY <1>1, <2>2, <2>4 DEF StreamInv, Prefix, SeenInOrder
    <2> QED BY <1>1, <1>2, <2>2, <2>5 DEF StreamInv, Prefix, SeenInOrder
<1>5. CASE events[wire[1] + 1] = "done"
    <2>1. at' = "complete" /\ wire' = <<>> /\ reader' = NoReader
        BY <1>5 DEF HandleEvent
    <2>2. last + 2 \in 1..Len(events)
        BY <1>1, <1>2 DEF StreamInv, WireFollows
    <2>3. last + 2 = Len(events) /\ closed
        <3>1. events[last + 2] = "done"
            <4>1. wire[1] + 1 = last + 2
                BY <1>1, <1>2
            <4> QED BY <1>5, <4>1
        <3> QED BY <2>2, <3>1 DEF TypedInv, BufferOK
    <2>4. Len(wire') = 0
        BY <2>1, EmptySeq
    <2>5. WireFollows'
        BY <1>1, <1>2, <1>3, <2>1, <2>2, <2>4 DEF WireFollows
    <2>6. CursorFollows'
        BY <2>1 DEF CursorFollows, NoReader
    <2>7. CompleteSawAll'
        BY <1>1, <1>2, <1>3, <1>4, <2>3 DEF CompleteSawAll, Prefix
    <2> QED BY <1>4, <2>5, <2>6, <2>7 DEF StreamInv
<1>6. CASE events[wire[1] + 1] # "done"
    <2>1. wire' = Tail(wire) /\ at' = at /\ reader' = reader
        BY <1>6 DEF HandleEvent
    <2>2. /\ Len(wire') = Len(wire) - 1
          /\ \A i \in 1..Len(wire') : wire'[i] = wire[i + 1]
        BY <1>1, <2>1, HeadTailProperties
    <2>3. WireFollows'
        BY <1>1, <1>2, <1>3, <2>1, <2>2 DEF StreamInv, WireFollows
    <2>4. CursorFollows'
        BY <1>1, <1>2, <1>3, <2>1, <2>2 DEF StreamInv, CursorFollows
    <2>5. CompleteSawAll'
        BY <1>3, <2>1 DEF CompleteSawAll
    <2> QED BY <1>4, <2>3, <2>4, <2>5 DEF StreamInv
<1> QED BY <1>5, <1>6

(* Every step keeps the positions.                                         *)
LEMMA StreamStep == TypedInv /\ StreamInv /\ [StreamNext]_stream => StreamInv'
<1> SUFFICES ASSUME TypedInv, StreamInv, [StreamNext]_stream
             PROVE  StreamInv'
    OBVIOUS
<1>0. /\ Len(events) \in Nat /\ last \in Int /\ wire \in Seq(Nat) /\ Len(wire) \in Nat
      /\ reader \in ReaderStates
    BY LenProperties DEF TypedInv, TypeOK, BufferOK
<1>1. CASE Produce
    <2>1. SourceNext /\ UNCHANGED <<at, last, seen, wire, reader>>
        BY <1>1 DEF Produce, SourceNext, hook
    <2> QED BY <2>1, SourceKeeps
<1>2. CASE Evict
    <2>1. (SourceNext \/ UNCHANGED source) /\ UNCHANGED <<at, last, seen, wire, reader>>
        BY <1>2 DEF Evict, EvictExpired, SourceNext, hook
    <2> QED BY <2>1, SourceKeeps
<1>3. CASE ReaderYields
    <2>1. /\ reader.at = "drain" /\ reader.cursor < reader.limit
          /\ UNCHANGED <<events, closed, at, last, seen>>
          /\ wire' = Append(wire, reader.cursor)
          /\ reader' = [reader EXCEPT !.cursor = @ + 1]
        BY <1>3 DEF ReaderYields, source, hook
    <2>2. /\ reader'.at = "drain" /\ reader'.cursor = reader.cursor + 1
          /\ reader'.limit = reader.limit /\ reader.cursor \in Nat /\ reader.limit \in Nat
        BY <1>0, <2>1 DEF ReaderStates
    <2>3. /\ Len(wire') = Len(wire) + 1 /\ wire'[Len(wire) + 1] = reader.cursor
          /\ \A i \in 1..Len(wire) : wire'[i] = wire[i]
        BY <1>0, <2>1, <2>2, AppendProperties
    <2>4. /\ at = "streaming" /\ reader.cursor = last + 1 + Len(wire)
          /\ reader.limit <= Len(events)
        BY <2>1 DEF StreamInv, CursorFollows
    <2>5. WireFollows'
        <3>1. \A i \in 1..Len(wire) : wire'[i] = last + i
            BY <2>3 DEF StreamInv, WireFollows
        <3>2. wire'[Len(wire) + 1] = last + (Len(wire) + 1)
            BY <1>0, <2>3, <2>4
        <3>3. ASSUME NEW i \in 1..(Len(wire) + 1)
              PROVE  wire'[i] = last + i
            <4>1. i \in 1..Len(wire) \/ i = Len(wire) + 1
                BY <1>0
            <4> QED BY <3>1, <3>2, <4>1
        <3>4. last + 1 + (Len(wire) + 1) <= Len(events)
            BY <1>0, <2>1, <2>2, <2>4
        <3>5. UNCHANGED <<last, events, at>> /\ at = "streaming"
            BY <2>1, <2>4
        <3> QED BY <2>3, <3>3, <3>4, <3>5 DEF WireFollows
    <2>6. CursorFollows'
        BY SMTT(30), <1>0, <2>1, <2>2, <2>3, <2>4 DEF CursorFollows
    <2>7. Prefix' /\ CompleteSawAll'
        BY <2>1 DEF StreamInv, Prefix, SeenInOrder, CompleteSawAll
    <2> QED BY <2>5, <2>6, <2>7 DEF StreamInv
<1>4. CASE ReaderDrained
    <2>1. /\ reader.at = "drain" /\ reader'.cursor = reader.cursor
          /\ reader'.at \in {"returned", "wait"}
          /\ UNCHANGED <<events, closed, wire, at, last, seen>>
        BY <1>0, <1>4 DEF ReaderDrained, source, hook, ReaderStates
    <2>2. CursorFollows'
        BY <1>0, <2>1 DEF StreamInv, CursorFollows
    <2> QED BY <2>1, <2>2 DEF StreamInv, Prefix, SeenInOrder, WireFollows, CompleteSawAll
<1>5. CASE ReaderWakes
    <2>1. /\ reader.at = "wait" /\ Turn(reader.cursor) /\ reader.cursor \in Nat
          /\ UNCHANGED <<events, closed, wire, at, last, seen>>
        BY <1>0, <1>5 DEF ReaderWakes, source, hook, ReaderStates
    <2>2. CursorFollows'
        BY <1>0, <2>1, TurnFollows DEF StreamInv, CursorFollows
    <2> QED BY <2>1, <2>2 DEF StreamInv, Prefix, SeenInOrder, WireFollows, CompleteSawAll
<1>6. CASE ConnectionBreaks \/ StreamEnds
    <2>1. /\ at = "streaming" /\ at' = "broken" /\ reader' = NoReader /\ wire' = <<>>
          /\ UNCHANGED <<events, closed, last, seen>>
        BY <1>6 DEF ConnectionBreaks, StreamEnds, source
    <2>2. Len(wire') = 0
        BY <2>1, EmptySeq
    <2>3. WireFollows'
        BY <1>0, <2>1, <2>2 DEF StreamInv, WireFollows
    <2>4. CursorFollows'
        BY <2>1 DEF CursorFollows, NoReader
    <2> QED BY <2>1, <2>3, <2>4 DEF StreamInv, Prefix, SeenInOrder, CompleteSawAll
<1>7. CASE HandleEvent
    BY <1>7, HandledNext
<1>8. CASE Reconnect
    <2>1. /\ at = "broken" /\ at' = "streaming" /\ Turn(ResumeAt) /\ ResumeAt \in Nat
          /\ UNCHANGED <<events, closed, wire, last, seen>>
        BY <1>8, AttemptTyped DEF Reconnect, Attempt, MayRetry, source
    <2>2. wire = <<>> /\ Len(wire) = 0
        BY <2>1, EmptySeq DEF StreamInv, WireFollows
    <2>3. CursorFollows'
        BY <1>0, <2>1, <2>2, TurnFollows DEF CursorFollows, ResumeAt
    <2> QED BY <2>1, <2>2, <2>3 DEF StreamInv, Prefix, SeenInOrder, WireFollows, CompleteSawAll
<1>9. CASE ReconnectFails
    <2>1. (SourceNext \/ UNCHANGED source) /\ UNCHANGED <<at, last, seen, wire, reader>>
        BY <1>9 DEF ReconnectFails, EvictExpired, SourceNext, Attempt
    <2> QED BY <2>1, SourceKeeps
<1>10. CASE GiveUp
    <2>1. /\ at = "broken" /\ at' \in {"gaveup", "stranded"}
          /\ UNCHANGED <<events, closed, last, seen, wire, reader>>
        BY <1>10 DEF GiveUp, source
    <2> QED BY <2>1 DEF StreamInv, Prefix, SeenInOrder, WireFollows, CursorFollows, CompleteSawAll
<1>11. CASE UNCHANGED stream
    <2>1. UNCHANGED source /\ UNCHANGED <<at, last, seen, wire, reader>>
        BY <1>11 DEF stream, hook
    <2> QED BY <2>1, SourceKeeps
<1> QED BY <1>1, <1>2, <1>3, <1>4, <1>5, <1>6, <1>7, <1>8, <1>9, <1>10, <1>11
        DEF StreamNext, ReaderNext, HookNext

(* The positions hold for ever.                                            *)
LEMMA Followed == StreamSpec => []StreamInv
<1>1. StreamInit => StreamInv
    <2> SUFFICES ASSUME StreamInit
                 PROVE  StreamInv
        OBVIOUS
    <2>1. /\ Len(events) = 1 /\ Len(wire) = 0 /\ Len(seen) = 0 /\ DOMAIN seen = {}
          /\ last = -1 /\ at = "streaming" /\ reader = [at |-> "drain", cursor |-> 0, limit |-> 1]
        BY DEF StreamInit, SourceInit
    <2> QED BY <2>1 DEF StreamInv, Prefix, SeenInOrder, WireFollows, CursorFollows, CompleteSawAll
<1>2. StreamSpec => []TypedInv
    BY Typed
<1> QED BY <1>1, <1>2, StreamStep, PTL DEF StreamSpec

(* The hook handles the events in order, without a gap and without a       *)
(* repeat, whatever breaks and however often it comes back.                *)
THEOREM StreamSeenInOrder == StreamSpec => []SeenInOrder
<1>1. StreamInv => SeenInOrder
    BY DEF StreamInv, Prefix
<1> QED BY <1>1, Followed, PTL

(* The hook reports completion only after the whole of a closed buffer.    *)
THEOREM StreamCompleteSawAll == StreamSpec => []CompleteSawAll
<1>1. StreamInv => CompleteSawAll
    BY DEF StreamInv
<1> QED BY <1>1, Followed, PTL

-----------------------------------------------------------------------------
(***************************************************************************)
(* PageEdits.                                                              *)
(***************************************************************************)

(***************************************************************************)
(* Replaying. The texts on the way are a recursive function over the       *)
(* entries; a set of numbers with 0 and all successors, by which it is     *)
(* shown to exist and to be unique, has no least number left out.          *)
(***************************************************************************)
LEMMA Induct ==
    ASSUME NEW S, 0 \in S, \A n \in Nat : n \in S => n + 1 \in S
    PROVE  Nat \subseteq S
<1> SUFFICES ASSUME NEW k \in Nat, k \notin S
             PROVE  FALSE
    OBVIOUS
<1> DEFINE Rest == {n \in Nat : n \notin S}
<1>1. IsWellFoundedOn(OpToRel(<, Nat), Nat)
    BY NatLessThanWellFounded
<1>2. PICK m \in Rest : \A n \in Rest : <<n, m>> \notin OpToRel(<, Nat)
    <2>1. Rest \subseteq Nat /\ Rest # {}
        OBVIOUS
    <2> QED BY <1>1, <2>1, WFMin
<1>3. \A n \in Rest : ~(n < m)
    BY <1>2 DEF OpToRel
<1>4. m \in Nat /\ m # 0 /\ m \notin S
    OBVIOUS
<1>5. m - 1 \in Nat /\ m - 1 < m /\ (m - 1) + 1 = m
    BY <1>4
<1>6. m - 1 \in S
    BY <1>3, <1>5
<1> QED BY <1>4, <1>5, <1>6

IsReplay(f, t, entries, n) ==
    f = [k \in 0..n |-> IF k = 0 THEN t ELSE Redo(f[k - 1], entries[k])]

(* Two replays of the same entries agree.                                  *)
LEMMA ReplaysAgree ==
    ASSUME NEW t, NEW entries, NEW n \in Nat, NEW f, NEW g,
           IsReplay(f, t, entries, n), IsReplay(g, t, entries, n)
    PROVE  f[n] = g[n]
<1> DEFINE S == {k \in Nat : k <= n => f[k] = g[k]}
<1>1. 0 \in S
    BY DEF IsReplay
<1>2. ASSUME NEW k \in Nat, k \in S
      PROVE  k + 1 \in S
    <2> SUFFICES ASSUME k + 1 <= n
                 PROVE  f[k + 1] = g[k + 1]
        OBVIOUS
    <2>1. k + 1 \in 0..n /\ k + 1 # 0 /\ (k + 1) - 1 = k
        OBVIOUS
    <2>2. f[k + 1] = Redo(f[k], entries[k + 1]) /\ g[k + 1] = Redo(g[k], entries[k + 1])
        BY <2>1 DEF IsReplay
    <2> QED BY <1>2, <2>2
<1>3. Nat \subseteq S
    <2> HIDE DEF S
    <2> QED BY <1>1, <1>2, Induct
<1> QED BY <1>3

(* A replay goes on with the next entry.                                   *)
LEMMA ReplayGoesOn ==
    ASSUME NEW t, NEW entries, NEW n \in Nat, NEW f, IsReplay(f, t, entries, n)
    PROVE  \E g : IsReplay(g, t, entries, n + 1)
<1> DEFINE g == [k \in 0..(n + 1) |-> IF k <= n THEN f[k] ELSE Redo(f[n], entries[n + 1])]
           h == [k \in 0..(n + 1) |-> IF k = 0 THEN t ELSE Redo(g[k - 1], entries[k])]
<1>1. ASSUME NEW k \in 0..(n + 1)
      PROVE  g[k] = h[k]
    <2>1. CASE k = 0
        BY <2>1 DEF IsReplay
    <2>2. CASE k # 0 /\ k <= n
        <3>1. k \in 0..n /\ k - 1 \in 0..(n + 1) /\ k - 1 <= n
            BY <2>2
        <3>2. f[k] = Redo(f[k - 1], entries[k])
            BY <2>2, <3>1 DEF IsReplay
        <3>3. g[k] = f[k] /\ g[k - 1] = f[k - 1]
            BY <2>2, <3>1
        <3> QED BY <2>2, <3>2, <3>3
    <2>3. CASE k = n + 1
        <3>1. n \in 0..(n + 1) /\ n <= n /\ k # 0 /\ k - 1 = n /\ ~(k <= n)
            BY <2>3
        <3>2. g[n] = f[n] /\ g[k] = Redo(f[n], entries[n + 1])
            BY <3>1
        <3>3. h[k] = Redo(g[k - 1], entries[k])
            BY <3>1
        <3> QED BY <2>3, <3>1, <3>2, <3>3
    <2> QED BY <2>1, <2>2, <2>3
<1>2. g = h
    <2> HIDE DEF g
    <2>1. g = [k \in 0..(n + 1) |-> g[k]]
        BY DEF g
    <2> HIDE DEF h
    <2>2. h = [k \in 0..(n + 1) |-> h[k]]
        BY DEF h
    <2> QED BY <1>1, <2>1, <2>2
<1>3. IsReplay(g, t, entries, n + 1)
    <2> HIDE DEF g
    <2> QED BY <1>2 DEF IsReplay
<1> QED BY <1>3

(* Any entries have a replay.                                              *)
LEMMA ReplayExists ==
    ASSUME NEW t, NEW entries
    PROVE  \A n \in Nat : \E f : IsReplay(f, t, entries, n)
<1> DEFINE S == {n \in Nat : \E f : IsReplay(f, t, entries, n)}
<1>1. 0 \in S
    <2> DEFINE f == [k \in 0..0 |-> t]
    <2>1. f = [k \in 0..0 |-> IF k = 0 THEN t ELSE Redo(f[k - 1], entries[k])]
        OBVIOUS
    <2> HIDE DEF f
    <2>2. IsReplay(f, t, entries, 0)
        BY <2>1 DEF IsReplay
    <2> QED BY <2>2
<1>2. ASSUME NEW n \in Nat, n \in S
      PROVE  n + 1 \in S
    BY <1>2, ReplayGoesOn
<1> HIDE DEF S
<1>3. Nat \subseteq S
    BY <1>1, <1>2, Induct
<1> QED BY <1>3 DEF S

(* The last text of any replay is the one Replay returns.                  *)
LEMMA ReplayIs ==
    ASSUME NEW t, NEW S, NEW entries \in Seq(S)
    PROVE  /\ \E f : IsReplay(f, t, entries, Len(entries))
           /\ \A f : IsReplay(f, t, entries, Len(entries)) => Replay(t, entries) = f[Len(entries)]
<1> DEFINE n == Len(entries)
           g == CHOOSE v : IsReplay(v, t, entries, n)
<1>1. n \in Nat
    OBVIOUS
<1>2. \E f : IsReplay(f, t, entries, n)
    BY <1>1, ReplayExists
<1>3. Replay(t, entries) = g[n]
    BY DEF Replay, IsReplay
<1>4. IsReplay(g, t, entries, n)
    BY <1>2
<1> HIDE DEF g, n
<1>5. \A f : IsReplay(f, t, entries, n) => g[n] = f[n]
    BY <1>1, <1>4, ReplaysAgree
<1> QED BY <1>2, <1>3, <1>5 DEF n

(* Replaying two ledgers one after the other is replaying the two joined.  *)
LEMMA ReplayTwo ==
    ASSUME NEW t, NEW S, NEW first \in Seq(S), NEW second \in Seq(S)
    PROVE  Replay(t, first \o second) = Replay(Replay(t, first), second)
<1> DEFINE m == Len(first)
           n == Len(second)
           both == first \o second
<1>1. /\ m \in Nat /\ n \in Nat /\ Len(both) = m + n
      /\ \A k \in 1..m : both[k] = first[k]
      /\ \A k \in 1..n : both[m + k] = second[k]
    OBVIOUS
<1>2. PICK f : IsReplay(f, t, first, m)
    BY ReplayIs
<1>3. PICK g : IsReplay(g, Replay(t, first), second, n)
    BY ReplayIs
<1>4. Replay(t, first) = f[m] /\ Replay(Replay(t, first), second) = g[n]
    BY <1>2, <1>3, ReplayIs
<1>5. both \in Seq(S)
    OBVIOUS
<1> HIDE DEF m, n, both
<1> DEFINE h == [k \in 0..(m + n) |-> IF k <= m THEN f[k] ELSE g[k - m]]
<1>6. ASSUME NEW k \in 0..(m + n)
      PROVE  h[k] = IF k = 0 THEN t ELSE Redo(h[k - 1], both[k])
    <2>1. CASE k = 0
        BY <1>1, <1>2, <2>1 DEF IsReplay
    <2>2. CASE k # 0 /\ k <= m
        <3>1. k \in 0..m /\ k \in 1..m /\ k - 1 \in 0..(m + n) /\ k - 1 <= m
            BY <1>1, <2>2
        <3>2. f[k] = Redo(f[k - 1], first[k])
            BY <1>2, <2>2, <3>1 DEF IsReplay
        <3>3. h[k] = f[k] /\ h[k - 1] = f[k - 1] /\ both[k] = first[k]
            BY <1>1, <2>2, <3>1
        <3> QED BY <2>2, <3>2, <3>3
    <2>3. CASE k = m + 1
        <3>1. m \in 0..(m + n) /\ k # 0 /\ k - 1 = m /\ k - m = 1 /\ ~(k <= m)
              /\ 0 \in 0..n /\ 1 \in 0..n /\ 1 \in 1..n
            BY <1>1, <2>3
        <3>2. h[m] = f[m] /\ h[k] = g[1]
            BY <1>1, <3>1
        <3>3. g[0] = f[m] /\ g[1] = Redo(g[0], second[1])
            BY <1>3, <1>4, <3>1 DEF IsReplay
        <3>4. both[k] = second[1]
            BY <1>1, <2>3, <3>1
        <3> QED BY <3>1, <3>2, <3>3, <3>4
    <2>4. CASE k > m + 1
        <3>1. /\ k - m \in 0..n /\ k - m \in 1..n /\ k - m # 0 /\ m + (k - m) = k
              /\ k - 1 \in 0..(m + n) /\ ~(k - 1 <= m) /\ ~(k <= m) /\ k # 0
              /\ (k - m) - 1 = (k - 1) - m
            BY <1>1, <2>4
        <3>2. h[k] = g[k - m] /\ h[k - 1] = g[(k - m) - 1]
            BY <3>1
        <3>3. g[k - m] = Redo(g[(k - m) - 1], second[k - m])
            BY <1>3, <3>1 DEF IsReplay
        <3>4. both[k] = second[k - m]
            BY <1>1, <3>1
        <3> QED BY <3>1, <3>2, <3>3, <3>4
    <2> QED BY <1>1, <2>1, <2>2, <2>3, <2>4
<1>7. IsReplay(h, t, both, m + n)
    <2>1. h = [k \in 0..(m + n) |-> h[k]]
        OBVIOUS
    <2> HIDE DEF h
    <2>2. h = [k \in 0..(m + n) |-> IF k = 0 THEN t ELSE Redo(h[k - 1], both[k])]
        BY <1>6, <2>1
    <2> QED BY <2>2 DEF IsReplay
<1>8. Replay(t, both) = h[m + n]
    <2> HIDE DEF h
    <2>1. IsReplay(h, t, both, Len(both))
        BY <1>1, <1>7
    <2>2. Replay(t, both) = h[Len(both)]
        BY <1>5, <2>1, ReplayIs
    <2> QED BY <1>1, <2>2
<1>9. h[m + n] = g[n]
    <2>1. CASE n = 0
        <3>1. g[0] = f[m]
            BY <1>1, <1>3, <1>4 DEF IsReplay
        <3> QED BY <1>1, <2>1, <3>1
    <2>2. CASE n # 0
        BY <1>1, <2>2
    <2> QED BY <2>1, <2>2
<1> QED BY <1>4, <1>8, <1>9 DEF both

(* Replaying nothing leaves the text.                                      *)
LEMMA ReplayNone == \A t : Replay(t, <<>>) = t
<1> SUFFICES ASSUME NEW t
             PROVE  Replay(t, <<>>) = t
    OBVIOUS
<1>1. <<>> \in Seq({}) /\ Len(<<>>) = 0
    OBVIOUS
<1>2. PICK f : IsReplay(f, t, <<>>, 0)
    BY <1>1, ReplayIs
<1>3. f[0] = t
    BY <1>2 DEF IsReplay
<1> QED BY <1>1, <1>2, <1>3, ReplayIs

(* Replaying one entry redoes it.                                          *)
LEMMA ReplayOne ==
    ASSUME NEW t, NEW e
    PROVE  Replay(t, <<e>>) = Redo(t, e)
<1>1. <<e>> \in Seq({e}) /\ Len(<<e>>) = 1 /\ <<e>>[1] = e
    OBVIOUS
<1>2. PICK f : IsReplay(f, t, <<e>>, 1)
    BY <1>1, ReplayIs
<1>3. f[0] = t /\ f[1] = Redo(f[0], <<e>>[1])
    BY <1>2 DEF IsReplay
<1>4. Replay(t, <<e>>) = f[1]
    BY <1>1, <1>2, ReplayIs
<1> QED BY <1>1, <1>3, <1>4

(* One entry more is redone at the end.                                    *)
LEMMA ReplayAppend ==
    ASSUME NEW t, NEW S, NEW entries \in Seq(S), NEW e \in S
    PROVE  Replay(t, Append(entries, e)) = Redo(Replay(t, entries), e)
<1> DEFINE added == <<e>>
<1>1. added \in Seq(S) /\ Append(entries, e) = entries \o added
    OBVIOUS
<1>2. \A u : Replay(u, added) = Redo(u, e)
    BY ReplayOne
<1> HIDE DEF added
<1>3. Replay(t, entries \o added) = Replay(Replay(t, entries), added)
    BY <1>1, ReplayTwo
<1> QED BY <1>1, <1>2, <1>3

(***************************************************************************)
(* The invariant.                                                          *)
(***************************************************************************)
Entries == {Edit(o, n) : o \in Words, n \in Replacements} \cup {Rewrite, Joined}
Headings == {<<>>, <<Joined>>}

\* a call that may change the text, and one that has changed it
Editing(w, s) == call[w][s].at \in {"check", "store", "rewrite", "append"}
Appending(w, s) == call[w][s].at = "append"

WellFormed(c) ==
    \/ c = NoCall
    \/ c.at = "check" /\ Edit(c.old, c.new) \in Entries
    \/ /\ c = [at |-> "store", old |-> c.old, new |-> c.new, read |-> c.read]
       /\ Edit(c.old, c.new) \in Entries
    \/ c.at \in {"rewrite", "ask", "model"}
    \/ c.at = "append" /\ c.entry \in Entries

Shaped ==
    /\ agent \in [Agents -> {"queued", "running", "done", "failed", "skipped"}]
    /\ base = [w \in Agents |-> base[w]] /\ text = [w \in Agents |-> text[w]]
    /\ changes \in [Agents -> Seq(Entries)]
    /\ call = [w \in Agents |-> [s \in Slots |-> call[w][s]]]
    /\ \A w \in Agents, s \in Slots : WellFormed(call[w][s])
    /\ versions = [v \in {"v1", "v2"} |-> versions[v]]
    /\ step = [n \in {"page_content", "boundaries"} |-> step[n]]

\* only a running agent has calls under way; before it runs it has no edits
Quiet(w) ==
    /\ agent[w] # "running" => \A s \in Slots : call[w][s] = NoCall
    /\ agent[w] \in {"queued", "skipped"} => changes[w] = <<>>

\* The record of an agent that edited one call at a time: the text is the
\* replay of its entries, and of the one that is still to be appended.
Recorded(w) == Replay(base[w], changes[w])
Accounted(w) ==
    /\ \A s, t \in Slots : Editing(w, s) /\ Editing(w, t) => s = t
    /\ \A s \in Slots : call[w][s].at = "store" => call[w][s].read = text[w]
    /\ Exact(w) =>
        IF \E s \in Slots : Appending(w, s)
        THEN \A s \in Slots : Appending(w, s) /\ call[w][s].entry # Rewrite =>
                                text[w] = Redo(Recorded(w), call[w][s].entry)
        ELSE text[w] = Recorded(w)

FromV0 == \A p \in Pages :
    /\ agent[p] # "skipped"
    /\ agent[p] # "queued" => base[p] = Original[p]

V1 == versions["v1"] # <<>> =>
    PagesEnded /\ versions["v1"] = <<Join([p \in Pages |-> Corrected(p)])>>

\* what an agent of the document starts from, and passes on when it is skipped
From(w, t) == IF agent[w] = "skipped" THEN text[w] = t ELSE base[w] = t

DocumentOK ==
    /\ agent[boundary] # "queued" =>
        versions["v1"] # <<>> /\ From(boundary, HyphenJoin(versions["v1"][1]))
    /\ agent[footnote] # "queued" => Ended(boundary) /\ From(footnote, text[boundary])
    /\ IF versions["v2"] = <<>> THEN step["boundaries"] \in Headings
       ELSE /\ Ended(footnote) /\ versions["v2"] = <<text[footnote]>>
            /\ \E h \in Headings :
                step["boundaries"] = h \o changes[boundary] \o changes[footnote]

LedgerInv ==
    /\ \A w \in Agents : Quiet(w)
    /\ \A w \in Agents : agent[w] # "skipped" /\ w \notin together => Accounted(w)
    /\ FromV0 /\ V1 /\ DocumentOK

(* The agents of the document are not pages.                               *)
LEMMA AgentsAre ==
    /\ boundary \notin Pages /\ footnote \notin Pages /\ boundary # footnote
    /\ boundary \in Agents /\ footnote \in Agents /\ Pages \subseteq Agents
    /\ \A w \in Agents : w \in Pages \/ w = boundary \/ w = footnote
<1>1. Cardinality(Pages) \in Nat /\ Pages = 1..Cardinality(Pages)
    BY EditAssumption, FS_CardinalityType
<1>2. boundary \notin Pages /\ footnote \notin Pages /\ boundary # footnote
    BY <1>1 DEF boundary, footnote
<1> QED BY <1>2 DEF Agents, Documents

(* A tool call edits, rewrites or asks; its edit can be recorded.          *)
LEMMA ToolCallsAre ==
    ASSUME NEW w, NEW c \in ToolCalls(w)
    PROVE  /\ c.at \in {"check", "rewrite", "ask"} /\ c # NoCall
           /\ c.at = "check" => Edit(c.old, c.new) \in Entries
<1>1. CASE c \in EditCalls
    BY <1>1 DEF EditCalls, NoCall, Entries
<1>2. CASE c \in RewriteCalls(w)
    BY <1>2 DEF RewriteCalls, NoCall
<1>3. CASE c \in HelperCalls(w)
    BY <1>3 DEF HelperCalls, NoCall
<1> QED BY <1>1, <1>2, <1>3 DEF ToolCalls

(* The shape holds initially.                                              *)
LEMMA ShapedInit == Init => Shaped
<1> SUFFICES ASSUME Init
             PROVE  Shaped
    OBVIOUS
<1>1. \A w \in Agents, s \in Slots : WellFormed(call[w][s])
    BY DEF Init, WellFormed
<1>2. changes \in [Agents -> Seq(Entries)]
    BY DEF Init
<1> QED BY <1>1, <1>2 DEF Init, Shaped

(* A call keeps the shape.                                                 *)
LEMMA ShapedCall ==
    ASSUME Shaped, NEW w \in Agents, NEW s \in Slots, CallStep(w, s)
    PROVE  Shaped'
<1>1. /\ call = [v \in Agents |-> [t \in Slots |-> call[v][t]]]
      /\ \A v \in Agents, t \in Slots : WellFormed(call[v][t])
      /\ text = [v \in Agents |-> text[v]]
      /\ changes \in [Agents -> Seq(Entries)]
    BY DEF Shaped
<1>2. ASSUME NEW c, CallGoes(w, s, c), WellFormed(c)
      PROVE  /\ call' = [v \in Agents |-> [t \in Slots |-> call'[v][t]]]
             /\ \A v \in Agents, t \in Slots : WellFormed(call'[v][t])
    <2>1. call' = [call EXCEPT ![w] = [call[w] EXCEPT ![s] = c]]
        BY <1>2 DEF CallGoes
    <2>2. \A v \in Agents, t \in Slots : call'[v][t] = IF v = w /\ t = s THEN c ELSE call[v][t]
        BY <1>1, <2>1
    <2>3. call' = [v \in Agents |-> [t \in Slots |-> call'[v][t]]]
        BY <1>1, <2>1
    <2> QED BY <1>1, <1>2, <2>2, <2>3
<1>3. WellFormed(NoCall)
    BY DEF WellFormed
<1>4. CASE CheckEdit(w, s)
    <2>1. PICK c : c = call[w][s]
        OBVIOUS
    <2>2. PICK d : d = IF Unique(text[w], c.old)
                       THEN [at |-> "store", old |-> c.old, new |-> c.new, read |-> text[w]]
                       ELSE NoCall
        OBVIOUS
    <2>3. c.at = "check" /\ CallGoes(w, s, d) /\ UNCHANGED <<agent, base, text, changes, outcome>>
        BY <1>4, <2>1, <2>2 DEF CheckEdit
    <2>4. WellFormed(c)
        BY <1>1, <2>1
    <2>5. Edit(c.old, c.new) \in Entries
        BY <2>3, <2>4 DEF WellFormed, NoCall
    <2>6. WellFormed(d)
        BY <2>2, <2>5 DEF WellFormed
    <2> QED BY <1>2, <2>3, <2>6 DEF Shaped, outcome
<1>5. CASE Reread(w, s)
    <2>1. PICK c : c = call[w][s]
        OBVIOUS
    <2>2. PICK d : d = [c EXCEPT !.read = text[w]]
        OBVIOUS
    <2>3. c.at = "store" /\ CallGoes(w, s, d) /\ UNCHANGED <<agent, base, text, changes, outcome>>
        BY <1>5, <2>1, <2>2 DEF Reread
    <2>4. WellFormed(c)
        BY <1>1, <2>1
    <2>5. /\ Edit(c.old, c.new) \in Entries
          /\ c = [at |-> "store", old |-> c.old, new |-> c.new, read |-> c.read]
        BY <2>3, <2>4 DEF WellFormed, NoCall
    <2>6. d = [at |-> "store", old |-> c.old, new |-> c.new, read |-> text[w]]
        BY <2>2, <2>5
    <2>7. WellFormed(d)
        BY <2>5, <2>6 DEF WellFormed
    <2> QED BY <1>2, <2>3, <2>7 DEF Shaped, outcome
<1>6. CASE StoreEdit(w, s)
    <2>1. PICK c : c = call[w][s]
        OBVIOUS
    <2>2. PICK d : d = [at |-> "append", entry |-> Edit(c.old, c.new)]
        OBVIOUS
    <2>3. /\ c.at = "store" /\ CallGoes(w, s, d) /\ UNCHANGED <<agent, base, changes, outcome>>
          /\ text' = [text EXCEPT ![w] = ReplaceOnce(c.read, c.old, c.new)]
        BY <1>6, <2>1, <2>2 DEF StoreEdit
    <2>4. WellFormed(c)
        BY <1>1, <2>1
    <2>5. Edit(c.old, c.new) \in Entries
        BY <2>3, <2>4 DEF WellFormed, NoCall
    <2>6. WellFormed(d)
        BY <2>2, <2>5 DEF WellFormed
    <2>7. text' = [v \in Agents |-> text'[v]]
        BY <1>1, <2>3
    <2> QED BY <1>2, <2>3, <2>6, <2>7 DEF Shaped, outcome
<1>7. CASE StoreRewrite(w, s)
    <2>1. PICK d : d = [at |-> "append", entry |-> Rewrite]
        OBVIOUS
    <2>2. /\ CallGoes(w, s, d) /\ UNCHANGED <<agent, base, changes, outcome>>
          /\ text' = [text EXCEPT ![w] = call[w][s].new]
        BY <1>7, <2>1 DEF StoreRewrite
    <2>3. WellFormed(d)
        BY <2>1 DEF WellFormed, Entries
    <2>4. text' = [v \in Agents |-> text'[v]]
        BY <1>1, <2>2
    <2> QED BY <1>2, <2>2, <2>3, <2>4 DEF Shaped, outcome
<1>8. CASE AppendChange(w, s)
    <2>1. PICK e : e = call[w][s].entry
        OBVIOUS
    <2>2. /\ call[w][s].at = "append" /\ CallGoes(w, s, NoCall)
          /\ UNCHANGED <<agent, base, text, outcome>>
          /\ changes' = [changes EXCEPT ![w] = Append(changes[w], e)]
        BY <1>8, <2>1 DEF AppendChange
    <2>3. e \in Entries
        <3>1. PICK c : c = call[w][s]
            OBVIOUS
        <3>2. WellFormed(c)
            BY <1>1, <3>1
        <3> QED BY <2>1, <2>2, <3>1, <3>2 DEF WellFormed, NoCall
    <2>4. changes' \in [Agents -> Seq(Entries)]
        BY <1>1, <2>2, <2>3
    <2> QED BY <1>2, <1>3, <2>2, <2>4 DEF Shaped, outcome
<1>9. CASE AskHelper(w, s)
    <2>1. PICK d : d \in {NoCall, [at |-> "model", helper |-> call[w][s].helper]} /\ CallGoes(w, s, d)
        BY <1>9 DEF AskHelper
    <2>2. UNCHANGED <<agent, base, text, changes, outcome>>
        BY <1>9 DEF AskHelper
    <2>3. WellFormed(d)
        BY <2>1 DEF WellFormed
    <2> QED BY <1>2, <2>1, <2>2, <2>3 DEF Shaped, outcome
<1>10. CASE HelperAnswers(w, s)
    BY <1>2, <1>3, <1>10 DEF HelperAnswers, Shaped, outcome
<1> QED BY <1>4, <1>5, <1>6, <1>7, <1>8, <1>9, <1>10 DEF CallStep

(* An answer keeps the shape.                                              *)
LEMMA ShapedAnswer ==
    ASSUME Shaped, NEW w \in Agents, Answer(w)
    PROVE  Shaped'
<1>1. PICK first \in ToolCalls(w), second \in ToolCalls(w) \cup {NoCall} :
        call' = [call EXCEPT ![w] = <<first, second>>]
    BY DEF Answer
<1>2. UNCHANGED <<agent, base, text, changes, outcome>>
    BY DEF Answer
<1>3. WellFormed(first) /\ WellFormed(second)
    BY ToolCallsAre DEF WellFormed
<1>4. /\ call = [v \in Agents |-> [t \in Slots |-> call[v][t]]]
      /\ \A v \in Agents, t \in Slots : WellFormed(call[v][t])
    BY DEF Shaped
<1>5. \A v \in Agents, t \in Slots :
        call'[v][t] = IF v # w THEN call[v][t] ELSE IF t = 1 THEN first ELSE second
    BY <1>1, <1>4 DEF Slots
<1>6. \A v \in Agents, t \in Slots : WellFormed(call'[v][t])
    BY <1>3, <1>4, <1>5
<1>7. call' = [v \in Agents |-> [t \in Slots |-> call'[v][t]]]
    <2>1. <<first, second>> = [t \in Slots |-> <<first, second>>[t]]
        BY DEF Slots
    <2> QED BY <1>1, <1>4, <2>1
<1> QED BY <1>2, <1>6, <1>7 DEF Shaped, outcome

(* So does an agent that starts, as far as it goes.                        *)
LEMMA ShapedStarts ==
    ASSUME Shaped, NEW w \in Agents, NEW t, Starts(w, t)
    PROVE  /\ agent' \in [Agents -> {"queued", "running", "done", "failed", "skipped"}]
           /\ base' = [v \in Agents |-> base'[v]] /\ text' = [v \in Agents |-> text'[v]]
           /\ call' = call
BY DEF Shaped, Starts

(* Every step keeps the shape.                                             *)
LEMMA ShapedStep == Shaped /\ [Next]_vars => Shaped'
<1> SUFFICES ASSUME Shaped, [Next]_vars
             PROVE  Shaped'
    OBVIOUS
<1> USE AgentsAre
<1>1. ASSUME NEW p \in Pages, StartPage(p)
      PROVE  Shaped'
    <2>1. Starts(p, Original[p]) /\ UNCHANGED <<changes, outcome>> /\ p \in Agents
        BY <1>1 DEF StartPage
    <2> QED BY <2>1, ShapedStarts DEF Shaped, outcome
<1>2. ASSUME NEW w \in Agents, AgentNext(w)
      PROVE  Shaped'
    <2>1. CASE AgentEnds(w)
        <3>1. agent' \in [Agents -> {"queued", "running", "done", "failed", "skipped"}]
            BY <2>1 DEF AgentEnds, Shaped
        <3>2. UNCHANGED <<base, text, changes, call, outcome>>
            BY <2>1 DEF AgentEnds
        <3> QED BY <3>1, <3>2 DEF Shaped, outcome
    <2> QED BY <1>2, <2>1, ShapedAnswer, ShapedCall DEF AgentNext
<1>3. CASE CollectPages
    <2>1. versions' = [v \in {"v1", "v2"} |-> versions'[v]]
        BY <1>3 DEF CollectPages, Shaped
    <2>2. step' = [n \in {"page_content", "boundaries"} |-> step'[n]]
        BY <1>3 DEF CollectPages, Shaped
    <2> QED BY <1>3, <2>1, <2>2 DEF CollectPages, Shaped, edits
<1>4. CASE StartBoundary
    <2>1. step' = [n \in {"page_content", "boundaries"} |-> step'[n]]
        BY <1>4 DEF StartBoundary, Shaped
    <2>2. PICK t : t = HyphenJoin(versions["v1"][1])
        OBVIOUS
    <2>3. CASE Starts(boundary, t)
        <3>1. UNCHANGED <<changes, versions>>
            BY <1>4 DEF StartBoundary
        <3> QED BY <2>1, <2>3, <3>1, ShapedStarts DEF Shaped
    <2>4. CASE ~Starts(boundary, t)
        <3>1. /\ agent' = [agent EXCEPT ![boundary] = "skipped"]
              /\ text' = [text EXCEPT ![boundary] = t]
              /\ UNCHANGED <<base, call, changes, versions>>
            BY <1>4, <2>2, <2>4 DEF StartBoundary
        <3> QED BY <2>1, <3>1 DEF Shaped
    <2> QED BY <2>3, <2>4
<1>5. CASE StartFootnotes
    <2>1. PICK t : t = HandedOn
        OBVIOUS
    <2>2. UNCHANGED <<changes, versions, step>>
        BY <1>5 DEF StartFootnotes, outcome
    <2>3. CASE Starts(footnote, t)
        BY <2>2, <2>3, ShapedStarts DEF Shaped
    <2>4. CASE ~Starts(footnote, t)
        <3>1. /\ agent' = [agent EXCEPT ![footnote] = "skipped"]
              /\ text' = [text EXCEPT ![footnote] = t]
              /\ UNCHANGED <<base, call>>
            BY <1>5, <2>1, <2>4 DEF StartFootnotes
        <3> QED BY <2>2, <3>1 DEF Shaped
    <2> QED BY <2>3, <2>4
<1>6. CASE CollectDocument
    <2>1. versions' = [v \in {"v1", "v2"} |-> versions'[v]]
        BY <1>6 DEF CollectDocument, Shaped
    <2>2. step' = [n \in {"page_content", "boundaries"} |-> step'[n]]
        BY <1>6 DEF CollectDocument, Shaped
    <2> QED BY <1>6, <2>1, <2>2 DEF CollectDocument, Shaped, edits
<1>7. CASE StoreLedger \/ GetLedger \/ UNCHANGED vars
    BY <1>7 DEF StoreLedger, GetLedger, vars, edits, outcome, Shaped
<1> QED BY <1>1, <1>2, <1>3, <1>4, <1>5, <1>6, <1>7 DEF Next, StepNext

(***************************************************************************)
(* What a step of one agent leaves alone.                                  *)
(***************************************************************************)
Same(v) ==
    /\ agent'[v] = agent[v] /\ base'[v] = base[v] /\ text'[v] = text[v]
    /\ changes'[v] = changes[v] /\ call'[v] = call[v]
    /\ v \in together' <=> v \in together

AgentOK(w) == Quiet(w) /\ (agent[w] # "skipped" /\ w \notin together => Accounted(w))

(* An agent that a step leaves alone stays accounted for.                  *)
LEMMA SameAgent ==
    ASSUME NEW v, AgentOK(v), Same(v)
    PROVE  AgentOK(v)'
<1>1. Quiet(v)'
    BY DEF AgentOK, Same, Quiet
<1>2. ASSUME agent'[v] # "skipped", v \notin together'
      PROVE  Accounted(v)'
    <2>1. Accounted(v)
        BY <1>2 DEF AgentOK, Same
    <2>2. (Exact(v)' <=> Exact(v)) /\ Recorded(v)' = Recorded(v)
        BY DEF Same, Exact, Recorded
    <2>3. \A s \in Slots : (Editing(v, s)' <=> Editing(v, s)) /\ (Appending(v, s)' <=> Appending(v, s))
        BY DEF Same, Editing, Appending
    <2> QED BY <2>1, <2>2, <2>3 DEF Accounted, Same
<1> QED BY <1>1, <1>2 DEF AgentOK

(* The pages once collected stay as they are: none of them is running.     *)
LEMMA PagesStay ==
    ASSUME Shaped, V1, NEW w \in Agents, agent[w] \in {"queued", "running"},
           \A v \in Agents \ {w} : Same(v), versions' = versions
    PROVE  V1'
<1> SUFFICES ASSUME versions["v1"] # <<>>
             PROVE  PagesEnded' /\ versions["v1"] = <<Join([p \in Pages |-> Corrected(p)'])>>
    BY DEF V1
<1>1. PagesEnded /\ versions["v1"] = <<Join([p \in Pages |-> Corrected(p)])>>
    BY DEF V1
<1>2. \A p \in Pages : Same(p)
    BY <1>1, AgentsAre DEF PagesEnded
<1>3. \A p \in Pages : Corrected(p)' = Corrected(p)
    BY <1>2 DEF Corrected, Same
<1>4. [p \in Pages |-> Corrected(p)'] = [p \in Pages |-> Corrected(p)]
    BY <1>3
<1>5. PagesEnded'
    BY <1>1, <1>2 DEF PagesEnded, Same
<1> QED BY <1>1, <1>4, <1>5

(* A running agent that goes on, or ends, disturbs neither the pages that  *)
(* were collected nor what the agents of the document started from.        *)
LEMMA RunningAgent ==
    ASSUME Shaped, LedgerInv, NEW w \in Agents, agent[w] = "running",
           \A v \in Agents \ {w} : Same(v), versions' = versions, step' = step,
           base'[w] = base[w], agent'[w] \in {"running", "done", "failed"}, AgentOK(w)'
    PROVE  LedgerInv'
<1>1. \A v \in Agents : AgentOK(v)'
    BY SameAgent DEF LedgerInv, AgentOK
<1>2. FromV0'
    BY AgentsAre DEF FromV0, LedgerInv, Same
<1>3. V1'
    BY PagesStay DEF LedgerInv
<1>4. DocumentOK'
    <2> USE AgentsAre
    <2>1. DocumentOK
        BY DEF LedgerInv
    <2>2. /\ agent'[boundary] # "queued" => agent[boundary] # "queued"
          /\ agent'[footnote] # "queued" => agent[footnote] # "queued"
        BY DEF Same
    <2>3. ASSUME agent[boundary] # "queued"
          PROVE  /\ versions["v1"] # <<>>
                 /\ From(boundary, HyphenJoin(versions["v1"][1]))'
        BY <2>1, <2>3 DEF DocumentOK, From, Same
    <2>4. ASSUME agent[footnote] # "queued"
          PROVE  Ended(boundary)' /\ From(footnote, text[boundary])'
        <3>1. Ended(boundary) /\ From(footnote, text[boundary])
            BY <2>1, <2>4 DEF DocumentOK
        <3>2. Same(boundary)
            BY <3>1 DEF Ended
        <3> QED BY <3>1, <3>2 DEF Ended, From, Same
    <2>5. ASSUME versions["v2"] # <<>>
          PROVE  /\ Ended(footnote)' /\ versions["v2"] = <<text'[footnote]>>
                 /\ changes'[boundary] = changes[boundary] /\ changes'[footnote] = changes[footnote]
        <3>1. Ended(footnote) /\ versions["v2"] = <<text[footnote]>>
            BY <2>1, <2>5 DEF DocumentOK
        <3>2. Ended(boundary)
            BY <2>1, <3>1 DEF DocumentOK, Ended
        <3>3. Same(boundary) /\ Same(footnote)
            BY <3>1, <3>2 DEF Ended
        <3> QED BY <3>1, <3>3 DEF Ended, Same
    <2>6. IF versions["v2"] = <<>> THEN step["boundaries"] \in Headings
          ELSE \E h \in Headings :
                step["boundaries"] = h \o changes[boundary] \o changes[footnote]
        BY <2>1 DEF DocumentOK
    <2> QED BY <2>2, <2>3, <2>4, <2>5, <2>6 DEF DocumentOK
<1> QED BY <1>1, <1>2, <1>3, <1>4 DEF LedgerInv, AgentOK

(* Initially nothing has a text, and there is no record.                   *)
LEMMA LedgerInit == Init => LedgerInv
<1> SUFFICES ASSUME Init
             PROVE  LedgerInv
    OBVIOUS
<1> USE AgentsAre
<1>1. \A w \in Agents : Quiet(w)
    BY DEF Init, Quiet
<1>2. ASSUME NEW w \in Agents
      PROVE  Accounted(w)
    <2>1. \A s \in Slots : call[w][s].at = "none"
        BY DEF Init, NoCall
    <2>2. Recorded(w) = <<>> /\ text[w] = <<>>
        BY ReplayNone DEF Init, Recorded
    <2> QED BY <2>1, <2>2 DEF Accounted, Editing, Appending
<1>3. FromV0 /\ V1
    BY DEF Init, FromV0, V1
<1>4. DocumentOK
    BY DEF Init, DocumentOK, Headings
<1> QED BY <1>1, <1>2, <1>3, <1>4 DEF LedgerInv

(***************************************************************************)
(* The calls of one agent.                                                 *)
(***************************************************************************)
(* Only a running agent has a call.                                        *)
LEMMA CallRuns ==
    ASSUME Shaped, LedgerInv, NEW w \in Agents, NEW s \in Slots, call[w][s].at # "none"
    PROVE  agent[w] = "running"
BY DEF LedgerInv, Quiet, NoCall

\* a call of one agent, in one slot, that becomes another
Turns(w, s, c) ==
    /\ CallGoes(w, s, c)
    /\ UNCHANGED <<agent, base, versions, step, together>>
    /\ \A v \in Agents \ {w} : text'[v] = text[v] /\ changes'[v] = changes[v]

(* A call that turns concerns its own agent only.                          *)
LEMMA TurnsAlone ==
    ASSUME Shaped, LedgerInv, NEW w \in Agents, NEW s \in Slots, NEW c,
           agent[w] = "running", Turns(w, s, c),
           w \notin together => Accounted(w)'
    PROVE  LedgerInv'
<1>1. call' = [call EXCEPT ![w] = [call[w] EXCEPT ![s] = c]]
    BY DEF Turns, CallGoes
<1>2. \A v \in Agents \ {w} : call'[v] = call[v]
    BY <1>1 DEF Shaped
<1>3. \A v \in Agents \ {w} : Same(v)
    BY <1>2 DEF Turns, Same
<1>4. AgentOK(w)'
    BY DEF Turns, AgentOK, Quiet
<1> QED BY <1>3, <1>4, RunningAgent DEF Turns

(* What each slot holds then.                                              *)
LEMMA TurnsTo ==
    ASSUME Shaped, NEW w \in Agents, NEW s \in Slots, NEW c, CallGoes(w, s, c)
    PROVE  \A t \in Slots : call'[w][t] = IF t = s THEN c ELSE call[w][t]
BY DEF CallGoes, Shaped

(* Every call keeps the record: the single editing call of an agent stores *)
(* the text it read and then appends the entry that redoes it.             *)
LEMMA CallKeeps ==
    ASSUME Shaped, LedgerInv, NEW w \in Agents, NEW s \in Slots, CallStep(w, s)
    PROVE  LedgerInv'
<1> PICK c : c = call[w][s]
    OBVIOUS
<1>1. agent[w] = "running"
    <2>1. call[w][s].at # "none"
        BY DEF CallStep, CheckEdit, Reread, StoreEdit, StoreRewrite, AppendChange,
               AskHelper, HelperAnswers
    <2> QED BY <2>1, CallRuns
<1>2. w \notin together => Accounted(w)
    BY <1>1 DEF LedgerInv
<1>3. WellFormed(c)
    BY DEF Shaped
<1>4. ASSUME NEW d, Turns(w, s, d), text'[w] = text[w], changes'[w] = changes[w],
             c.at # "append", d.at \in {"none", "store", "ask", "model"},
             d.at = "store" => c.at \in {"check", "store"} /\ d.read = text[w]
      PROVE  LedgerInv'
    <2>1. \A t \in Slots : call'[w][t] = IF t = s THEN d ELSE call[w][t]
        BY <1>4, TurnsTo DEF Turns
    <2>2. \A t \in Slots : /\ Editing(w, t)' => Editing(w, t)
                           /\ Appending(w, t)' <=> Appending(w, t)
        BY <1>4, <2>1 DEF Editing, Appending
    <2>3. (Exact(w)' <=> Exact(w)) /\ Recorded(w)' = Recorded(w)
        BY <1>4 DEF Exact, Recorded, Turns
    <2>4. \A t \in Slots : Appending(w, t) => call'[w][t] = call[w][t]
        BY <1>4, <2>1 DEF Appending
    <2>5. ASSUME w \notin together
          PROVE  Accounted(w)'
        <3>1. \A t \in Slots : call'[w][t].at = "store" => call'[w][t].read = text'[w]
            BY <1>2, <1>4, <2>1, <2>5 DEF Accounted
        <3>2. \A t, u \in Slots : Editing(w, t)' /\ Editing(w, u)' => t = u
            BY <1>2, <2>2, <2>5 DEF Accounted
        <3>3. Exact(w)' =>
                IF \E t \in Slots : Appending(w, t)'
                THEN \A t \in Slots : Appending(w, t)' /\ call'[w][t].entry # Rewrite =>
                                text'[w] = Redo(Recorded(w)', call'[w][t].entry)
                ELSE text'[w] = Recorded(w)'
            BY <1>2, <1>4, <2>2, <2>3, <2>4, <2>5 DEF Accounted
        <3> QED BY <3>1, <3>2, <3>3 DEF Accounted
    <2> QED BY <1>1, <1>4, <2>5, TurnsAlone
<1>5. CASE CheckEdit(w, s)
    <2>1. PICK d : d = IF Unique(text[w], c.old)
                       THEN [at |-> "store", old |-> c.old, new |-> c.new, read |-> text[w]]
                       ELSE NoCall
        OBVIOUS
    <2>2. c.at = "check" /\ Turns(w, s, d) /\ text' = text /\ changes' = changes
        BY <1>5, <2>1 DEF CheckEdit, Turns, outcome, history
    <2>3. d.at \in {"none", "store"} /\ (d.at = "store" => d.read = text[w])
        BY <2>1 DEF NoCall
    <2> QED BY <1>4, <2>2, <2>3
<1>6. CASE Reread(w, s)
    <2>1. PICK d : d = [c EXCEPT !.read = text[w]]
        OBVIOUS
    <2>2. c.at = "store" /\ Turns(w, s, d) /\ text' = text /\ changes' = changes
        BY <1>6, <2>1 DEF Reread, Turns, outcome, history
    <2>3. c = [at |-> "store", old |-> c.old, new |-> c.new, read |-> c.read]
        BY <1>3, <2>2 DEF WellFormed, NoCall
    <2>4. d.at = "store" /\ d.read = text[w]
        BY <2>1, <2>3
    <2> QED BY <1>4, <2>2, <2>4
<1>7. CASE StoreEdit(w, s)
    <2>1. PICK e : e = Edit(c.old, c.new)
        OBVIOUS
    <2>2. PICK d : d = [at |-> "append", entry |-> e]
        OBVIOUS
    <2>3. /\ c.at = "store" /\ Turns(w, s, d) /\ changes' = changes /\ base' = base
          /\ text' = [text EXCEPT ![w] = ReplaceOnce(c.read, c.old, c.new)]
        BY <1>7, <2>1, <2>2 DEF StoreEdit, Turns, outcome, history, Shaped
    <2>4. \A t \in Slots : call'[w][t] = IF t = s THEN d ELSE call[w][t]
        BY <2>3, TurnsTo DEF Turns
    <2>5. ASSUME w \notin together
          PROVE  Accounted(w)'
        <3>1. Accounted(w) /\ Editing(w, s)
            BY <1>2, <2>3, <2>5 DEF Editing
        <3>2. \A t \in Slots : Editing(w, t)' => t = s
            BY <2>4, <3>1 DEF Accounted, Editing
        <3>3. \A t \in Slots : Appending(w, t)' <=> t = s
            BY <2>2, <2>4, <3>2 DEF Appending, Editing
        <3>4. \A t \in Slots : call'[w][t].at # "store"
            BY <2>2, <2>4, <3>2 DEF Editing
        <3>5. \A t \in Slots : ~Appending(w, t)
            BY <2>3, <3>1 DEF Accounted, Editing, Appending
        <3>6. Exact(w)' => text[w] = Recorded(w)
            BY <2>3, <3>1, <3>5 DEF Accounted, Exact, Turns
        <3>7. text'[w] = Redo(text[w], e)
            <4>1. c.read = text[w]
                BY <2>3, <3>1 DEF Accounted
            <4>2. text'[w] = ReplaceOnce(text[w], c.old, c.new)
                BY <2>3, <4>1 DEF Shaped
            <4> QED BY <2>1, <4>2 DEF Redo, Edit
        <3>8. Recorded(w)' = Recorded(w)
            BY <2>3 DEF Recorded
        <3>9. call'[w][s].entry = e
            BY <2>2, <2>4
        <3> QED BY <3>2, <3>3, <3>4, <3>6, <3>7, <3>8, <3>9 DEF Accounted
    <2> QED BY <1>1, <2>3, <2>5, TurnsAlone
<1>8. CASE StoreRewrite(w, s)
    <2>1. PICK d : d = [at |-> "append", entry |-> Rewrite]
        OBVIOUS
    <2>2. /\ c.at = "rewrite" /\ Turns(w, s, d)
        BY <1>8, <2>1 DEF StoreRewrite, Turns, outcome, history, Shaped
    <2>3. \A t \in Slots : call'[w][t] = IF t = s THEN d ELSE call[w][t]
        BY <2>2, TurnsTo DEF Turns
    <2>4. ASSUME w \notin together
          PROVE  Accounted(w)'
        <3>1. Accounted(w) /\ Editing(w, s)
            BY <1>2, <2>2, <2>4 DEF Editing
        <3>2. \A t \in Slots : Editing(w, t)' => t = s
            BY <2>3, <3>1 DEF Accounted, Editing
        <3>3. \A t \in Slots : Appending(w, t)' <=> t = s
            BY <2>1, <2>3, <3>2 DEF Appending, Editing
        <3>4. \A t \in Slots : call'[w][t].at # "store"
            BY <2>1, <2>3, <3>2 DEF Editing
        <3>5. call'[w][s].entry = Rewrite
            BY <2>1, <2>3
        <3> QED BY <3>2, <3>3, <3>4, <3>5 DEF Accounted
    <2> QED BY <1>1, <2>2, <2>4, TurnsAlone
<1>9. CASE AppendChange(w, s)
    <2>1. PICK e : e = c.entry
        OBVIOUS
    <2>2. /\ c.at = "append" /\ Turns(w, s, NoCall) /\ text' = text /\ base' = base
          /\ changes' = [changes EXCEPT ![w] = Append(changes[w], e)]
        BY <1>9, <2>1 DEF AppendChange, Turns, outcome, history, Shaped
    <2>3. \A t \in Slots : call'[w][t] = IF t = s THEN NoCall ELSE call[w][t]
        BY <2>2, TurnsTo DEF Turns
    <2>4. e \in Entries
        BY <1>3, <2>1, <2>2 DEF WellFormed, NoCall
    <2>5. changes[w] \in Seq(Entries) /\ changes'[w] = Append(changes[w], e)
        BY <2>2 DEF Shaped
    <2>6. ASSUME w \notin together
          PROVE  Accounted(w)'
        <3>1. Accounted(w) /\ Editing(w, s) /\ Appending(w, s)
            BY <1>2, <2>2, <2>6 DEF Editing, Appending
        <3>2. \A t \in Slots : Editing(w, t) => t = s
            BY <3>1 DEF Accounted
        <3>3. \A t \in Slots : ~Editing(w, t)'
            BY <2>3, <3>2 DEF Editing, NoCall
        <3>4. \A t \in Slots : ~Appending(w, t)' /\ call'[w][t].at # "store"
            BY <3>3 DEF Editing, Appending
        <3>5. Exact(w)' => Exact(w) /\ e # Rewrite
            <4>1. /\ \A i \in DOMAIN changes[w] : i \in DOMAIN changes'[w] /\ changes'[w][i] = changes[w][i]
                  /\ Len(changes'[w]) \in DOMAIN changes'[w] /\ changes'[w][Len(changes'[w])] = e
                BY <2>4, <2>5
            <4> QED BY <2>6, <4>1 DEF Exact
        <3>6. Recorded(w)' = Redo(Recorded(w), e)
            BY <2>2, <2>4, <2>5, ReplayAppend DEF Recorded
        <3>7. Exact(w)' => text'[w] = Recorded(w)'
            BY <2>1, <2>2, <3>1, <3>5, <3>6 DEF Accounted
        <3> QED BY <3>3, <3>4, <3>7 DEF Accounted
    <2> QED BY <1>1, <2>2, <2>6, TurnsAlone
<1>10. CASE AskHelper(w, s)
    <2>1. PICK d : d \in {NoCall, [at |-> "model", helper |-> c.helper]} /\ CallGoes(w, s, d)
        BY <1>10 DEF AskHelper
    <2>2. c.at = "ask" /\ Turns(w, s, d) /\ text' = text /\ changes' = changes
        BY <1>10, <2>1 DEF AskHelper, Turns, outcome
    <2>3. d.at \in {"none", "model"}
        BY <2>1 DEF NoCall
    <2> QED BY <1>4, <2>2, <2>3
<1>11. CASE HelperAnswers(w, s)
    <2>1. c.at = "model" /\ Turns(w, s, NoCall) /\ text' = text /\ changes' = changes
        BY <1>11 DEF HelperAnswers, Turns, outcome, history
    <2>2. NoCall.at = "none"
        BY DEF NoCall
    <2> QED BY <1>4, <2>1, <2>2
<1> QED BY <1>5, <1>6, <1>7, <1>8, <1>9, <1>10, <1>11 DEF CallStep

(* An answer begins on a text that is accounted for, and one that has two  *)
(* editing calls is remembered.                                            *)
LEMMA AnswerKeeps ==
    ASSUME Shaped, LedgerInv, NEW w \in Agents, Answer(w)
    PROVE  LedgerInv'
<1>1. agent[w] = "running" /\ \A s \in Slots : call[w][s] = NoCall
    BY DEF Answer, Idle, Calls
<1>2. PICK first \in ToolCalls(w), second \in ToolCalls(w) \cup {NoCall} :
        /\ call' = [call EXCEPT ![w] = <<first, second>>]
        /\ together' = IF (IF second = NoCall THEN 1 ELSE 2) = 2
                          /\ {first.at, second.at} \cap {"ask"} = {}
                       THEN together \cup {w} ELSE together
    BY DEF Answer
<1>3. UNCHANGED <<agent, base, text, changes, versions, step>>
    BY DEF Answer, outcome
<1>4. /\ first.at \in {"check", "rewrite", "ask"}
      /\ second.at \in {"check", "rewrite", "ask"} \/ second = NoCall
    BY ToolCallsAre
<1>5. \A v \in Agents \ {w} : call'[v] = call[v] /\ (v \in together' <=> v \in together)
    BY <1>2 DEF Shaped
<1>6. call'[w][1] = first /\ call'[w][2] = second
    BY <1>2 DEF Shaped
<1>7. ASSUME w \notin together'
      PROVE  Accounted(w)'
    <2>1. w \notin together /\ ~((IF second = NoCall THEN 1 ELSE 2) = 2
                                 /\ {first.at, second.at} \cap {"ask"} = {})
        BY <1>2, <1>7
    <2>2. second = NoCall \/ first.at = "ask" \/ second.at = "ask"
        BY <2>1
    <2>3. \A s, t \in Slots : Editing(w, s)' /\ Editing(w, t)' => s = t
        BY <1>6, <2>2 DEF Slots, Editing, NoCall
    <2>4. \A s \in Slots : call'[w][s].at # "store" /\ ~Appending(w, s)'
        BY <1>4, <1>6 DEF Slots, Appending, NoCall
    <2>5. Exact(w)' => text'[w] = Recorded(w)'
        <3>1. Accounted(w) /\ \A s \in Slots : ~Appending(w, s)
            BY <1>1, <2>1 DEF LedgerInv, Appending, NoCall
        <3>2. (Exact(w)' => Exact(w)) /\ Recorded(w)' = Recorded(w)
            BY <1>3, <2>1 DEF Exact, Recorded
        <3> QED BY <1>3, <3>1, <3>2 DEF Accounted
    <2> QED BY <2>3, <2>4, <2>5 DEF Accounted
<1>8. AgentOK(w)'
    BY <1>1, <1>3, <1>7 DEF AgentOK, Quiet
<1>9. \A v \in Agents \ {w} : Same(v)
    BY <1>3, <1>5 DEF Same
<1> QED BY <1>1, <1>3, <1>8, <1>9, RunningAgent

(* An agent that ends leaves text and record.                              *)
LEMMA EndKeeps ==
    ASSUME Shaped, LedgerInv, NEW w \in Agents, AgentEnds(w)
    PROVE  LedgerInv'
<1>1. agent[w] = "running" /\ \A s \in Slots : call[w][s] = NoCall
    BY DEF AgentEnds, Idle, Calls
<1>2. /\ UNCHANGED <<base, text, changes, call, versions, step, together>>
      /\ agent' = [agent EXCEPT ![w] = "done"] \/ agent' = [agent EXCEPT ![w] = "failed"]
    BY DEF AgentEnds, outcome
<1>3. agent'[w] \in {"done", "failed"} /\ \A v \in Agents \ {w} : agent'[v] = agent[v]
    BY <1>2 DEF Shaped
<1>4. Quiet(w)'
    BY <1>1, <1>2, <1>3 DEF Quiet
<1>5. Accounted(w)' <=> Accounted(w)
    BY <1>2 DEF Accounted, Exact, Recorded, Editing, Appending
<1>6. AgentOK(w)'
    BY <1>1, <1>2, <1>4, <1>5 DEF AgentOK, LedgerInv
<1>7. \A v \in Agents \ {w} : Same(v)
    BY <1>2, <1>3 DEF Same
<1> QED BY <1>1, <1>2, <1>3, <1>6, <1>7, RunningAgent

(***************************************************************************)
(* The steps around the agents.                                            *)
(***************************************************************************)
(* An agent starts with an empty record.                                   *)
LEMMA StartsAs ==
    ASSUME Shaped, LedgerInv, NEW w \in Agents, NEW t, agent[w] = "queued", Starts(w, t),
           UNCHANGED <<changes, together>>
    PROVE  /\ AgentOK(w)' /\ agent'[w] = "running" /\ base'[w] = t
           /\ \A v \in Agents \ {w} : Same(v)
<1>1. /\ agent'[w] = "running" /\ base'[w] = t /\ text'[w] = t
      /\ \A v \in Agents \ {w} : Same(v)
    BY DEF Starts, Shaped, Same
<1>2. (\A s \in Slots : call'[w][s] = NoCall) /\ changes'[w] = <<>>
    BY DEF Starts, LedgerInv, Quiet
<1>3. Recorded(w)' = text'[w]
    BY <1>1, <1>2, ReplayNone DEF Recorded
<1>4. \A s \in Slots : ~Editing(w, s)' /\ ~Appending(w, s)' /\ call'[w][s].at # "store"
    BY <1>2 DEF Editing, Appending, NoCall
<1>5. Accounted(w)'
    BY <1>3, <1>4 DEF Accounted
<1> QED BY <1>1, <1>5 DEF AgentOK, Quiet

(* A page starts from its v0.                                              *)
LEMMA StartPageKeeps ==
    ASSUME Shaped, LedgerInv, NEW p \in Pages, StartPage(p)
    PROVE  LedgerInv'
<1> USE AgentsAre
<1>1. agent[p] = "queued" /\ Starts(p, Original[p]) /\ UNCHANGED <<changes, together, versions, step>>
    BY DEF StartPage, outcome, history
<1>2. PICK t : t = Original[p]
    OBVIOUS
<1>3. /\ AgentOK(p)' /\ agent'[p] = "running" /\ base'[p] = Original[p]
      /\ \A v \in Agents \ {p} : Same(v)
    BY <1>1, <1>2, StartsAs
<1>4. \A v \in Agents : AgentOK(v)'
    BY <1>3, SameAgent DEF LedgerInv, AgentOK
<1>5. FromV0'
    BY <1>3 DEF FromV0, LedgerInv, Same
<1>6. V1'
    BY <1>1, <1>3, PagesStay DEF LedgerInv
<1>7. Same(boundary) /\ Same(footnote)
    BY <1>3
<1>8. DocumentOK'
    <2>1. DocumentOK
        BY DEF LedgerInv
    <2> QED BY <1>1, <1>7, <2>1 DEF DocumentOK, From, Ended, Same
<1> QED BY <1>4, <1>5, <1>6, <1>8 DEF LedgerInv, AgentOK

(* Collecting the pages writes v1 as V1 has it.                            *)
LEMMA CollectPagesKeeps ==
    ASSUME Shaped, LedgerInv, CollectPages
    PROVE  LedgerInv'
<1>1. /\ PagesEnded /\ versions["v1"] = <<>> /\ UNCHANGED <<edits, together>>
      /\ versions' = [versions EXCEPT !["v1"] = <<Join([p \in Pages |-> Corrected(p)])>>]
      /\ step'["boundaries"] = step["boundaries"]
    BY DEF CollectPages, Shaped, history
<1>2. UNCHANGED <<agent, base, text, changes, call>>
    BY <1>1 DEF edits
<1>3. \A v \in Agents : AgentOK(v)'
    BY <1>1, <1>2, SameAgent DEF LedgerInv, AgentOK, Same
<1>4. FromV0'
    BY <1>2 DEF LedgerInv, FromV0
<1>5. V1'
    <2>1. \A p \in Pages : Corrected(p)' = Corrected(p)
        BY <1>2 DEF Corrected
    <2>2. versions'["v1"] = <<Join([p \in Pages |-> Corrected(p)])>>
        BY <1>1 DEF Shaped
    <2>3. [p \in Pages |-> Corrected(p)'] = [p \in Pages |-> Corrected(p)]
        BY <2>1
    <2>4. PagesEnded'
        BY <1>1, <1>2 DEF PagesEnded
    <2> QED BY <2>2, <2>3, <2>4 DEF V1
<1>6. DocumentOK'
    <2>1. DocumentOK /\ agent[boundary] = "queued" /\ agent[footnote] = "queued"
        BY <1>1, AgentsAre DEF LedgerInv, DocumentOK, Ended
    <2>2. versions["v2"] = <<>> /\ versions'["v2"] = <<>>
        BY <1>1, <2>1 DEF DocumentOK, Ended, Shaped
    <2> QED BY <1>1, <1>2, <2>1, <2>2 DEF DocumentOK
<1> QED BY <1>3, <1>4, <1>5, <1>6 DEF LedgerInv, AgentOK

\* an agent of the document that is skipped
Skips(w, t) ==
    /\ agent' = [agent EXCEPT ![w] = "skipped"]
    /\ text' = [text EXCEPT ![w] = t]
    /\ UNCHANGED <<base, call, asks>>

(* A skipped agent has no edits.                                           *)
LEMMA SkipsAs ==
    ASSUME Shaped, LedgerInv, NEW w \in Agents, NEW t, agent[w] = "queued", Skips(w, t),
           UNCHANGED <<changes, together>>
    PROVE  /\ AgentOK(w)' /\ agent'[w] = "skipped" /\ text'[w] = t
           /\ \A v \in Agents \ {w} : Same(v)
<1>1. /\ agent'[w] = "skipped" /\ text'[w] = t
      /\ \A v \in Agents \ {w} : Same(v)
    BY DEF Skips, Shaped, Same
<1>2. Quiet(w)'
    BY <1>1 DEF Skips, LedgerInv, Quiet
<1> QED BY <1>1, <1>2 DEF AgentOK

(* The boundary agent starts from v1 with its hyphens joined.              *)
LEMMA StartBoundaryKeeps ==
    ASSUME Shaped, LedgerInv, StartBoundary
    PROVE  LedgerInv'
<1> USE AgentsAre
<1>1. PICK t : t = HyphenJoin(versions["v1"][1])
    OBVIOUS
<1>2. PICK h : h = IF t # versions["v1"][1] THEN <<Joined>> ELSE <<>>
    OBVIOUS
<1>3. /\ versions["v1"] # <<>> /\ agent[boundary] = "queued"
      /\ Starts(boundary, t) \/ Skips(boundary, t)
      /\ step' = [step EXCEPT !["boundaries"] = h]
      /\ UNCHANGED <<changes, versions, together>>
    BY <1>1, <1>2 DEF StartBoundary, Skips, history
<1>4. /\ AgentOK(boundary)' /\ From(boundary, t)' /\ agent'[boundary] # "queued"
      /\ ~Ended(boundary)' \/ text'[boundary] = t
      /\ \A v \in Agents \ {boundary} : Same(v)
    BY <1>3, StartsAs, SkipsAs DEF From, Ended
<1>5. \A v \in Agents : AgentOK(v)'
    BY <1>4, SameAgent DEF LedgerInv, AgentOK
<1>6. FromV0'
    BY <1>4 DEF FromV0, LedgerInv, Same
<1>7. V1'
    BY <1>3, <1>4, PagesStay DEF LedgerInv
<1>8. DocumentOK'
    <2>1. DocumentOK /\ agent[footnote] = "queued"
        BY <1>3 DEF LedgerInv, DocumentOK, Ended
    <2>2. versions["v2"] = <<>> /\ agent'[footnote] = "queued"
        BY <1>4, <2>1 DEF DocumentOK, Ended, Same
    <2>3. step'["boundaries"] \in Headings
        BY <1>2, <1>3 DEF Headings, Shaped
    <2> QED BY <1>1, <1>3, <1>4, <2>2, <2>3 DEF DocumentOK
<1> QED BY <1>5, <1>6, <1>7, <1>8 DEF LedgerInv, AgentOK

(* The footnote agent starts from what the boundary agent left.            *)
LEMMA StartFootnotesKeeps ==
    ASSUME Shaped, LedgerInv, StartFootnotes
    PROVE  LedgerInv'
<1> USE AgentsAre
<1>1. PICK t : t = text[boundary]
    OBVIOUS
<1>2. /\ Ended(boundary) /\ agent[footnote] = "queued"
      /\ Starts(footnote, t) \/ Skips(footnote, t)
      /\ UNCHANGED <<changes, versions, step, together>>
    BY <1>1 DEF StartFootnotes, HandedOn, Skips, outcome, history
<1>3. /\ AgentOK(footnote)' /\ From(footnote, t)' /\ agent'[footnote] # "queued"
      /\ \A v \in Agents \ {footnote} : Same(v)
    BY <1>2, StartsAs, SkipsAs DEF From
<1>4. \A v \in Agents : AgentOK(v)'
    BY <1>3, SameAgent DEF LedgerInv, AgentOK
<1>5. FromV0'
    BY <1>3 DEF FromV0, LedgerInv, Same
<1>6. V1'
    BY <1>2, <1>3, PagesStay DEF LedgerInv
<1>7. DocumentOK'
    <2>1. DocumentOK /\ Same(boundary)
        BY <1>3 DEF LedgerInv
    <2>2. versions["v2"] = <<>> /\ step["boundaries"] \in Headings
        BY <1>2, <2>1 DEF DocumentOK, Ended
    <2>3. agent[boundary] # "queued" /\ Ended(boundary)'
        BY <1>2, <2>1 DEF Ended, Same
    <2>4. From(footnote, text[boundary])'
        BY <1>1, <1>3, <2>1 DEF From, Same
    <2>5. versions["v1"] # <<>> /\ From(boundary, HyphenJoin(versions["v1"][1]))'
        BY <1>2, <2>1, <2>3 DEF DocumentOK, From, Same
    <2> QED BY <1>2, <2>2, <2>3, <2>4, <2>5 DEF DocumentOK
<1> QED BY <1>4, <1>5, <1>6, <1>7 DEF LedgerInv, AgentOK

(* Collecting the document writes v2, and appends both records.            *)
LEMMA CollectDocumentKeeps ==
    ASSUME Shaped, LedgerInv, CollectDocument
    PROVE  LedgerInv'
<1>1. /\ Ended(footnote) /\ versions["v2"] = <<>> /\ UNCHANGED <<edits, together>>
      /\ versions' = [versions EXCEPT !["v2"] = <<text[footnote]>>]
      /\ step' = [step EXCEPT !["boundaries"] =
                    step["boundaries"] \o changes[boundary] \o changes[footnote]]
    BY DEF CollectDocument, history
<1>2. UNCHANGED <<agent, base, text, changes, call>>
    BY <1>1 DEF edits
<1>3. versions'["v1"] = versions["v1"] /\ versions'["v2"] = <<text[footnote]>>
    BY <1>1 DEF Shaped
<1>4. \A v \in Agents : AgentOK(v)'
    BY <1>1, <1>2, SameAgent DEF LedgerInv, AgentOK, Same
<1>5. FromV0'
    BY <1>2 DEF LedgerInv, FromV0
<1>6. V1'
    <2>1. [p \in Pages |-> Corrected(p)'] = [p \in Pages |-> Corrected(p)]
        BY <1>2 DEF Corrected
    <2>2. PagesEnded' <=> PagesEnded
        BY <1>2 DEF PagesEnded
    <2> QED BY <1>3, <2>1, <2>2 DEF V1, LedgerInv
<1>7. DocumentOK'
    <2>1. DocumentOK
        BY DEF LedgerInv
    <2>2. step["boundaries"] \in Headings
        BY <1>1, <2>1 DEF DocumentOK
    <2>3. \E h \in Headings : step'["boundaries"] = h \o changes[boundary] \o changes[footnote]
        <3>1. step'["boundaries"] = step["boundaries"] \o changes[boundary] \o changes[footnote]
            <4> PICK new : new = step["boundaries"] \o changes[boundary] \o changes[footnote]
                OBVIOUS
            <4>1. step' = [step EXCEPT !["boundaries"] = new]
                BY <1>1
            <4> QED BY <4>1 DEF Shaped
        <3>2. PICK h \in Headings : h = step["boundaries"]
            BY <2>2
        <3> QED BY <3>1, <3>2
    <2>4. /\ Ended(footnote)' /\ versions'["v2"] = <<text'[footnote]>> /\ versions'["v2"] # <<>>
          /\ \E h \in Headings :
                step'["boundaries"] = h \o changes'[boundary] \o changes'[footnote]
        <3>1. changes'[boundary] = changes[boundary] /\ changes'[footnote] = changes[footnote]
            BY <1>2
        <3>2. Ended(footnote)' /\ versions'["v2"] = <<text'[footnote]>> /\ versions'["v2"] # <<>>
            BY <1>1, <1>2, <1>3 DEF Ended
        <3> QED BY <2>3, <3>1, <3>2
    <2>5. /\ agent'[boundary] # "queued" =>
                versions'["v1"] # <<>> /\ From(boundary, HyphenJoin(versions["v1"][1]))'
          /\ agent'[footnote] # "queued" => Ended(boundary)' /\ From(footnote, text[boundary])'
        BY <1>2, <1>3, <2>1 DEF DocumentOK, From, Ended
    <2> QED BY <2>4, <2>5 DEF DocumentOK
<1> QED BY <1>4, <1>5, <1>6, <1>7 DEF LedgerInv, AgentOK

(* Storing and reading the ledger changes no text.                         *)
LEMMA IdleKeeps ==
    ASSUME Shaped, LedgerInv, StoreLedger \/ GetLedger \/ UNCHANGED vars
    PROVE  LedgerInv'
<1>1. UNCHANGED <<agent, base, text, changes, call, versions, step, together>>
    BY DEF StoreLedger, GetLedger, vars, edits, outcome, history
<1>2. \A v \in Agents : AgentOK(v)'
    BY <1>1, SameAgent DEF LedgerInv, AgentOK, Same
<1>3. FromV0'
    BY <1>1 DEF LedgerInv, FromV0
<1>4. V1'
    <2>1. [p \in Pages |-> Corrected(p)'] = [p \in Pages |-> Corrected(p)]
        BY <1>1 DEF Corrected
    <2>2. PagesEnded' <=> PagesEnded
        BY <1>1 DEF PagesEnded
    <2> QED BY <1>1, <2>1, <2>2 DEF V1, LedgerInv
<1>5. DocumentOK'
    BY <1>1 DEF LedgerInv, DocumentOK, From, Ended
<1> QED BY <1>2, <1>3, <1>4, <1>5 DEF LedgerInv, AgentOK

(* Every step keeps the invariant.                                         *)
LEMMA LedgerStep == Shaped /\ LedgerInv /\ [Next]_vars => LedgerInv'
<1> SUFFICES ASSUME Shaped, LedgerInv, [Next]_vars
             PROVE  LedgerInv'
    OBVIOUS
<1>1. ASSUME NEW w \in Agents, AgentNext(w)
      PROVE  LedgerInv'
    BY <1>1, AnswerKeeps, CallKeeps, EndKeeps DEF AgentNext
<1>2. CASE StepNext
    BY <1>2, CollectPagesKeeps, StartBoundaryKeeps, StartFootnotesKeeps,
       CollectDocumentKeeps, IdleKeeps DEF StepNext
<1> QED BY <1>1, <1>2, StartPageKeeps, IdleKeeps DEF Next

(***************************************************************************)
(* The theorems.                                                           *)
(***************************************************************************)
(* Whatever the interleaving of the agents' calls, the record of an agent  *)
(* that edited one call at a time accounts for its text, the versions are  *)
(* the ones the steps collected, and each agent of the document started    *)
(* from what the one before it left.                                       *)
THEOREM LedgerAccounts == Spec => [](Shaped /\ LedgerInv)
<1>1. Init => Shaped /\ LedgerInv
    BY ShapedInit, LedgerInit
<1>2. Shaped /\ LedgerInv /\ [Next]_vars => (Shaped /\ LedgerInv)'
    BY ShapedStep, LedgerStep
<1> QED BY <1>1, <1>2, PTL DEF Spec

(* What the invariant says of an agent that has ended.                     *)
LEMMA EndedIsRecorded ==
    ASSUME LedgerInv, NEW w \in Agents, agent[w] \in {"done", "failed"}, Exact(w)
    PROVE  text[w] = Recorded(w)
<1>1. \A s \in Slots : ~Appending(w, s)
    BY DEF LedgerInv, Quiet, Appending, NoCall
<1>2. Accounted(w)
    BY DEF LedgerInv, Exact
<1> QED BY <1>1, <1>2 DEF Accounted

(* The recorded edits of each page, replayed over its v0, give its v1, for *)
(* any number of pages, agents at once and calls.                          *)
THEOREM PagesAlwaysReplay == Spec => []PagesReplay
<1>1. ASSUME Shaped, LedgerInv
      PROVE  PagesReplay
    <2> SUFFICES ASSUME versions["v1"] # <<>>, \A p \in Pages : Exact(p)
                 PROVE  versions["v1"][1] = Join([p \in Pages |-> Replay(Original[p], Kept(p))])
        BY DEF PagesReplay
    <2>1. PagesEnded /\ versions["v1"] = <<Join([p \in Pages |-> Corrected(p)])>>
        BY <1>1 DEF LedgerInv, V1
    <2>2. ASSUME NEW p \in Pages
          PROVE  Corrected(p) = Replay(Original[p], Kept(p))
        <3>1. CASE agent[p] = "done"
            <4>1. text[p] = Recorded(p) /\ base[p] = Original[p]
                BY <1>1, <3>1, AgentsAre, EndedIsRecorded DEF LedgerInv, FromV0
            <4> QED BY <3>1, <4>1 DEF Corrected, Kept, Recorded
        <3>2. CASE agent[p] # "done"
            BY <3>2, ReplayNone DEF Corrected, Kept
        <3> QED BY <3>1, <3>2
    <2>3. [p \in Pages |-> Corrected(p)] = [p \in Pages |-> Replay(Original[p], Kept(p))]
        BY <2>2
    <2> QED BY <2>1, <2>3
<1> QED BY <1>1, LedgerAccounts, PTL

(* The hyphens of v1 joined, and the recorded edits of the boundary agent  *)
(* and then of the footnote agent replayed, give v2.                       *)
THEOREM DocumentAlwaysReplays == Spec => []DocumentReplays
<1>1. ASSUME Shaped, LedgerInv
      PROVE  DocumentReplays
    <2> SUFFICES ASSUME versions["v2"] # <<>>, \A w \in Documents : Exact(w)
                 PROVE  versions["v2"][1]
                            = Replay(HyphenJoin(versions["v1"][1]), step["boundaries"])
        BY DEF DocumentReplays
    <2> DEFINE joined == HyphenJoin(versions["v1"][1])
    <2>1. /\ Ended(footnote) /\ Ended(boundary) /\ versions["v2"] = <<text[footnote]>>
          /\ From(footnote, text[boundary]) /\ From(boundary, joined)
        BY <1>1 DEF LedgerInv, DocumentOK, Ended
    <2>2. PICK h \in Headings : step["boundaries"] = h \o changes[boundary] \o changes[footnote]
        BY <1>1 DEF LedgerInv, DocumentOK
    <2> HIDE DEF joined
    <2>3. ASSUME NEW w \in Documents, NEW t, Ended(w), From(w, t)
          PROVE  text[w] = Replay(t, changes[w])
        <3>1. w \in Agents /\ Exact(w)
            BY DEF Agents
        <3>2. CASE agent[w] = "skipped"
            <4>1. changes[w] = <<>> /\ text[w] = t
                BY <1>1, <2>3, <3>1, <3>2 DEF LedgerInv, Quiet, From
            <4> QED BY <4>1, ReplayNone
        <3>3. CASE agent[w] \in {"done", "failed"}
            <4>1. text[w] = Recorded(w) /\ base[w] = t
                BY <1>1, <2>3, <3>1, <3>3, EndedIsRecorded DEF From
            <4> QED BY <4>1 DEF Recorded
        <3> QED BY <2>3, <3>2, <3>3 DEF Ended
    <2>4. text[boundary] = Replay(joined, changes[boundary])
        BY <2>1, <2>3 DEF Documents
    <2>5. PICK t : t = text[boundary]
        OBVIOUS
    <2>6. text[footnote] = Replay(t, changes[footnote])
        BY <2>1, <2>3, <2>5 DEF Documents
    <2>7. Replay(joined, h) = joined
        <3>1. Replay(joined, <<Joined>>) = Redo(joined, Joined)
            BY ReplayOne
        <3>2. Redo(joined, Joined) = joined
            BY DEF Redo, Joined
        <3> QED BY <3>1, <3>2, ReplayNone DEF Headings
    <2>8. PICK first, second : first = changes[boundary] /\ second = changes[footnote]
        OBVIOUS
    <2>9. h \in Seq(Entries) /\ first \in Seq(Entries) /\ second \in Seq(Entries)
        <3>1. <<>> \in Seq(Entries) /\ <<Joined>> \in Seq(Entries)
            BY DEF Entries
        <3>2. h \in Seq(Entries)
            BY <3>1 DEF Headings
        <3> QED BY <1>1, <2>8, <3>2, AgentsAre DEF Shaped
    <2>10. Replay(joined, h \o first) = t
        <3>1. Replay(joined, h \o first) = Replay(Replay(joined, h), first)
            BY <2>9, ReplayTwo
        <3> QED BY <2>4, <2>5, <2>7, <2>8, <3>1
    <2>11. Replay(joined, (h \o first) \o second) = text[footnote]
        <3>1. PICK both : both = h \o first
            OBVIOUS
        <3>2. both \in Seq(Entries)
            BY <2>9, <3>1
        <3>3. Replay(joined, both \o second) = Replay(Replay(joined, both), second)
            BY <2>9, <3>2, ReplayTwo
        <3> QED BY <2>6, <2>8, <2>10, <3>1, <3>3
    <2> QED BY <2>1, <2>2, <2>8, <2>11 DEF joined
<1> QED BY <1>1, LedgerAccounts, PTL
=============================================================================
