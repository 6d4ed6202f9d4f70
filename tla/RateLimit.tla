------------------------------ MODULE RateLimit ------------------------------
(***************************************************************************)
(* The sliding window that limits submissions: RateLimitMiddleware and     *)
(* RateLimitService over one sorted set per client address and one for     *)
(* all. A check reads the clock, has Redis purge and count, and only then  *)
(* adds its entry and renews the expiry of the key, in calls between which *)
(* other requests run and the expiry set before may run out. The limit on  *)
(* paths with "/status" applies to no route and is left out.               *)
(***************************************************************************)
EXTENDS Integers, FiniteSets

CONSTANTS
    Requests,
    Ips,                \* client addresses
    IpLimit, IpWindow,          \* SUBMIT_PER_IP_LIMIT, SUBMIT_PER_IP_WINDOW in ticks
    GlobalLimit, GlobalWindow,  \* GLOBAL_SUBMIT_LIMIT, GLOBAL_SUBMIT_WINDOW in ticks
    TicksPerSecond,
    MaxLatency,         \* bound on the ticks that the calls of a check take
    MaxTime,            \* bound on the clock
    MaxFaults           \* bound on Redis calls that fail

ASSUME LimitAssumption ==
    /\ "global" \notin Ips
    /\ IpLimit \in Nat \ {0} /\ GlobalLimit \in Nat \ {0}
    /\ IpWindow \in Nat \ {0} /\ GlobalWindow \in Nat \ {0}
    /\ TicksPerSecond \in Nat \ {0} /\ MaxLatency \in Nat
    /\ MaxTime \in Nat /\ MaxFaults \in Nat

VARIABLES
    now,
    zset,       \* [Keys -> set of entries], an entry being who, when, and late
    expires,    \* [Keys -> when Redis removes the key]
    request,    \* where each request is, and what it read
    faults

vars == <<now, zset, expires, request, faults>>

Keys == Ips \cup {"global"}
Limit(k) == IF k = "global" THEN GlobalLimit ELSE IpLimit
Window(k) == IF k = "global" THEN GlobalWindow ELSE IpWindow

\* the key a request is being checked against
Key(r) == IF request[r].check = "global" THEN "global" ELSE request[r].ip

\* a key that has no expiry: later than the clock can be
Never == MaxTime + 1

\* lucky: met an error; lapsed: lost its entry to the expiry it was about to renew
NoRequest == [at |-> "new", ip |-> "none", check |-> "ip", stamp |-> 0, counted |-> {},
              retry |-> 0, lucky |-> FALSE, lapsed |-> FALSE]

\* the first clock reading of a check; the middleware starts with the address
Arrive(r, ip) ==
    /\ request[r].at = "new"
    /\ request' = [request EXCEPT ![r] =
            [NoRequest EXCEPT !.at = "count", !.ip = ip, !.stamp = now]]
    /\ UNCHANGED <<now, zset, expires, faults>>

WindowStart(k, stamp) == stamp - Window(k)

\* zremrangebyscore removes the start of the window too
Purged(k, stamp) == {e \in zset[k] : e.at > WindowStart(k, stamp)}

\* a set that is left empty is gone, and its expiry with it
Purge(k, stamp) ==
    /\ zset' = [zset EXCEPT ![k] = Purged(k, stamp)]
    /\ expires' = [expires EXCEPT ![k] = IF Purged(k, stamp) = {} THEN Never ELSE @]

Oldest(entries) == CHOOSE e \in entries : \A f \in entries : e.at <= f.at

\* whole seconds, at least one
MutantRetryAfter(k, stamp, entries) ==    \* the time that has passed, not the rest
    LET seconds == (stamp - Oldest(entries).at) \div TicksPerSecond
    IN  IF seconds < 1 THEN 1 ELSE seconds

RetryAfter(k, stamp, entries) ==
    LET seconds == (Oldest(entries).at + Window(k) - stamp) \div TicksPerSecond
    IN  IF seconds < 1 THEN 1 ELSE seconds

MutantUnder(k, entries) == Cardinality(entries) <= Limit(k)
Under(k, entries) == Cardinality(entries) < Limit(k)

MutantCountEntries(r) ==                  \* the entry is added before the count decides
    LET k == Key(r)
        left == Purged(k, request[r].stamp) \cup
                {[by |-> r, at |-> request[r].stamp, late |-> FALSE]} IN
    /\ request[r].at = "count"
    /\ zset' = [zset EXCEPT ![k] = left]
    /\ request' = [request EXCEPT
            ![r].counted = left,
            ![r].at = IF Cardinality(left) <= Limit(k) THEN "add" ELSE "oldest"]
    /\ UNCHANGED <<now, expires, faults>>

\* one pipeline: purge and count
CountEntries(r) ==
    LET k == Key(r)
        left == Purged(k, request[r].stamp) IN
    /\ request[r].at = "count"
    /\ Purge(k, request[r].stamp)
    /\ request' = [request EXCEPT
            ![r].counted = left,
            ![r].at = IF Under(k, left) THEN "add" ELSE "oldest"]
    /\ UNCHANGED <<now, faults>>

\* the oldest entry is read in a call of its own
Refuse(r) ==
    LET k == Key(r) IN
    /\ request[r].at = "oldest"
    /\ request' = [request EXCEPT
            ![r].at = "refused", ![r].counted = zset[k],
            ![r].retry = IF zset[k] = {} THEN Window(k) \div TicksPerSecond
                         ELSE RetryAfter(k, request[r].stamp, zset[k])]
    /\ UNCHANGED <<now, zset, expires, faults>>

\* allowed by this check: on to the global one, or to the quota headers
Allow(r) ==
    IF request[r].check = "ip"
    THEN [request[r] EXCEPT !.at = "count", !.check = "global", !.stamp = now, !.counted = {},
                            !.lapsed = FALSE]
    ELSE [request[r] EXCEPT !.at = "quota", !.counted = {}]

\* late: another entry came between the count and this one
Entry(r) == [by |-> r, at |-> request[r].stamp, late |-> ~(zset[Key(r)] \subseteq request[r].counted)]

AddEntry(r) ==
    /\ request[r].at = "add"
    /\ zset' = [zset EXCEPT ![Key(r)] = @ \cup {Entry(r)}]
    /\ request' = [request EXCEPT ![r].at = "expire", ![r].counted = {}]
    /\ UNCHANGED <<now, expires, faults>>

MutantRenewed(k) ==                       \* only a key without an expiry gets one
    [expires EXCEPT ![k] = IF zset[k] = {} \/ @ # Never THEN @ ELSE now + Window(k)]

\* EXPIRE does nothing to a key that has gone
Renewed(k) == [expires EXCEPT ![k] = IF zset[k] = {} THEN @ ELSE now + Window(k)]

\* the expiry of the key is renewed in a call after the one that adds the entry
SetExpiry(r) ==
    /\ request[r].at = "expire"
    /\ expires' = Renewed(Key(r))
    /\ request' = [request EXCEPT ![r] = Allow(r)]
    /\ UNCHANGED <<now, zset, faults>>

\* any error of Redis lets the check pass, whether or not the call was carried out
FailOpen(r) ==
    /\ request[r].at \in {"count", "add", "expire", "oldest"}
    /\ faults < MaxFaults /\ faults' = faults + 1
    /\ request' = [request EXCEPT ![r] = [Allow(r) EXCEPT !.lucky = TRUE]]
    /\ \/ /\ request[r].at = "add" /\ UNCHANGED expires
          /\ zset' = [zset EXCEPT ![Key(r)] = @ \cup {Entry(r)}]
       \/ request[r].at = "expire" /\ expires' = Renewed(Key(r)) /\ UNCHANGED zset
       \/ request[r].at = "count" /\ Purge(Key(r), request[r].stamp)
       \/ UNCHANGED <<zset, expires>>
    /\ UNCHANGED now

\* the quota headers purge the key of the address once more
ReadQuota(r) ==
    /\ request[r].at = "quota"
    /\ Purge(request[r].ip, now)
    /\ request' = [request EXCEPT ![r].at = "admitted", ![r].ip = "none"]
    /\ UNCHANGED <<now, faults>>

InFlight(r) == request[r].at \in {"count", "add", "expire", "oldest", "quota"}

\* Redis removes a key whose time has come, with whatever was added to it since
Lapses(k) == expires[k] <= now + 1

Tick ==
    /\ \A r \in Requests : InFlight(r) => now - request[r].stamp < MaxLatency
    /\ now < MaxTime /\ now' = now + 1
    /\ zset' = [k \in Keys |-> IF Lapses(k) THEN {} ELSE zset[k]]
    /\ expires' = [k \in Keys |-> IF Lapses(k) THEN Never ELSE expires[k]]
    /\ request' = [r \in Requests |->
            IF request[r].at = "expire" /\ Lapses(Key(r))
            THEN [request[r] EXCEPT !.lapsed = TRUE] ELSE request[r]]
    /\ UNCHANGED faults

Init ==
    /\ now = 0 /\ zset = [k \in Keys |-> {}] /\ expires = [k \in Keys |-> Never]
    /\ request = [r \in Requests |-> NoRequest] /\ faults = 0

Check(r) ==
    \/ \E ip \in Ips : Arrive(r, ip)
    \/ CountEntries(r) \/ Refuse(r) \/ AddEntry(r) \/ SetExpiry(r) \/ FailOpen(r) \/ ReadQuota(r)

Next == (\E r \in Requests : Check(r)) \/ Tick

Spec == Init /\ [][Next]_vars

-----------------------------------------------------------------------------
Entries == [by : Requests, at : 0..MaxTime, late : BOOLEAN]

RequestStates ==
    [at : {"new", "count", "add", "expire", "oldest", "quota", "admitted", "refused"},
     ip : Ips \cup {"none"}, check : {"ip", "global"}, stamp : 0..MaxTime,
     counted : SUBSET Entries, retry : Nat, lucky : BOOLEAN, lapsed : BOOLEAN]

TypeOK ==
    /\ now \in 0..MaxTime /\ faults \in 0..MaxFaults
    /\ zset \in [Keys -> SUBSET Entries] /\ expires \in [Keys -> Nat]
    /\ request \in [Requests -> RequestStates]
    /\ \A r \in Requests : request[r].at \notin {"new", "admitted"} => request[r].ip \in Ips

(* A window holds more entries than its limit only by entries that were    *)
(* added on an outdated count, one for each.                               *)
OvershootIsLate == \A k \in Keys : Cardinality({e \in zset[k] : ~e.late}) <= Limit(k)

Admitted(r) == request[r].at \in {"quota", "admitted"} /\ ~request[r].lucky
InWindow(r) == now - request[r].stamp < GlobalWindow
Counted(r) == \E e \in zset["global"] : e.by = r

(* An admitted request that met no error stays counted among all           *)
(* submissions until its time has left the window, whoever purges and      *)
(* whatever expires, unless the key ran out between its own ZADD and the   *)
(* EXPIRE that was to renew it.                                            *)
AdmittedIsCounted == \A r \in Requests :
    Admitted(r) /\ InWindow(r) /\ ~request[r].lapsed => Counted(r)

(* A refusal costs nothing, except that a request the global limit refuses *)
(* has already spent an entry of its address.                              *)
RefusalIsFree == \A k \in Keys : \A e \in zset[k] :
    request[e.by].at = "refused" => k # "global" /\ request[e.by].check = "global"

(* Once Retry-After has passed, to within the second it is rounded down    *)
(* by, one of the entries that refused the request has left the window,    *)
(* and a slot is free unless late entries had overrun the limit.           *)
Waited(r) == now >= request[r].stamp + (request[r].retry + 1) * TicksPerSecond - 1
RetryFreesASlot == \A r \in Requests :
    LET still == {e \in request[r].counted : now - e.at < Window(Key(r))} IN
    request[r].at = "refused" /\ Waited(r) /\ (\A e \in request[r].counted : ~e.late)
        => Cardinality(still) < Limit(Key(r))
=============================================================================
