--------------------------- MODULE RateLimit_proofs ---------------------------
(***************************************************************************)
(* Theorems about RateLimit for every set of requests and addresses, every *)
(* limit and window, and every delay between the calls of a check.         *)
(***************************************************************************)
EXTENDS RateLimit, FiniteSetTheorems, WellFoundedInduction, TLAPS

-----------------------------------------------------------------------------
(* Type correctness.                                                       *)

(* A request under way is checked in the set of its address or of all.     *)
LEMMA KeyTyped ==
    ASSUME TypeOK, NEW r \in Requests, request[r].at \notin {"new", "admitted"}
    PROVE  Key(r) \in Keys
BY DEF TypeOK, RequestStates, Key, Keys

(* Each window has a limit and a length.                                   *)
LEMMA LimitTyped ==
    ASSUME NEW k \in Keys
    PROVE  Limit(k) \in Nat \ {0} /\ Window(k) \in Nat \ {0}
BY LimitAssumption DEF Limit, Window, Keys

(* A purge only takes entries away.                                        *)
LEMMA PurgedTyped ==
    ASSUME TypeOK, NEW k \in Keys, NEW stamp
    PROVE  Purged(k, stamp) \subseteq zset[k] /\ Purged(k, stamp) \subseteq Entries
BY DEF TypeOK, Purged

(* The entry that a request adds, and when it is late.                     *)
LEMMA EntryTyped ==
    ASSUME TypeOK, NEW r \in Requests
    PROVE  /\ Entry(r) \in Entries
           /\ Entry(r).by = r /\ Entry(r).at = request[r].stamp
           /\ Entry(r).late = ~(zset[Key(r)] \subseteq request[r].counted)
BY DEF TypeOK, RequestStates, Entry, Entries

(* What a check that passes makes of the request.                          *)
LEMMA AllowTyped ==
    ASSUME TypeOK, NEW r \in Requests, request[r].at \notin {"new", "admitted"}
    PROVE  /\ Allow(r) \in RequestStates /\ Allow(r).ip = request[r].ip
           /\ [Allow(r) EXCEPT !.lucky = TRUE] \in RequestStates
           /\ Allow(r).ip \in Ips /\ [Allow(r) EXCEPT !.lucky = TRUE].ip \in Ips
BY ZenonT(30) DEF TypeOK, RequestStates, Allow

(* A set of entries that is not empty has an oldest one.                   *)
LEMMA OldestTyped ==
    ASSUME NEW entries \in SUBSET Entries, entries # {}
    PROVE  Oldest(entries) \in entries
<1> DEFINE times == {e.at : e \in entries}
           less == OpToRel(<, Nat)
<1>1. times \subseteq Nat /\ times # {}
    BY LimitAssumption DEF Entries
<1>2. PICK t \in times : \A u \in times : ~(<<u, t>> \in less)
    <2> HIDE DEF times, less
    <2>1. IsWellFoundedOn(less, Nat)
        BY NatLessThanWellFounded DEF less
    <2> QED BY <1>1, <2>1, WFMin
<1>3. \A u \in times : t <= u
    <2> SUFFICES ASSUME NEW u \in times
                 PROVE  t <= u
        OBVIOUS
    <2>1. ~(u < t)
        BY <1>1, <1>2 DEF OpToRel
    <2>2. t \in Nat /\ u \in Nat
        <3> HIDE DEF times
        <3> QED BY <1>1
    <2> QED BY <2>1, <2>2
<1>4. \E e \in entries : \A f \in entries : e.at <= f.at
    BY <1>3
<1> QED BY <1>4 DEF Oldest

(* After the address comes the global limit, and then the quota.           *)
LEMMA AllowPasses ==
    ASSUME TypeOK, NEW r \in Requests, NEW allowed,
           allowed \in {Allow(r), [Allow(r) EXCEPT !.lucky = TRUE]}
    PROVE  /\ request[r].check = "ip" => allowed.check = "global" /\ allowed.stamp = now
           /\ request[r].check = "global" => /\ allowed.at = "quota"
                                            /\ allowed.check = "global"
                                            /\ allowed.stamp = request[r].stamp
           /\ request[r].check \in {"ip", "global"} /\ allowed.at \in {"count", "quota"}
BY DEF Allow, TypeOK, RequestStates

(* Retry-After is a whole number of seconds.                               *)
LEMMA RetryTyped ==
    ASSUME TypeOK, NEW k \in Keys, NEW r \in Requests
    PROVE  (IF zset[k] = {} THEN Window(k) \div TicksPerSecond
            ELSE RetryAfter(k, request[r].stamp, zset[k])) \in Nat
<1>1. Window(k) \div TicksPerSecond \in Nat
    BY LimitTyped, LimitAssumption
<1>2. RetryAfter(k, request[r].stamp, zset[k]) \in Nat \/ zset[k] = {}
    <2> SUFFICES ASSUME zset[k] # {}
                 PROVE  RetryAfter(k, request[r].stamp, zset[k]) \in Nat
        OBVIOUS
    <2> DEFINE seconds == (Oldest(zset[k]).at + Window(k) - request[r].stamp) \div TicksPerSecond
    <2>1. Oldest(zset[k]).at \in Nat
        BY OldestTyped, LimitAssumption DEF TypeOK, Entries
    <2>2. request[r].stamp \in Nat /\ Window(k) \in Nat
        BY LimitTyped, LimitAssumption DEF TypeOK, RequestStates
    <2>3. seconds \in Int
        BY <2>1, <2>2, LimitAssumption
    <2> HIDE DEF seconds
    <2> QED BY <2>3 DEF RetryAfter, seconds
<1> QED BY <1>1, <1>2

(* An expiry lies ahead, or there is none.                                 *)
LEMMA RenewedTyped ==
    ASSUME TypeOK, NEW k \in Keys
    PROVE  Renewed(k) \in [Keys -> Nat]
BY LimitTyped, LimitAssumption DEF TypeOK, Renewed

(* A purge touches the window of its key and the expiry that goes with it. *)
LEMMA PurgeTyped ==
    ASSUME TypeOK, NEW k \in Keys, NEW stamp, Purge(k, stamp)
    PROVE  expires' \in [Keys -> Nat]
BY LimitAssumption DEF TypeOK, Purge, Never

(* A step changes a request by a call of its own, or by a lapse.           *)
LEMMA RequestStep ==
    ASSUME TypeOK, [Next]_vars, NEW r \in Requests
    PROVE  \/ request'[r] = request[r]
           \/ /\ request[r].at = "expire" /\ Tick
              /\ request'[r] = [request[r] EXCEPT !.lapsed = TRUE]
           \/ Check(r)
<1>1. ASSUME NEW q \in Requests, Check(q), q # r
      PROVE  request'[r] = request[r]
    BY <1>1 DEF TypeOK, Check, Arrive, CountEntries, Refuse, AddEntry, SetExpiry, FailOpen, ReadQuota
<1>2. CASE Tick
    BY <1>2 DEF Tick
<1> QED BY <1>1, <1>2 DEF Next, vars

(* What a step does to the entries of a key: some leave, or the entry of a *)
(* request that was about to add it joins them.                            *)
Joins(r, k) ==
    /\ request[r].at = "add" /\ k = Key(r)
    /\ zset'[k] = zset[k] \cup {Entry(r)}
    /\ request'[r] \in {[request[r] EXCEPT !.at = "expire", !.counted = {}],
                        [Allow(r) EXCEPT !.lucky = TRUE]}

(* A window only gains the entry of the request that joins it.             *)
LEMMA ZsetStep ==
    ASSUME TypeOK, [Next]_vars, NEW k \in Keys
    PROVE  \/ zset'[k] \subseteq zset[k]
           \/ \E r \in Requests : Joins(r, k)
<1> SUFFICES ASSUME ~(zset'[k] \subseteq zset[k])
             PROVE  \E r \in Requests : Joins(r, k)
    OBVIOUS
<1>1. ASSUME NEW r \in Requests, Check(r)
      PROVE  Joins(r, k)
    <2>1. zset' # zset
        OBVIOUS
    <2>2. CASE CountEntries(r)
        BY <2>2, PurgedTyped DEF CountEntries, Purge, TypeOK
    <2>3. CASE AddEntry(r)
        BY <2>3 DEF AddEntry, TypeOK, Joins
    <2>4. CASE FailOpen(r)
        <3>1. zset' = [zset EXCEPT ![Key(r)] = @ \cup {Entry(r)}] /\ request[r].at = "add"
            <4>1. ~Purge(Key(r), request[r].stamp)
                BY PurgedTyped DEF TypeOK, Purge
            <4> QED BY <2>1, <2>4, <4>1 DEF FailOpen
        <3> QED BY <2>4, <3>1 DEF FailOpen, TypeOK, Joins
    <2>5. CASE ReadQuota(r)
        BY <2>5, PurgedTyped DEF ReadQuota, Purge, TypeOK
    <2> QED BY <1>1, <2>1, <2>2, <2>3, <2>4, <2>5 DEF Check, Arrive, Refuse, SetExpiry
<1>2. ~Tick /\ ~UNCHANGED vars
    BY DEF Tick, vars
<1> QED BY <1>1, <1>2 DEF Next

(* So the windows stay typed.                                              *)
LEMMA ZsetTyped ==
    ASSUME TypeOK, [Next]_vars
    PROVE  zset' \in [Keys -> SUBSET Entries]
<1>1. zset' = [k \in Keys |-> zset'[k]]
    BY DEF TypeOK, Next, Check, Arrive, CountEntries, Refuse, AddEntry, SetExpiry, FailOpen,
           ReadQuota, Purge, Tick, vars
<1>2. ASSUME NEW k \in Keys
      PROVE  zset'[k] \subseteq Entries
    <2>1. zset[k] \subseteq Entries
        BY DEF TypeOK
    <2>2. ASSUME NEW r \in Requests, Joins(r, k)
          PROVE  zset'[k] \subseteq Entries
        BY <2>1, <2>2, EntryTyped DEF Joins
    <2> QED BY <2>1, <2>2, ZsetStep
<1> QED BY <1>1, <1>2

(* Every step keeps the types.                                             *)
LEMMA TypeStep == TypeOK /\ [Next]_vars => TypeOK'
<1> SUFFICES ASSUME TypeOK, [Next]_vars
             PROVE  TypeOK'
    OBVIOUS
<1>1. zset' \in [Keys -> SUBSET Entries]
    BY ZsetTyped
<1>2. now \in Nat /\ faults \in Nat /\ 0 \in 0..MaxTime
    BY LimitAssumption DEF TypeOK
<1> DEFINE Changes(r, new) == /\ request' = [request EXCEPT ![r] = new]
                              /\ new \in RequestStates
                              /\ new.at \notin {"new", "admitted"} => new.ip \in Ips
<1>3. ASSUME NEW r \in Requests, NEW new, Changes(r, new), now' = now, faults' \in 0..MaxFaults,
             expires' \in [Keys -> Nat]
      PROVE  TypeOK'
    BY <1>1, <1>3 DEF TypeOK
<1> HIDE DEF Changes
<1>4. ASSUME NEW r \in Requests, NEW ip \in Ips, Arrive(r, ip)
      PROVE  TypeOK'
    <2> DEFINE new == [NoRequest EXCEPT !.at = "count", !.ip = ip, !.stamp = now]
    <2>1. Changes(r, new)
        BY <1>4 DEF Arrive, NoRequest, TypeOK, RequestStates, Changes
    <2> QED BY <1>3, <1>4, <2>1 DEF Arrive, TypeOK
<1>5. ASSUME NEW r \in Requests, CountEntries(r)
      PROVE  TypeOK'
    <2> DEFINE left == Purged(Key(r), request[r].stamp)
               new == [request[r] EXCEPT !.counted = left,
                                         !.at = IF Under(Key(r), left) THEN "add" ELSE "oldest"]
    <2>1. left \subseteq Entries
        BY <1>5, KeyTyped, PurgedTyped DEF CountEntries
    <2>2. new \in RequestStates /\ new.ip = request[r].ip
        BY <2>1 DEF TypeOK, RequestStates
    <2>3. Changes(r, new)
        BY <1>5, <2>2 DEF CountEntries, TypeOK, Changes
    <2>4. expires' \in [Keys -> Nat]
        BY <1>5, KeyTyped, PurgeTyped DEF CountEntries
    <2> QED BY <1>3, <1>5, <2>3, <2>4 DEF CountEntries, TypeOK
<1>6. ASSUME NEW r \in Requests, Refuse(r)
      PROVE  TypeOK'
    <2> DEFINE k == Key(r)
               retry == IF zset[k] = {} THEN Window(k) \div TicksPerSecond
                        ELSE RetryAfter(k, request[r].stamp, zset[k])
               new == [request[r] EXCEPT !.at = "refused", !.counted = zset[k], !.retry = retry]
    <2>1. retry \in Nat /\ zset[k] \subseteq Entries
        BY <1>6, KeyTyped, RetryTyped DEF Refuse, TypeOK
    <2> HIDE DEF retry
    <2>2. new \in RequestStates /\ new.ip = request[r].ip
        BY <2>1 DEF TypeOK, RequestStates
    <2>3. Changes(r, new)
        BY <1>6, <2>2 DEF Refuse, TypeOK, Changes, retry
    <2> QED BY <1>3, <1>6, <2>3 DEF Refuse, TypeOK
<1>7. ASSUME NEW r \in Requests, AddEntry(r)
      PROVE  TypeOK'
    <2> DEFINE new == [request[r] EXCEPT !.at = "expire", !.counted = {}]
    <2>1. Changes(r, new)
        BY ZenonT(30), <1>7 DEF AddEntry, TypeOK, RequestStates, Changes
    <2> QED BY <1>3, <1>7, <2>1 DEF AddEntry, TypeOK
<1>8. ASSUME NEW r \in Requests, FailOpen(r)
      PROVE  TypeOK'
    <2>1. Changes(r, [Allow(r) EXCEPT !.lucky = TRUE])
        BY <1>8, AllowTyped DEF FailOpen, Changes
    <2>2. faults' \in 0..MaxFaults
        BY <1>2, <1>8, LimitAssumption DEF FailOpen
    <2>3. expires' \in [Keys -> Nat]
        BY <1>8, KeyTyped, PurgeTyped, RenewedTyped DEF FailOpen, TypeOK
    <2> QED BY <1>3, <1>8, <2>1, <2>2, <2>3 DEF FailOpen
<1>9. ASSUME NEW r \in Requests, ReadQuota(r)
      PROVE  TypeOK'
    <2> DEFINE new == [request[r] EXCEPT !.at = "admitted", !.ip = "none"]
    <2>1. Changes(r, new)
        BY ZenonT(30), <1>9 DEF ReadQuota, TypeOK, RequestStates, Changes
    <2>2. request[r].ip \in Keys
        BY <1>9 DEF ReadQuota, TypeOK, Keys
    <2>3. expires' \in [Keys -> Nat]
        BY <1>9, <2>2, PurgeTyped DEF ReadQuota
    <2> QED BY <1>3, <1>9, <2>1, <2>3 DEF ReadQuota, TypeOK
<1>10. CASE Tick
    <2>1. now' \in 0..MaxTime /\ faults' \in 0..MaxFaults /\ expires' \in [Keys -> Nat]
        BY <1>2, <1>10, LimitAssumption DEF Tick, Never, TypeOK
    <2>2. ASSUME NEW r \in Requests
          PROVE  /\ request'[r] \in RequestStates
                 /\ request'[r].at = request[r].at /\ request'[r].ip = request[r].ip
        BY ZenonT(30), <1>10 DEF Tick, TypeOK, RequestStates
    <2>3. request' \in [Requests -> RequestStates]
        BY <1>10, <2>2 DEF Tick
    <2> QED BY <1>1, <2>1, <2>2, <2>3 DEF TypeOK
<1>11. CASE UNCHANGED vars
    BY <1>11 DEF vars, TypeOK
<1>12. ASSUME NEW r \in Requests, SetExpiry(r)
      PROVE  TypeOK'
    <2>1. Changes(r, Allow(r))
        BY <1>12, AllowTyped DEF SetExpiry, Changes
    <2>2. expires' \in [Keys -> Nat]
        BY <1>12, KeyTyped, RenewedTyped DEF SetExpiry
    <2> QED BY <1>3, <1>12, <2>1, <2>2 DEF SetExpiry, TypeOK
<1> QED BY <1>4, <1>5, <1>6, <1>7, <1>8, <1>9, <1>10, <1>11, <1>12 DEF Next, Check

(* The types hold in every reachable state of the limiter.                 *)
THEOREM LimiterTyped == Spec => []TypeOK
<1>1. Init => TypeOK
    <2>1. 0 \in 0..MaxTime /\ 0 \in 0..MaxFaults
        BY LimitAssumption
    <2>2. Never \in Nat
        BY LimitAssumption DEF Never
    <2> QED BY <2>1, <2>2 DEF Init, TypeOK, NoRequest, RequestStates
<1> QED BY <1>1, TypeStep, PTL DEF Spec
-----------------------------------------------------------------------------
(* The limit. A request that is about to add its entry has counted fewer   *)
(* entries than the limit, and an entry that is not late finds only those. *)

UnderCount ==
    /\ \A k \in Keys : IsFiniteSet(zset[k])
    /\ \A r \in Requests : request[r].at = "add" =>
        /\ IsFiniteSet(request[r].counted)
        /\ Cardinality(request[r].counted) < Limit(Key(r))

(* One more element is one more at most.                                   *)
LEMMA OneMore ==
    ASSUME NEW S, NEW x, IsFiniteSet(S)
    PROVE  /\ IsFiniteSet(S \cup {x}) /\ Cardinality(S \cup {x}) \in Nat
           /\ Cardinality(S) \in Nat
           /\ Cardinality(S \cup {x}) <= Cardinality(S) + 1
<1>1. Cardinality(S) \in Nat
    BY FS_CardinalityType
<1>2. /\ IsFiniteSet(S \cup {x})
      /\ x \notin S => Cardinality(S \cup {x}) = Cardinality(S) + 1
    BY FS_AddElement
<1>3. x \in S => Cardinality(S \cup {x}) = Cardinality(S)
    <2>1. x \in S => S \cup {x} = S
        OBVIOUS
    <2> QED BY <2>1
<1> QED BY <1>1, <1>2, <1>3

(* A request is about to add its entry after it counted, and only then.    *)
LEMMA CountedStep ==
    ASSUME TypeOK, [Next]_vars, NEW r \in Requests, request'[r].at = "add"
    PROVE  \/ request[r].at = "add" /\ request'[r] = request[r]
           \/ /\ Key(r) \in Keys /\ Key(r)' = Key(r)
              /\ request'[r].counted \subseteq zset[Key(r)]
              /\ Cardinality(request'[r].counted) < Limit(Key(r))
<1>1. CASE request'[r] = request[r]
    BY <1>1
<1>2. CASE request'[r] # request[r]
    <2>1. Check(r)
        <3>1. ASSUME request[r].at = "expire", request'[r] = [request[r] EXCEPT !.lapsed = TRUE]
              PROVE  FALSE
            BY <3>1 DEF TypeOK, RequestStates
        <3> QED BY <1>2, <3>1, RequestStep
    <2>3. CountEntries(r)
        <3>1. ASSUME NEW ip \in Ips, Arrive(r, ip)
              PROVE  FALSE
            BY <3>1 DEF Arrive, NoRequest, TypeOK
        <3>2. CASE Refuse(r)
            BY <3>2 DEF Refuse, TypeOK, RequestStates
        <3>3. CASE AddEntry(r)
            BY <3>3 DEF AddEntry, TypeOK, RequestStates
        <3>4. CASE FailOpen(r)
            BY <3>4 DEF FailOpen, Allow, TypeOK, RequestStates
        <3>5. CASE ReadQuota(r)
            BY <3>5 DEF ReadQuota, TypeOK, RequestStates
        <3>6. CASE SetExpiry(r)
            BY <3>6 DEF SetExpiry, Allow, TypeOK, RequestStates
        <3> QED BY <2>1, <3>1, <3>2, <3>3, <3>4, <3>5, <3>6 DEF Check
    <2> DEFINE left == Purged(Key(r), request[r].stamp)
    <2>4. request'[r] = [request[r] EXCEPT !.counted = left,
                            !.at = IF Under(Key(r), left) THEN "add" ELSE "oldest"]
        BY <2>3 DEF CountEntries, TypeOK
    <2>5. request'[r].counted = left /\ Under(Key(r), left) /\ Key(r)' = Key(r)
        BY <2>4 DEF TypeOK, RequestStates, Key
    <2>6. Key(r) \in Keys
        BY <2>3, KeyTyped DEF CountEntries
    <2> QED BY <2>5, <2>6, PurgedTyped DEF Under
<1> QED BY <1>1, <1>2

(* Every step keeps the count of the entries that are not late.            *)
LEMMA UnderCountStep == TypeOK /\ UnderCount /\ [Next]_vars => UnderCount'
<1> SUFFICES ASSUME TypeOK, UnderCount, [Next]_vars
             PROVE  UnderCount'
    OBVIOUS
<1>1. ASSUME NEW k \in Keys
      PROVE  IsFiniteSet(zset'[k])
    <2>1. IsFiniteSet(zset[k])
        BY DEF UnderCount
    <2>2. CASE zset'[k] \subseteq zset[k]
        BY <2>1, <2>2, FS_Subset
    <2>3. ASSUME NEW r \in Requests, Joins(r, k)
          PROVE  IsFiniteSet(zset'[k])
        BY <2>1, <2>3, FS_AddElement DEF Joins
    <2> QED BY <2>2, <2>3, ZsetStep
<1>2. ASSUME NEW r \in Requests, request'[r].at = "add"
      PROVE  /\ IsFiniteSet(request'[r].counted)
             /\ Cardinality(request'[r].counted) < Limit(Key(r)')
    <2>1. CASE request[r].at = "add" /\ request'[r] = request[r]
        BY <2>1 DEF UnderCount, Key
    <2>2. CASE ~(request[r].at = "add" /\ request'[r] = request[r])
        BY <1>2, <2>2, CountedStep, FS_Subset DEF UnderCount
    <2> QED BY <2>1, <2>2
<1> QED BY <1>1, <1>2 DEF UnderCount, Limit

(* The entries of a window exceed its limit only by late ones, whatever    *)
(* happens between the count and the ZADD of concurrent requests           *)
(* (check_rate_limit) and whichever calls fail.                            *)
THEOREM OvershootIsAlwaysLate == Spec => []OvershootIsLate
<1>1. Init => UnderCount /\ OvershootIsLate
    <2> SUFFICES ASSUME Init
                 PROVE  UnderCount /\ OvershootIsLate
        OBVIOUS
    <2>1. ASSUME NEW k \in Keys
          PROVE  zset[k] = {} /\ {e \in zset[k] : ~e.late} = {} /\ Limit(k) \in Nat
        BY LimitTyped DEF Init
    <2> QED BY <2>1, FS_EmptySet DEF Init, UnderCount, OvershootIsLate, NoRequest
<1>2. TypeOK /\ UnderCount /\ OvershootIsLate /\ [Next]_vars => OvershootIsLate'
    <2> SUFFICES ASSUME TypeOK, UnderCount, OvershootIsLate, [Next]_vars, NEW k \in Keys
                 PROVE  Cardinality({e \in zset'[k] : ~e.late}) <= Limit(k)
        BY DEF OvershootIsLate, Limit
    <2> DEFINE timely == {e \in zset[k] : ~e.late}
               timelyNext == {e \in zset'[k] : ~e.late}
    <2>1. IsFiniteSet(timely) /\ Cardinality(timely) <= Limit(k) /\ Limit(k) \in Nat
        BY FS_Subset, LimitTyped DEF UnderCount, OvershootIsLate
    <2>2. CASE timelyNext \subseteq timely
        <3>1. Cardinality(timelyNext) <= Cardinality(timely)
            BY <2>1, <2>2, FS_Subset
        <3> QED BY <2>1, <2>2, <3>1, FS_Subset, FS_CardinalityType
    <2>3. CASE ~(timelyNext \subseteq timely)
        <3>1. PICK r \in Requests : /\ request[r].at = "add" /\ k = Key(r)
                                    /\ zset'[k] = zset[k] \cup {Entry(r)}
            BY <2>3, ZsetStep DEF Joins
        <3>2. ~Entry(r).late
            BY <2>3, <3>1
        <3> DEFINE counted == request[r].counted
        <3>3. timelyNext \subseteq counted \cup {Entry(r)}
            BY <3>1, <3>2, EntryTyped
        <3>4. IsFiniteSet(counted) /\ Cardinality(counted) < Limit(k)
            BY <3>1 DEF UnderCount
        <3>5. /\ IsFiniteSet(counted \cup {Entry(r)})
              /\ Cardinality(counted \cup {Entry(r)}) <= Cardinality(counted) + 1
            BY <3>4, OneMore
        <3>6. Cardinality(timelyNext) <= Cardinality(counted \cup {Entry(r)})
            BY <3>3, <3>5, FS_Subset
        <3>7. IsFiniteSet(timelyNext)
            BY <3>3, <3>5, FS_Subset
        <3> HIDE DEF counted, timelyNext
        <3> QED BY <2>1, <3>4, <3>5, <3>6, <3>7, FS_CardinalityType DEF timelyNext
    <2> QED BY <2>2, <2>3
<1> QED BY <1>1, <1>2, UnderCountStep, LimiterTyped, PTL DEF Spec
-----------------------------------------------------------------------------
(* The promise. The clock readings of the checks lie in the past, so what  *)
(* a purge removes from the global window has left it; and once a request  *)
(* has renewed the expiry of the key, the key outlives its entry.          *)

(* a request that has added its entry to the global window                 *)
Spent(r) ==
    \/ request[r].at \in {"quota", "admitted"}
    \/ request[r].at = "expire" /\ request[r].check = "global"

Promised(r) == Spent(r) /\ ~request[r].lucky /\ ~request[r].lapsed /\ InWindow(r)

Kept(r) ==
    /\ \E e \in zset["global"] : e.by = r /\ e.at = request[r].stamp
    /\ request[r].at # "expire" =>
         expires["global"] >= request[r].stamp + GlobalWindow \/ expires["global"] > MaxTime

KeptInv == \A r \in Requests :
    /\ request[r].stamp <= now
    /\ Promised(r) => Kept(r)

(* No stamp lies ahead of the time, which does not run backwards.          *)
LEMMA StampStep ==
    ASSUME TypeOK, KeptInv, [Next]_vars, NEW r \in Requests
    PROVE  request'[r].stamp <= now' /\ now <= now'
<1>1. request[r].stamp <= now /\ now \in Nat
    BY LimitAssumption DEF TypeOK, KeptInv
<1>2. ASSUME NEW q \in Requests, Check(q)
      PROVE  now' = now /\ request'[r].stamp \in {now, request[r].stamp}
    <2>1. CASE q # r
        BY <1>2, <2>1 DEF Check, Arrive, CountEntries, Refuse, AddEntry, SetExpiry, FailOpen,
                          ReadQuota, TypeOK
    <2>2. ASSUME NEW ip \in Ips, Arrive(r, ip)
          PROVE  now' = now /\ request'[r].stamp = now
        BY <2>2 DEF Arrive, NoRequest, TypeOK
    <2>3. CASE CountEntries(r)
        BY <2>3 DEF CountEntries, TypeOK, RequestStates
    <2>4. CASE Refuse(r)
        BY <2>4 DEF Refuse, TypeOK, RequestStates
    <2>5. CASE AddEntry(r)
        BY <2>5 DEF AddEntry, TypeOK, RequestStates
    <2>6. CASE FailOpen(r)
        BY <2>6, AllowPasses DEF FailOpen, TypeOK
    <2>7. CASE ReadQuota(r)
        BY <2>7 DEF ReadQuota, TypeOK, RequestStates
    <2>8. CASE SetExpiry(r)
        BY <2>8, AllowPasses DEF SetExpiry, TypeOK
    <2> QED BY <1>2, <2>1, <2>2, <2>3, <2>4, <2>5, <2>6, <2>7, <2>8 DEF Check
<1>3. CASE Tick
    <2>1. request'[r].stamp = request[r].stamp
        BY <1>3 DEF Tick, TypeOK, RequestStates
    <2> QED BY <1>1, <1>3, <2>1 DEF Tick, TypeOK, RequestStates
<1> QED BY <1>1, <1>2, <1>3 DEF Next, vars

(* A purge of the global window takes no entry of this window.             *)
LEMMA PurgeKeeps ==
    ASSUME TypeOK, NEW e \in zset["global"], now - e.at < GlobalWindow,
           NEW stamp \in Nat, stamp <= now
    PROVE  e \in Purged("global", stamp)
<1>1. GlobalWindow \in Nat /\ now \in Nat /\ e.at \in Nat
    BY LimitAssumption DEF Keys, TypeOK, Entries
<1> QED BY <1>1 DEF Purged, WindowStart, Window

(* Neither the entry of a promised request in the global window nor the    *)
(* expiry it set is lost by the calls of a check.                          *)
LEMMA GlobalStep ==
    ASSUME TypeOK, KeptInv, NEW q \in Requests, Check(q),
           NEW e \in zset["global"], now - e.at < GlobalWindow
    PROVE  /\ e \in zset'["global"]
           /\ expires'["global"] = expires["global"] \/ expires'["global"] = now + GlobalWindow
<1>1. "global" \in Keys /\ now \in Nat /\ request[q].stamp \in Nat /\ request[q].stamp <= now
    BY LimitAssumption DEF Keys, TypeOK, RequestStates, KeptInv
<1>2. CASE Purge(Key(q), request[q].stamp) /\ Key(q) = "global"
    BY <1>1, <1>2, PurgeKeeps DEF Purge, TypeOK
<1>3. CASE \E k \in Keys \ {"global"}, stamp \in 0..MaxTime : Purge(k, stamp)
    BY <1>1, <1>3 DEF Purge, TypeOK
<1>4. CASE expires' = expires /\ zset' = [zset EXCEPT ![Key(q)] = @ \cup {Entry(q)}]
    BY <1>1, <1>4 DEF TypeOK
<1>5. CASE expires' = Renewed(Key(q)) /\ zset' = zset
    BY <1>1, <1>5 DEF TypeOK, Renewed, Window
<1>6. CASE expires' = expires /\ zset' = zset
    BY <1>6
<1>7. CASE ReadQuota(q)
    <2>1. request[q].ip \in Keys \ {"global"} /\ now \in 0..MaxTime
        BY <1>7, LimitAssumption DEF ReadQuota, TypeOK, Keys
    <2> QED BY <1>3, <1>7, <2>1 DEF ReadQuota
<1>8. CASE CountEntries(q) \/ FailOpen(q)
    <2>1. Key(q) \in Keys /\ request[q].stamp \in 0..MaxTime
        BY <1>8, KeyTyped DEF CountEntries, FailOpen, TypeOK, RequestStates
    <2>2. \/ Purge(Key(q), request[q].stamp)
          \/ expires' = expires /\ zset' = [zset EXCEPT ![Key(q)] = @ \cup {Entry(q)}]
          \/ expires' = Renewed(Key(q)) /\ zset' = zset
          \/ expires' = expires /\ zset' = zset
        BY <1>8 DEF CountEntries, FailOpen
    <2> QED BY <1>2, <1>3, <1>4, <1>5, <1>6, <2>1, <2>2
<1> QED BY <1>4, <1>5, <1>6, <1>7, <1>8 DEF Check, Arrive, Refuse, AddEntry, SetExpiry

(* The key outlives the entry that a request has renewed it for.           *)
LEMMA LapseStep ==
    ASSUME TypeOK, KeptInv, Tick, NEW r \in Requests, Promised(r)'
    PROVE  Kept(r)'
<1>1. /\ Spent(r) /\ ~request[r].lucky /\ ~request[r].lapsed
      /\ request'[r] = request[r] /\ ~(request[r].at = "expire" /\ Lapses(Key(r)))
    BY DEF Tick, TypeOK, RequestStates, Promised, Spent
<1>2. now \in Nat /\ request[r].stamp \in Nat /\ GlobalWindow \in Nat /\ MaxTime \in Nat
    BY LimitAssumption DEF TypeOK, RequestStates
<1>3. now' = now + 1 /\ now' <= MaxTime /\ now' - request[r].stamp < GlobalWindow
    BY <1>1, <1>2 DEF Tick, Promised, InWindow
<1>4. Kept(r)
    BY <1>1, <1>2, <1>3 DEF Promised, InWindow, KeptInv
<1>5. "global" \in Keys /\ expires["global"] \in Nat
    BY DEF Keys, TypeOK
<1>6. ~Lapses("global")
    <2>1. CASE request[r].at = "expire"
        BY <1>1, <2>1 DEF Spent, Key
    <2>2. CASE request[r].at # "expire"
        BY <1>2, <1>3, <1>4, <1>5, <2>2 DEF Kept, Lapses
    <2> QED BY <2>1, <2>2
<1>7. zset'["global"] = zset["global"] /\ expires'["global"] = expires["global"]
    BY <1>5, <1>6 DEF Tick
<1> QED BY <1>1, <1>4, <1>7 DEF Kept

(* A call of the request itself keeps the promise, or makes it.            *)
LEMMA OwnStep ==
    ASSUME TypeOK, KeptInv, NEW r \in Requests, Check(r), Promised(r)'
    PROVE  Kept(r)'
<1>1. /\ now \in Nat /\ request[r].stamp \in Nat /\ request[r].stamp <= now
      /\ GlobalWindow \in Nat \ {0} /\ now' = now /\ "global" \in Keys
    <2>1. now' = now
        BY DEF Check, Arrive, CountEntries, Refuse, AddEntry, SetExpiry, FailOpen, ReadQuota
    <2> QED BY <2>1, LimitAssumption DEF TypeOK, RequestStates, KeptInv, Keys
<1>2. Spent(r)' /\ ~request'[r].lucky /\ ~request'[r].lapsed
    BY DEF Promised
<1>3. CASE AddEntry(r)
    <2>1. request'[r] = [request[r] EXCEPT !.at = "expire", !.counted = {}]
        BY <1>3 DEF AddEntry, TypeOK
    <2>2. request'[r].at = "expire" /\ request'[r].stamp = request[r].stamp
          /\ request[r].check = "global"
        BY <1>2, <2>1 DEF TypeOK, RequestStates, Spent
    <2>3. Entry(r) \in zset'["global"]
        BY <1>1, <1>3, <2>2 DEF AddEntry, TypeOK, Key
    <2> QED BY <2>2, <2>3, EntryTyped DEF Kept
<1>4. CASE SetExpiry(r) \/ ReadQuota(r)
    <2>1. CASE SetExpiry(r)
        <3>1. request'[r] = Allow(r)
            BY <2>1 DEF SetExpiry, TypeOK
        <3>2. CASE request[r].check = "ip"
            BY <1>2, <3>1, <3>2 DEF Allow, TypeOK, RequestStates, Spent
        <3>3. CASE request[r].check # "ip"
            <4>1. request'[r] = [request[r] EXCEPT !.at = "quota", !.counted = {}]
                BY <3>1, <3>3 DEF Allow
            <4>2. /\ request'[r].stamp = request[r].stamp /\ request'[r].at = "quota"
                  /\ request'[r].lucky = request[r].lucky /\ request'[r].lapsed = request[r].lapsed
                  /\ request[r].check = "global"
                BY <3>3, <4>1 DEF TypeOK, RequestStates
            <4>3. Promised(r) /\ request[r].at = "expire"
                BY <1>1, <1>2, <2>1, <4>2 DEF SetExpiry, Promised, InWindow, Spent
            <4>4. PICK e \in zset["global"] : e.by = r /\ e.at = request[r].stamp
                BY <4>3 DEF KeptInv, Kept
            <4>5. zset'["global"] = zset["global"] /\ expires'["global"] = now + GlobalWindow
                BY <1>1, <2>1, <4>2, <4>4 DEF SetExpiry, Renewed, Key, Window, TypeOK
            <4> QED BY <1>1, <4>2, <4>4, <4>5 DEF Kept
        <3> QED BY <3>2, <3>3
    <2>2. CASE ReadQuota(r)
        <3>1. request'[r] = [request[r] EXCEPT !.at = "admitted", !.ip = "none"] /\ request[r].at = "quota"
            BY <2>2 DEF ReadQuota, TypeOK
        <3>2. /\ request'[r].stamp = request[r].stamp /\ request'[r].at = "admitted"
              /\ request'[r].lucky = request[r].lucky /\ request'[r].lapsed = request[r].lapsed
            BY <3>1 DEF TypeOK, RequestStates
        <3>3. Promised(r)
            BY <1>1, <1>2, <3>1, <3>2 DEF Promised, InWindow, Spent
        <3>4. zset'["global"] = zset["global"] /\ expires'["global"] = expires["global"]
            <4>1. request[r].ip # "global"
                BY <2>2, LimitAssumption DEF ReadQuota, TypeOK
            <4> QED BY <1>1, <2>2, <4>1 DEF ReadQuota, Purge, TypeOK
        <3> QED BY <3>1, <3>2, <3>3, <3>4 DEF KeptInv, Kept
    <2> QED BY <1>4, <2>1, <2>2
<1>5. ASSUME NEW ip \in Ips, Arrive(r, ip)
      PROVE  FALSE
    BY <1>2, <1>5 DEF Arrive, NoRequest, TypeOK, Spent
<1>6. ~CountEntries(r) /\ ~Refuse(r)
    BY <1>2 DEF CountEntries, Refuse, TypeOK, RequestStates, Spent
<1>7. ~FailOpen(r)
    BY <1>2 DEF FailOpen, Allow, TypeOK, RequestStates
<1> QED BY <1>3, <1>4, <1>5, <1>6, <1>7 DEF Check

(* Every step keeps the entry of an admitted request in its window.        *)
LEMMA KeptStep == TypeOK /\ KeptInv /\ [Next]_vars => KeptInv'
<1> SUFFICES ASSUME TypeOK, KeptInv, [Next]_vars, NEW r \in Requests, Promised(r)'
             PROVE  Kept(r)'
    BY StampStep DEF KeptInv
<1>1. CASE Tick
    BY <1>1, LapseStep
<1>2. CASE Check(r)
    BY <1>2, OwnStep
<1>3. ASSUME NEW q \in Requests, Check(q), q # r
      PROVE  Kept(r)'
    <2>1. request'[r] = request[r] /\ now' = now
        BY <1>3 DEF TypeOK, Check, Arrive, CountEntries, Refuse, AddEntry, SetExpiry, FailOpen, ReadQuota
    <2>2. Promised(r)
        BY <2>1 DEF Promised, Spent, InWindow
    <2>3. PICK e \in zset["global"] : e.by = r /\ e.at = request[r].stamp
        BY <2>2 DEF KeptInv, Kept
    <2>4. /\ e \in zset'["global"]
          /\ expires'["global"] = expires["global"] \/ expires'["global"] = now + GlobalWindow
        BY <1>3, <2>2, <2>3, GlobalStep DEF Promised, InWindow
    <2>5. /\ now \in Nat /\ request[r].stamp \in Nat /\ request[r].stamp <= now
          /\ GlobalWindow \in Nat
        BY LimitAssumption DEF TypeOK, RequestStates, KeptInv
    <2> QED BY <2>1, <2>2, <2>3, <2>4, <2>5 DEF KeptInv, Kept
<1>4. CASE UNCHANGED vars
    BY <1>4 DEF vars, KeptInv, Kept, Promised, Spent, InWindow
<1> QED BY <1>1, <1>2, <1>3, <1>4 DEF Next

(* An admitted request that met no error is counted among all submissions  *)
(* until its time has left the window: no purge by another request         *)
(* (check_rate_limit, get_remaining_quota) takes its entry before, and no  *)
(* expiry does, but for one that runs out between its own ZADD and EXPIRE. *)
THEOREM AdmittedIsAlwaysCounted == Spec => []AdmittedIsCounted
<1>1. Init => KeptInv
    BY DEF Init, KeptInv, NoRequest, Promised, Spent
<1>2. TypeOK /\ KeptInv => AdmittedIsCounted
    <2> SUFFICES ASSUME TypeOK, KeptInv, NEW r \in Requests,
                        Admitted(r), InWindow(r), ~request[r].lapsed
                 PROVE  Counted(r)
        BY DEF AdmittedIsCounted
    <2>1. Promised(r)
        BY DEF Admitted, Promised, Spent
    <2> QED BY <2>1 DEF KeptInv, Kept, Counted
<1> QED BY <1>1, <1>2, KeptStep, LimiterTyped, PTL DEF Spec

-----------------------------------------------------------------------------
(* The refusals. An entry of the global window is that of a request that   *)
(* passed; an entry of an address is that of a request that passed the     *)
(* address.                                                                *)

SpentInv ==
    /\ \A e \in zset["global"] : Spent(e.by)
    /\ \A k \in Ips : \A e \in zset[k] : request[e.by].check = "global" \/ request[e.by].at = "expire"
    /\ \A r \in Requests : request[r].at = "new" => request[r].check = "ip"

(* What a request has passed it has passed for good.                       *)
LEMMA PassedStep ==
    ASSUME TypeOK, SpentInv, [Next]_vars, NEW r \in Requests
    PROVE  /\ Spent(r) => Spent(r)'
           /\ request[r].check = "global" \/ request[r].at = "expire" =>
                request'[r].check = "global" \/ request'[r].at = "expire"
           /\ request'[r].at = "new" => request'[r].check = "ip"
<1>1. CASE request'[r] = request[r]
    BY <1>1 DEF SpentInv, Spent
<1>2. CASE request[r].at = "expire" /\ request'[r] = [request[r] EXCEPT !.lapsed = TRUE]
    BY <1>2 DEF TypeOK, RequestStates, Spent
<1>3. CASE Check(r)
    <2>3. ASSUME NEW ip \in Ips, Arrive(r, ip)
          PROVE  request[r].at = "new" /\ request'[r].at = "count"
        BY <2>3 DEF Arrive, NoRequest, TypeOK
    <2>4. CASE CountEntries(r)
        BY <2>4 DEF CountEntries, TypeOK, RequestStates, Spent
    <2>5. CASE Refuse(r)
        BY <2>5 DEF Refuse, TypeOK, RequestStates, Spent
    <2>6. CASE AddEntry(r)
        BY <2>6 DEF AddEntry, TypeOK, RequestStates, Spent
    <2>7. CASE FailOpen(r)
        BY <2>7 DEF FailOpen, Allow, TypeOK, RequestStates, Spent
    <2>8. CASE ReadQuota(r)
        BY <2>8 DEF ReadQuota, TypeOK, RequestStates, Spent
    <2>9. CASE SetExpiry(r)
        BY <2>9 DEF SetExpiry, Allow, TypeOK, RequestStates, Spent
    <2> QED BY <1>3, <2>3, <2>4, <2>5, <2>6, <2>7, <2>8, <2>9 DEF Check, SpentInv, Spent
<1> QED BY <1>1, <1>2, <1>3, RequestStep

(* Every step keeps the entries with requests that were not refused.       *)
LEMMA SpentStep == TypeOK /\ SpentInv /\ [Next]_vars => SpentInv'
<1> SUFFICES ASSUME TypeOK, SpentInv, [Next]_vars
             PROVE  SpentInv'
    OBVIOUS
<1>1. ASSUME NEW k \in Keys, NEW e \in zset'[k], k = "global"
      PROVE  Spent(e.by)'
    <2>1. CASE e \in zset[k]
        <3>1. e.by \in Requests /\ Spent(e.by)
            BY <1>1, <2>1 DEF TypeOK, Entries, SpentInv
        <3> QED BY <3>1, PassedStep
    <2>2. CASE e \notin zset[k]
        <3>1. PICK r \in Requests : Joins(r, k) /\ e = Entry(r)
            BY ZenonT(30), <1>1, <2>2, ZsetStep DEF Joins
        <3>2. request[r].check = "global"
            BY <1>1, <3>1, LimitAssumption DEF Joins, Key, TypeOK
        <3>3. Spent(r)'
            BY <3>1, <3>2 DEF Joins, Allow, TypeOK, RequestStates, Spent
        <3> QED BY <3>1, <3>3, EntryTyped
    <2> QED BY <2>1, <2>2
<1>2. ASSUME NEW k \in Ips, NEW e \in zset'[k]
      PROVE  request'[e.by].check = "global" \/ request'[e.by].at = "expire"
    <2>1. CASE e \in zset[k]
        <3>1. e.by \in Requests /\ (request[e.by].check = "global" \/ request[e.by].at = "expire")
            BY <2>1 DEF TypeOK, Entries, SpentInv, Keys
        <3> QED BY <3>1, PassedStep
    <2>2. CASE e \notin zset[k]
        <3>1. PICK r \in Requests : Joins(r, k) /\ e = Entry(r)
            <4>1. k \in Keys
                BY DEF Keys
            <4>2. PICK r \in Requests : Joins(r, k)
                BY <2>2, <4>1, ZsetStep
            <4> QED BY <2>2, <4>2 DEF Joins
        <3>2. request'[r].check = "global" \/ request'[r].at = "expire"
            BY <3>1 DEF Joins, Allow, TypeOK, RequestStates
        <3> QED BY <3>1, <3>2, EntryTyped
    <2> QED BY <2>1, <2>2
<1>3. "global" \in Keys
    BY DEF Keys
<1> QED BY <1>1, <1>2, <1>3, PassedStep DEF SpentInv

(* A refused request has spent nothing, unless the global limit refused it *)
(* after its address had let it pass (the two checks of the middleware).   *)
THEOREM RefusalIsAlwaysFree == Spec => []RefusalIsFree
<1>1. Init => SpentInv
    BY DEF Init, SpentInv, NoRequest, Keys
<1>2. SpentInv => RefusalIsFree
    BY DEF SpentInv, Spent, RefusalIsFree, Keys
<1> QED BY <1>1, <1>2, SpentStep, LimiterTyped, PTL DEF Spec
-----------------------------------------------------------------------------
(* Retry-After. The entries that refused a request are those the window    *)
(* held at that moment, within the limit unless some were late, and the    *)
(* answer is rounded down by less than a second.                           *)

Shown(r) == LET k == Key(r) IN
    /\ (\A e \in request[r].counted : ~e.late) => Cardinality(request[r].counted) <= Limit(k)
    /\ IsFiniteSet(request[r].counted)
    /\ request[r].counted # {} => request[r].retry = RetryAfter(k, request[r].stamp, request[r].counted)

RefusedInv == \A r \in Requests : request[r].at = "refused" => Shown(r) /\ Key(r) \in Keys

(* Every step keeps what a refused request counted and was told.           *)
LEMMA RefusedStep == TypeOK /\ UnderCount /\ OvershootIsLate /\ RefusedInv /\ [Next]_vars => RefusedInv'
<1> SUFFICES ASSUME TypeOK, UnderCount, OvershootIsLate, RefusedInv, [Next]_vars,
                    NEW r \in Requests, request'[r].at = "refused"
             PROVE  Shown(r)' /\ Key(r)' \in Keys
    BY DEF RefusedInv, Keys
<1>1. CASE request'[r] = request[r]
    <2>1. Key(r)' = Key(r)
        BY <1>1 DEF Key
    <2> QED BY <1>1, <2>1 DEF RefusedInv, Shown, Limit, RetryAfter, Window
<1>2. CASE request'[r] # request[r]
    <2>1. Check(r)
        <3>1. ASSUME request[r].at = "expire", request'[r] = [request[r] EXCEPT !.lapsed = TRUE]
              PROVE  FALSE
            BY <3>1 DEF TypeOK, RequestStates
        <3> QED BY <1>2, <3>1, RequestStep
    <2>3. Refuse(r)
        <3>1. ASSUME NEW ip \in Ips, Arrive(r, ip)
              PROVE  FALSE
            BY <3>1 DEF Arrive, NoRequest, TypeOK
        <3>2. CASE CountEntries(r)
            <4> DEFINE left == Purged(Key(r), request[r].stamp)
            <4>1. request'[r] = [request[r] EXCEPT !.counted = left,
                                    !.at = IF Under(Key(r), left) THEN "add" ELSE "oldest"]
                BY <3>2 DEF CountEntries, TypeOK
            <4>2. request'[r].at \in {"add", "oldest"}
                BY <4>1 DEF TypeOK, RequestStates
            <4> QED BY <4>2
        <3>3. ~AddEntry(r)
            BY DEF AddEntry, TypeOK, RequestStates
        <3>4. ~FailOpen(r)
            BY AllowPasses DEF FailOpen, TypeOK
        <3>5. ~ReadQuota(r)
            BY DEF ReadQuota, TypeOK, RequestStates
        <3>6. ~SetExpiry(r)
            BY AllowPasses DEF SetExpiry, TypeOK
        <3> QED BY <2>1, <3>1, <3>2, <3>3, <3>4, <3>5, <3>6 DEF Check
    <2> DEFINE k == Key(r)
    <2>4. k \in Keys
        BY <2>3, KeyTyped DEF Refuse
    <2>5. /\ request'[r].counted = zset[k] /\ request'[r].stamp = request[r].stamp
          /\ request'[r].check = request[r].check /\ request'[r].ip = request[r].ip
          /\ zset[k] # {} => request'[r].retry = RetryAfter(k, request[r].stamp, zset[k])
        BY <2>3 DEF Refuse, TypeOK, RequestStates
    <2>6. Key(r)' = k
        BY <2>5 DEF Key
    <2>7. IsFiniteSet(zset[k])
        BY <2>4 DEF UnderCount
    <2>8. (\A e \in zset[k] : ~e.late) => Cardinality(zset[k]) <= Limit(k)
        <3> SUFFICES ASSUME \A e \in zset[k] : ~e.late
                     PROVE  Cardinality(zset[k]) <= Limit(k)
            OBVIOUS
        <3>1. {e \in zset[k] : ~e.late} = zset[k]
            OBVIOUS
        <3> QED BY <2>4, <3>1 DEF OvershootIsLate
    <2> HIDE DEF k
    <2> QED BY <2>4, <2>5, <2>6, <2>7, <2>8 DEF Shown, Limit, RetryAfter, Window
<1> QED BY <1>1, <1>2

(* A time is rounded down to seconds by less than one of them.             *)
LEMMA Rounded ==
    ASSUME NEW x \in Int, NEW seconds \in Int, x \div TicksPerSecond <= seconds
    PROVE  x <= (seconds + 1) * TicksPerSecond - 1
<1>1. TicksPerSecond \in Nat /\ TicksPerSecond > 0
    BY LimitAssumption
<1>2. x <= (x \div TicksPerSecond + 1) * TicksPerSecond - 1
    BY <1>1
<1>3. x \div TicksPerSecond \in Int
    BY <1>1
<1> DEFINE q == x \div TicksPerSecond
<1>4. (q + 1) * TicksPerSecond <= (seconds + 1) * TicksPerSecond
    <2> HIDE DEF q
    <2>1. ASSUME NEW a \in Int, NEW b \in Int, a <= b
          PROVE  a * TicksPerSecond <= b * TicksPerSecond
        BY <1>1, <2>1
    <2>2. q + 1 \in Int /\ seconds + 1 \in Int /\ q + 1 <= seconds + 1
        BY <1>3 DEF q
    <2> QED BY <2>1, <2>2
<1> QED BY <1>1, <1>2, <1>3, <1>4

(* A client that waits for Retry-After (_get_retry_after), to within the   *)
(* second it is rounded down by, finds that one of the entries that        *)
(* refused it has left, and fewer than the limit of them remain.           *)
THEOREM RetryAlwaysFreesASlot == Spec => []RetryFreesASlot
<1>1. Init => UnderCount /\ OvershootIsLate /\ RefusedInv
    <2> SUFFICES ASSUME Init
                 PROVE  UnderCount /\ OvershootIsLate /\ RefusedInv
        OBVIOUS
    <2>1. ASSUME NEW k \in Keys
          PROVE  zset[k] = {} /\ {e \in zset[k] : ~e.late} = {} /\ Limit(k) \in Nat
        BY LimitTyped DEF Init
    <2> QED BY <2>1, FS_EmptySet DEF Init, UnderCount, OvershootIsLate, RefusedInv, NoRequest
<1>2. TypeOK /\ RefusedInv => RetryFreesASlot
    <2> SUFFICES ASSUME TypeOK, RefusedInv, NEW r \in Requests,
                        request[r].at = "refused", Waited(r), \A e \in request[r].counted : ~e.late
                 PROVE  Cardinality({e \in request[r].counted : now - e.at < Window(Key(r))})
                            < Limit(Key(r))
        BY DEF RetryFreesASlot
    <2> DEFINE counted == request[r].counted
               k == Key(r)
               still == {e \in counted : now - e.at < Window(k)}
    <2>1. /\ IsFiniteSet(counted) /\ Cardinality(counted) <= Limit(k) /\ k \in Keys
          /\ counted # {} => request[r].retry = RetryAfter(k, request[r].stamp, counted)
        BY DEF RefusedInv, Shown
    <2>2. Limit(k) \in Nat \ {0} /\ Window(k) \in Nat
        BY <2>1, LimitTyped
    <2>3. CASE counted = {}
        <3>1. still = {}
            BY <2>3
        <3> HIDE DEF still
        <3>2. Cardinality(still) = 0
            BY <3>1, FS_EmptySet
        <3> QED BY <2>2, <3>2 DEF still
    <2>4. CASE counted # {}
        <3> DEFINE old == Oldest(counted)
                   x == old.at + Window(k) - request[r].stamp
        <3>1. old \in counted /\ old.at \in Nat
            BY <2>4, OldestTyped, LimitAssumption DEF TypeOK, RequestStates, Entries
        <3>2. now \in Nat /\ request[r].stamp \in Nat /\ request[r].retry \in Nat
            BY LimitAssumption DEF TypeOK, RequestStates
        <3>3. x \in Int
            BY <2>2, <3>1, <3>2
        <3>4. x \div TicksPerSecond <= request[r].retry
            <4>1. x \div TicksPerSecond \in Int
                BY <3>3, LimitAssumption
            <4>2. request[r].retry = IF x \div TicksPerSecond < 1 THEN 1 ELSE x \div TicksPerSecond
                BY <2>1, <2>4 DEF RetryAfter
            <4> QED BY <4>1, <4>2
        <3>5. x <= (request[r].retry + 1) * TicksPerSecond - 1
            <4> HIDE DEF x
            <4> QED BY <3>2, <3>3, <3>4, Rounded
        <3>6. (request[r].retry + 1) * TicksPerSecond \in Int
            BY <3>2, LimitAssumption
        <3>7. ~(now - old.at < Window(k))
            BY <2>2, <3>1, <3>2, <3>5, <3>6 DEF Waited
        <3>8. still \subseteq counted \ {old}
            BY <3>7
        <3>9. IsFiniteSet(counted \ {old}) /\ Cardinality(counted \ {old}) = Cardinality(counted) - 1
            BY <2>1, <3>1, FS_RemoveElement
        <3>10. Cardinality(still) <= Cardinality(counted \ {old}) /\ IsFiniteSet(still)
            BY <3>8, <3>9, FS_Subset
        <3>11. Cardinality(still) < Limit(k)
            <4> HIDE DEF still, counted, old, k
            <4> QED BY <2>1, <2>2, <3>9, <3>10, FS_CardinalityType
        <3> QED BY <3>11
    <2> QED BY <2>3, <2>4
<1> QED BY <1>1, <1>2, UnderCountStep, OvershootIsAlwaysLate, RefusedStep, LimiterTyped, PTL DEF Spec

===============================================================================
