------------------------ MODULE LoginSession_proofs ------------------------
(***************************************************************************)
(* Theorems about LoginSession, for any number of requests and providers,  *)
(* any lifetimes and any schedule: who signed in stays signed in, a logout *)
(* holds, and a login at the provider fails only for a reason. One step of *)
(* a request is sorted into kinds first (Kinds); SessionInv is about the   *)
(* session, and LoginInv about the tx cookie and the provider's key.       *)
(***************************************************************************)
EXTENDS LoginSession, TLAPS

(* The records that None is not.                                           *)
LEMMA NoneApart ==
    /\ \A v, ttl : Cookie(v, ttl) # None
    /\ NewSession # None /\ Nothing.name = "nothing" /\ ClearSession.name = "cleared"
    /\ \A s : SetSession(s).name = "session" /\ SetSession(s).session = s
    /\ Nothing.name # "tx" /\ ClearTx.name # "tx" /\ Nothing # ClearTx
    /\ \A tx : SetTx(tx).name = "tx" /\ SetTx(tx).tx = tx /\ SetTx(tx) # ClearTx
<1>1. \A v, ttl : "value" \in DOMAIN Cookie(v, ttl)
    BY DEF Cookie
<1>2. "issued" \in DOMAIN NewSession
    BY DEF NewSession
<1>3. "value" \notin DOMAIN None /\ "issued" \notin DOMAIN None
    BY DEF None
<1>4. \A s : SetSession(s).name = "session" /\ SetSession(s).session = s
    BY DEF SetSession
<1>5. /\ Nothing.name = "nothing" /\ ClearTx.name = "tx cleared"
      /\ \A tx : SetTx(tx).name = "tx" /\ SetTx(tx).tx = tx
    BY DEF Nothing, ClearTx, SetTx
<1> QED BY <1>1, <1>2, <1>3, <1>4, <1>5 DEF ClearSession

-----------------------------------------------------------------------------
(* What a step of one request does, in six kinds.                          *)
Shape ==
    /\ DOMAIN request = Requests /\ DOMAIN jar = {"session", "csrf", "tx"}
    /\ clock \in Int
    /\ \A r \in Requests :
          /\ request[r].at \in {"exchange", "validate"} => request[r].kind = "callback"
          /\ request[r].at = "handled" => request[r].kind = "api"

Others(r) == \A s \in Requests \ {r} : request'[s] = request[s]

(* Goes moves one request and leaves the others where they are.            *)
LEMMA Gone ==
    ASSUME DOMAIN request = Requests, NEW r \in Requests, NEW q, Goes(r, q)
    PROVE  DOMAIN request' = Requests /\ request'[r] = q /\ Others(r)
BY DEF Goes, Others

Leaves(r) == request'[r].at \in {"idle", "composed"}
Sends(r) == request'[r].at = "sent" /\ request'[r].cookies = Sent
Identifies(r) ==
    /\ request[r].at = "sent" /\ request'[r].identity = Identity(r)
    /\ \/ request'[r].at = "handled" /\ request'[r].kind = "api"
       \/ request'[r].at = "exchange" /\ request'[r].kind = "callback"
Validates(r) ==
    /\ request[r].at = "exchange" /\ request'[r].at = "validate"
    /\ request'[r].kind = "callback" /\ request'[r].identity = request[r].identity

(* Whom a request that is answered comes from.                             *)
From(r) == IF request[r].at = "sent" THEN Identity(r) ELSE request[r].identity
AnswersWith(r, identity, status, set, tx) ==
    /\ request[r].at \in {"sent", "handled", "exchange", "validate"}
    /\ identity \in {None, From(r)} /\ set \in {Nothing, ClearSession, SetSession(NewSession)}
    /\ set = ClearSession <=> request[r].kind = "logout" /\ status = 200
    /\ set = SetSession(NewSession)
          <=> request[r].kind \in {"login", "callback"} /\ status = 200
    /\ Answer(r, identity, status, set, tx)
Answers(r) == \E identity, status, set, tx : AnswersWith(r, identity, status, set, tx)

(* The steps that leave the jar and what is remembered of it alone.        *)
Quiet == UNCHANGED <<clock, secret, jar, answered, overtaken, signedOut, revived>>
Forgets(r) == early' = early \/ (request'[r].at = "sent" /\ early' = early \ {r})
Serves(r) ==
    /\ Quiet /\ Forgets(r)
    /\ Leaves(r) \/ Sends(r) \/ Identifies(r) \/ Validates(r) \/ Answers(r)

(* Every step of a request is served, or is a response that arrives.       *)
LEMMA Kinds ==
    ASSUME Shape, NEW r \in Requests, RequestNext(r)
    PROVE  /\ DOMAIN request' = Requests /\ Others(r)
           /\ \/ Serves(r)
              \/ \E next : Arrives(r, next) /\ request'[r].at \in {"idle", "idp"}
<1>goes. ASSUME NEW q, Goes(r, q)
      PROVE  DOMAIN request' = Requests /\ request'[r] = q /\ Others(r)
    BY <1>goes, Gone DEF Shape
<1>0. ASSUME Quiet, Forgets(r), DOMAIN request' = Requests, Others(r),
             Leaves(r) \/ Sends(r) \/ Identifies(r) \/ Validates(r) \/ Answers(r)
      PROVE  DOMAIN request' = Requests /\ Others(r) /\ Serves(r)
    BY <1>0 DEF Serves
<1>1. CASE Send(r)
    <2>1. \E kind : Goes(r, NewRequest(kind))
        BY <1>1 DEF Send
    <2>2. DOMAIN request' = Requests /\ Others(r) /\ Sends(r)
        BY <1>goes, <2>1 DEF NewRequest, Sends
    <2>3. Quiet /\ Forgets(r)
        BY <1>1 DEF Send, Sending, server, Quiet, Forgets
    <2> QED BY <1>0, <2>2, <2>3
<1>2. CASE ComposeLogout(r)
    <2>1. Goes(r, [at |-> "composed", header |-> Value(jar.csrf)])
        BY <1>2 DEF ComposeLogout
    <2>2. DOMAIN request' = Requests /\ Others(r) /\ Leaves(r)
        BY <1>goes, <2>1 DEF Leaves
    <2>3. Quiet /\ Forgets(r)
        BY <1>2 DEF ComposeLogout, Sending, server, Quiet, Forgets
    <2> QED BY <1>0, <2>2, <2>3
<1>3. CASE PostLogout(r)
    <2>1. \E q : Goes(r, q) /\ q.at = "sent" /\ q.cookies = Sent
        BY <1>3 DEF PostLogout
    <2>2. DOMAIN request' = Requests /\ Others(r) /\ Sends(r) /\ request'[r].at = "sent"
        BY <1>goes, <2>1 DEF Sends
    <2>3. Quiet /\ Forgets(r)
        BY <1>3, <2>2 DEF PostLogout, server, Quiet, Forgets
    <2> QED BY <1>0, <2>2, <2>3
<1>4. CASE Kickoff(r)
    <2>1. \E q : Goes(r, q) /\ q.at = "sent" /\ q.cookies = Sent
        BY <1>4 DEF Kickoff
    <2>2. DOMAIN request' = Requests /\ Others(r) /\ Sends(r)
        BY <1>goes, <2>1 DEF Sends
    <2>3. Quiet /\ Forgets(r)
        BY <1>4 DEF Kickoff, Sending, server, Quiet, Forgets
    <2> QED BY <1>0, <2>2, <2>3
<1>5. ASSUME NEW identity, NEW status, NEW set, NEW tx,
             AnswersWith(r, identity, status, set, tx)
      PROVE  DOMAIN request' = Requests /\ Others(r) /\ Answers(r)
    <2>1. \E q : Goes(r, q)
        BY <1>5 DEF AnswersWith, Answer
    <2>2. Answers(r)
        BY <1>5 DEF Answers
    <2> QED BY <1>goes, <2>1, <2>2
<1>6. Unchanged => Quiet /\ Forgets(r)
    BY DEF Unchanged, browser, Quiet, Forgets
<1>7. /\ Nothing # ClearSession /\ Nothing # SetSession(NewSession)
      /\ ClearSession # SetSession(NewSession)
    BY NoneApart
<1>8. CASE Api(r)
    <2>1. /\ request[r].at = "sent" /\ request[r].kind = "api" /\ Unchanged
          /\ \/ AnswersWith(r, None, 401, Nothing, Nothing)
             \/ Goes(r, [kind |-> "api", at |-> "handled", identity |-> Identity(r)])
        BY <1>7, <1>8 DEF Api, At, AnswersWith
    <2>2. CASE Goes(r, [kind |-> "api", at |-> "handled", identity |-> Identity(r)])
        <3>1. DOMAIN request' = Requests /\ Others(r) /\ Identifies(r)
            BY <2>1, <1>goes, <2>2 DEF Identifies
        <3> QED BY <1>0, <1>6, <2>1, <3>1
    <2> QED BY <1>0, <1>5, <1>6, <2>1, <2>2
<1>9. CASE ApiDone(r)
    <2>1. /\ request[r].at = "handled" /\ request[r].kind = "api" /\ Unchanged
          /\ AnswersWith(r, From(r), 200, Nothing, Nothing)
        BY <1>7, <1>9 DEF Shape, ApiDone, From, AnswersWith
    <2> QED BY <1>0, <1>5, <1>6, <2>1
<1>10. CASE BasicLogin(r)
    <2>1. /\ request[r].at = "sent" /\ request[r].kind = "login" /\ Unchanged
          /\ \/ AnswersWith(r, From(r), 200, SetSession(NewSession), Nothing)
             \/ AnswersWith(r, From(r), 401, Nothing, Nothing)
        BY <1>7, <1>10 DEF BasicLogin, From, At, AnswersWith
    <2> QED BY <1>0, <1>5, <1>6, <2>1
<1>11. CASE Logout(r)
    <2>1. /\ request[r].at = "sent" /\ request[r].kind = "logout" /\ Unchanged
          /\ \/ AnswersWith(r, None, 401, Nothing, Nothing)
             \/ AnswersWith(r, From(r), 403, Nothing, Nothing)
             \/ AnswersWith(r, From(r), 200, ClearSession, Nothing)
        BY <1>7, <1>11 DEF Logout, From, At, AnswersWith
    <2> QED BY <1>0, <1>5, <1>6, <2>1
<1>12. CASE OidcLogin(r)
    <2>1. /\ request[r].at = "sent" /\ request[r].kind = "kickoff" /\ Unchanged
          /\ \/ \E tx : AnswersWith(r, From(r), 302, Nothing, SetTx(tx))
             \/ Goes(r, Idle)
        BY <1>7, <1>12 DEF OidcLogin, From, At, AnswersWith
    <2>2. CASE Goes(r, Idle)
        <3>1. DOMAIN request' = Requests /\ Others(r) /\ Leaves(r)
            BY <1>goes, <2>2 DEF Leaves, Idle
        <3> QED BY <1>0, <1>6, <2>1, <3>1
    <2> QED BY <1>0, <1>5, <1>6, <2>1, <2>2
<1>13. CASE FollowRedirect(r)
    <2>1. \E q : Arrives(r, q) /\ q.at = "idp"
        BY <1>13 DEF FollowRedirect
    <2>2. \E q : Arrives(r, q) /\ Goes(r, q) /\ q.at = "idp"
        BY <2>1 DEF Arrives
    <2> QED BY <1>goes, <2>2
<1>14. CASE ReturnFromIdp(r)
    <2>1. \E q : Goes(r, q) /\ q.at = "sent" /\ q.cookies = Sent
        BY <1>14 DEF ReturnFromIdp
    <2>2. DOMAIN request' = Requests /\ Others(r) /\ Sends(r) /\ request'[r].at = "sent"
        BY <1>goes, <2>1 DEF Sends
    <2>3. Quiet /\ Forgets(r)
        BY <1>14, <2>2 DEF ReturnFromIdp, server, Quiet, Forgets
    <2> QED BY <1>0, <2>2, <2>3
<1>15. CASE Callback(r)
    <2>1. /\ request[r].at = "sent" /\ request[r].kind = "callback" /\ Unchanged
          /\ \/ AnswersWith(r, From(r), 302, Nothing, ClearTx)
             \/ AnswersWith(r, From(r), 400, Nothing, Nothing)
             \/ Goes(r, [kind |-> "callback", at |-> "exchange", identity |-> Identity(r),
                         provider |-> request[r].provider])
        BY <1>7, <1>15 DEF Callback, From, At, AnswersWith
    <2>2. CASE Goes(r, [kind |-> "callback", at |-> "exchange", identity |-> Identity(r),
                        provider |-> request[r].provider])
        <3>1. DOMAIN request' = Requests /\ Others(r) /\ Identifies(r)
            BY <2>1, <1>goes, <2>2 DEF Identifies
        <3> QED BY <1>0, <1>6, <2>1, <3>1
    <2> QED BY <1>0, <1>5, <1>6, <2>1, <2>2
<1>16. CASE ExchangeCode(r)
    <2>1. /\ request[r].at = "exchange" /\ request[r].kind = "callback" /\ Unchanged
          /\ \/ AnswersWith(r, From(r), 400, Nothing, Nothing)
             \/ Goes(r, [kind |-> "callback", at |-> "validate", key |-> idpKey,
                         identity |-> request[r].identity, provider |-> request[r].provider])
        BY <1>7, <1>16 DEF Shape, ExchangeCode, From, AnswersWith
    <2>2. CASE Goes(r, [kind |-> "callback", at |-> "validate", key |-> idpKey,
                        identity |-> request[r].identity, provider |-> request[r].provider])
        <3>1. DOMAIN request' = Requests /\ Others(r) /\ Validates(r)
            BY <2>1, <1>goes, <2>2 DEF Validates
        <3> QED BY <1>0, <1>6, <2>1, <3>1
    <2> QED BY <1>0, <1>5, <1>6, <2>1, <2>2
<1>17. CASE ValidateToken(r)
    <2>1. /\ request[r].at = "validate" /\ request[r].kind = "callback" /\ Unchanged
          /\ \/ AnswersWith(r, From(r), 200, SetSession(NewSession), ClearTx)
             \/ AnswersWith(r, From(r), 400, Nothing, Nothing)
        BY <1>7, <1>17 DEF Shape, ValidateToken, From, AnswersWith
    <2> QED BY <1>0, <1>5, <1>6, <2>1
<1>18. CASE Receive(r)
    <2>1. Arrives(r, Idle) /\ Goes(r, Idle) /\ Idle.at = "idle"
        BY <1>18 DEF Receive, Arrives, Idle
    <2> QED BY <1>goes, <2>1
<1> QED BY <1>1, <1>2, <1>3, <1>4, <1>8, <1>9, <1>10, <1>11, <1>12, <1>13, <1>14, <1>15, <1>16,
           <1>17, <1>18 DEF RequestNext, CompleteAuthorization

-----------------------------------------------------------------------------
(* The session. A request trusts the session it was sent with: unless it   *)
(* is an early one, or an older session came over a newer one, the jar     *)
(* still holds that session or a newer one, under the same secret. So an   *)
(* answer that needed no fresh session tells that the one in the jar has   *)
(* not passed its half-life by more than the answer took to come.          *)
Holds(t) ==
    /\ jar.session # None /\ jar.session.value.secret = secret
    /\ jar.session.value.issued >= t
Counts(r) == r \notin early /\ ~overtaken
Trusts(r, v) == v # None =>
    v.issued \in Int /\ (Counts(r) /\ v.secret = secret => Holds(v.issued))
AnswerSound(r) ==
    LET q == request[r] IN
    /\ q.minted \in Int /\ q.minted <= clock
    /\ q.set.name \in {"nothing", "session", "cleared"}
    /\ q.set.name = "session" => q.set.session = [issued |-> q.minted, secret |-> secret]
    /\ q.set.name = "cleared" <=> LogsOut(q)
    /\ LogsIn(q) => q.set.name = "session"
    /\ q.signedIn /\ Counts(r) /\ q.set.name = "nothing" => Holds(q.minted - Half)
Signed(r) ==
    /\ request[r].at = "sent" => Trusts(r, request[r].cookies.session)
    /\ request[r].at \in {"handled", "exchange", "validate"} =>
          /\ Trusts(r, request[r].identity)
          /\ request[r].identity # None => request[r].identity.secret = secret
    /\ request[r].at = "answered" => AnswerSound(r)

(* After a logout only the early requests have a session, until one of     *)
(* them brings it back.                                                    *)
Bare(r) == signedOut /\ ~revived /\ r \notin early =>
    /\ request[r].at = "sent" => request[r].cookies.session = None
    /\ request[r].at \in {"handled", "exchange", "validate"} => request[r].identity = None
    /\ request[r].at = "answered" /\ ~LogsIn(request[r]) => request[r].set.name # "session"

JarSound ==
    /\ jar.csrf = jar.session
    /\ jar.session # None =>
          /\ jar.session.value # None
          /\ jar.session.value.issued \in Int /\ jar.session.until \in Int
          /\ jar.session.until >= jar.session.value.issued + TTL
    /\ signedOut /\ ~revived => jar.session = None
AnsweredSound ==
    /\ answered \in Int
    /\ answered >= 0 /\ ~overtaken => Holds(answered - Half)
SessionInv ==
    /\ Shape /\ JarSound /\ AnsweredSound
    /\ \A r \in Requests : Signed(r) /\ Bare(r)

(* The session of a request that was just sent is the one in the jar.      *)
LEMMA SentSession ==
    ASSUME SessionInv, NEW r \in Requests
    PROVE  Trusts(r, Sent.session) /\ (signedOut /\ ~revived => Sent.session = None)
<1>1. Sent.session = IF Live(jar.session) THEN jar.session.value ELSE None
    BY DEF Sent, Value
<1>2. CASE Live(jar.session)
    <2>1. jar.session # None /\ Sent.session = jar.session.value /\ jar.session.value.issued \in Int
        BY <1>1, <1>2 DEF Live, SessionInv, JarSound
    <2>2. jar.session.value.secret = secret => Holds(jar.session.value.issued)
        BY <2>1 DEF Holds
    <2> QED BY <2>1, <2>2 DEF SessionInv, JarSound, Trusts
<1>3. CASE ~Live(jar.session)
    BY <1>1, <1>3 DEF Trusts
<1> QED BY <1>2, <1>3

(* What the server decodes of it is under its secret.                      *)
LEMMA DecodedSession ==
    ASSUME SessionInv, NEW r \in Requests, request[r].at = "sent"
    PROVE  /\ Trusts(r, Identity(r))
           /\ Identity(r) # None => Identity(r).secret = secret
           /\ Bare(r) /\ signedOut /\ ~revived /\ r \notin early => Identity(r) = None
<1>1. Identity(r) = None \/ (Identity(r) = request[r].cookies.session /\ Identity(r).secret = secret)
    BY DEF Identity, Decode
<1>2. Trusts(r, request[r].cookies.session)
    BY DEF SessionInv, Signed
<1> QED BY <1>1, <1>2 DEF Trusts, Bare

(* An answer is sound.                                                     *)
LEMMA AnsweredSession ==
    ASSUME SessionInv, NEW r \in Requests, Quiet, early' = early, Answers(r)
    PROVE  request'[r].at = "answered" /\ AnswerSound(r)' /\ Bare(r)'
<1>1. PICK identity, status, set, tx : AnswersWith(r, identity, status, set, tx)
    BY DEF Answers
<1> DEFINE again == identity # None /\ ShouldReissue(identity) /\ ~OptsOut(set)
           final == IF again THEN SetSession(NewSession) ELSE set
           q == [kind |-> request[r].kind, at |-> "answered", status |-> status,
                 set |-> final, tx |-> tx, signedIn |-> identity # None, minted |-> clock]
<1>2. Trusts(r, From(r)) /\ (From(r) # None => From(r).secret = secret)
    BY <1>1, DecodedSession DEF AnswersWith, From, SessionInv, Signed
<1>3. signedOut /\ ~revived /\ r \notin early => From(r) = None
    BY <1>1, DecodedSession DEF AnswersWith, From, SessionInv, Bare
<1>4. /\ Trusts(r, identity) /\ (identity # None => identity.secret = secret)
      /\ signedOut /\ ~revived /\ r \notin early => identity = None
    BY <1>1, <1>2, <1>3 DEF AnswersWith, Trusts
<1>5. request'[r] = q
    BY <1>1, Gone DEF AnswersWith, Answer, SessionInv, Shape
<1>6. /\ q.kind = request[r].kind /\ q.at = "answered" /\ q.status = status /\ q.set = final
      /\ q.minted = clock
    OBVIOUS
<1>7. q.signedIn <=> identity # None
    OBVIOUS
<1>8. /\ clock \in Int /\ clock' = clock /\ secret' = secret /\ jar' = jar
      /\ overtaken' = overtaken /\ signedOut' = signedOut /\ revived' = revived
    BY DEF Quiet, SessionInv, Shape
<1>9. /\ set \in {Nothing, ClearSession, SetSession(NewSession)}
      /\ set = ClearSession <=> q.kind = "logout" /\ status = 200
      /\ set = SetSession(NewSession) <=> q.kind \in {"login", "callback"} /\ status = 200
    BY <1>1, <1>6 DEF AnswersWith
<1> HIDE DEF q
<1>10. /\ final.name \in {"nothing", "session", "cleared"}
       /\ final.name = "session" => final.session = [issued |-> clock, secret |-> secret]
       /\ final.name = "cleared" <=> set = ClearSession
       /\ set = SetSession(NewSession) => final.name = "session"
       /\ final.name = "nothing" => ~again
       /\ final.name = "session" => again \/ set = SetSession(NewSession)
       /\ again => set = Nothing
    <2>1. Nothing.name = "nothing" /\ ClearSession.name = "cleared"
        BY NoneApart
    <2>2. /\ SetSession(NewSession).name = "session"
          /\ SetSession(NewSession).session = [issued |-> clock, secret |-> secret]
        BY NoneApart DEF NewSession
    <2> QED BY <1>9, <2>1, <2>2 DEF OptsOut
<1>11. identity # None /\ Counts(r) /\ final.name = "nothing" => Holds(clock - Half)
    <2> SUFFICES ASSUME identity # None, Counts(r), final.name = "nothing"
                 PROVE  Holds(clock - Half)
        OBVIOUS
    <2>1. identity.issued \in Int /\ Holds(identity.issued)
        BY <1>4 DEF Trusts
    <2>2. ~OptsOut(set)
        <3>1. set = Nothing
            BY <1>9, <1>10
        <3> QED BY <3>1, NoneApart DEF OptsOut
    <2>3. ~(clock - identity.issued > Half)
        BY <1>10, <2>2 DEF ShouldReissue
    <2>4. jar.session.value.issued \in Int
        BY <2>1 DEF Holds, SessionInv, JarSound
    <2> QED BY <1>8, <2>1, <2>3, <2>4, LoginAssumption DEF Holds
<1> HIDE DEF final, again
<1>12. AnswerSound(r)'
    <2>1. Counts(r)' <=> Counts(r)
        BY <1>8 DEF Counts
    <2>2. Holds(clock - Half)' <=> Holds(clock - Half)
        BY <1>8 DEF Holds
    <2>3. LogsOut(q) <=> set = ClearSession
        BY <1>6, <1>9 DEF LogsOut
    <2>4. LogsIn(q) => set = SetSession(NewSession)
        BY <1>6, <1>9 DEF LogsIn
    <2>5. q.signedIn /\ Counts(r)' /\ q.set.name = "nothing" => Holds(clock - Half)'
        BY <1>6, <1>7, <1>11, <2>1, <2>2
    <2> QED BY <1>5, <1>6, <1>8, <1>10, <2>3, <2>4, <2>5 DEF AnswerSound, LogsOut, LogsIn
<1>13. Bare(r)'
    <2> SUFFICES ASSUME signedOut, ~revived, r \notin early, ~LogsIn(q)
                 PROVE  q.set.name # "session"
        BY <1>5, <1>6, <1>8 DEF Bare, LogsIn
    <2>1. identity = None
        BY <1>4
    <2> QED BY <1>6, <1>9, <1>10, <2>1 DEF LogsIn, again
<1> QED BY <1>5, <1>6, <1>12, <1>13

(* A session that is not in the state any more is not asked about.         *)
LEMMA Elsewhere ==
    ASSUME NEW r \in Requests,
           request'[r].at \notin {"sent", "handled", "exchange", "validate", "answered"}
    PROVE  Signed(r)' /\ Bare(r)'
BY DEF Signed, Bare

(* The other requests do not notice what the server does with one.         *)
LEMMA OthersKept ==
    ASSUME SessionInv, NEW r \in Requests, Others(r), NEW s \in Requests \ {r},
           UNCHANGED <<clock, secret, jar.session, overtaken, signedOut, revived>>,
           early' = early \/ early' = early \ {r}
    PROVE  Signed(s)' /\ Bare(s)'
<1>1. request'[s] = request[s] /\ (s \in early' <=> s \in early)
    BY DEF Others
<1>2. Signed(s) /\ Bare(s)
    BY DEF SessionInv
<1>3. /\ Counts(s)' <=> Counts(s)
      /\ \A t : Holds(t)' <=> Holds(t)
    BY <1>1 DEF Counts, Holds
<1>4. \A v : Trusts(s, v) => Trusts(s, v)'
    BY <1>3 DEF Trusts
<1>5. AnswerSound(s) => AnswerSound(s)'
    BY <1>1, <1>3 DEF AnswerSound, LogsIn, LogsOut
<1>6. Signed(s)'
    BY <1>1, <1>2, <1>4, <1>5 DEF Signed
<1>7. Bare(s)'
    BY <1>1, <1>2 DEF Bare, LogsIn
<1> QED BY <1>6, <1>7

(* Serving a request keeps the invariant of the session.                   *)
LEMMA ServesStep ==
    ASSUME SessionInv, NEW r \in Requests, DOMAIN request' = Requests, Others(r), Serves(r)
    PROVE  SessionInv'
<1>1. /\ UNCHANGED <<clock, secret, jar, answered, overtaken, signedOut, revived>>
      /\ early' = early \/ early' = early \ {r}
    BY DEF Serves, Quiet, Forgets
<1>2. JarSound' /\ AnsweredSound'
    BY <1>1 DEF SessionInv, JarSound, AnsweredSound, Holds
<1>3. \A s \in Requests \ {r} : Signed(s)' /\ Bare(s)'
    BY <1>1, OthersKept
<1>4. ASSUME NEW v, Trusts(r, v), early' = early
      PROVE  Trusts(r, v)'
    BY <1>1, <1>4 DEF Trusts, Counts, Holds
<1>5. ASSUME Signed(r)', Bare(r)', request'[r].at \in {"exchange", "validate"} => request'[r].kind = "callback",
             request'[r].at = "handled" => request'[r].kind = "api"
      PROVE  SessionInv'
    <2>1. Shape'
        BY <1>1, <1>5 DEF SessionInv, Shape, Others
    <2> QED BY <1>2, <1>3, <1>5, <2>1 DEF SessionInv
<1>6. CASE Leaves(r)
    <2>1. request'[r].at \notin {"sent", "handled", "exchange", "validate", "answered"}
        BY <1>6 DEF Leaves
    <2> QED BY <1>5, <2>1, Elsewhere
<1>7. CASE Sends(r)
    <2>1. Sent.session = None \/ (Sent.session.issued \in Int /\
              (~overtaken /\ Sent.session.secret = secret => Holds(Sent.session.issued)))
        <3>1. CASE Live(jar.session)
            <4>1. /\ jar.session # None /\ Sent.session = jar.session.value
                  /\ jar.session.value.issued \in Int
                BY <3>1 DEF Live, SessionInv, JarSound, Sent, Value
            <4> QED BY <4>1 DEF Holds
        <3>2. CASE ~Live(jar.session)
            BY <3>2 DEF Sent, Value
        <3> QED BY <3>1, <3>2
    <2>2. request'[r].at = "sent" /\ request'[r].cookies = Sent
        BY <1>7 DEF Sends
    <2> PICK v : v = Sent.session
        OBVIOUS
    <2>3. request'[r].cookies.session = v
        BY <2>2
    <2>4. Trusts(r, v)'
        BY <1>1, <2>1 DEF Trusts, Counts, Holds
    <2>5. Signed(r)'
        BY <2>2, <2>3, <2>4 DEF Signed, Trusts
    <2>6. signedOut /\ ~revived => v = None
        BY SentSession
    <2>7. Bare(r)'
        BY <1>1, <2>2, <2>3, <2>6 DEF Bare
    <2> QED BY <1>5, <2>2, <2>5, <2>7
<1>8. CASE Identifies(r)
    <2>1. /\ request'[r].at \in {"handled", "exchange"} /\ request'[r].identity = Identity(r)
          /\ request[r].at = "sent" /\ early' = early
        BY <1>8 DEF Identifies, Serves, Forgets
    <2> PICK v : v = Identity(r)
        OBVIOUS
    <2>2. /\ Trusts(r, v) /\ (v # None => v.secret = secret)
          /\ signedOut /\ ~revived /\ r \notin early => v = None
        BY <2>1, DecodedSession DEF SessionInv
    <2>3. Trusts(r, v)'
        BY <1>4, <2>1, <2>2
    <2>4. request'[r].identity = v
        BY <2>1
    <2>5. Signed(r)' /\ Bare(r)'
        BY <1>1, <2>1, <2>2, <2>3, <2>4 DEF Signed, Bare, Trusts
    <2> QED BY <1>5, <1>8, <2>5 DEF Identifies
<1>9. CASE Validates(r)
    <2>1. /\ request'[r].at = "validate" /\ request'[r].identity = request[r].identity
          /\ request[r].at = "exchange" /\ early' = early
        BY <1>9 DEF Validates, Serves, Forgets
    <2> PICK v : v = request[r].identity
        OBVIOUS
    <2>2. /\ Trusts(r, v) /\ (v # None => v.secret = secret)
          /\ signedOut /\ ~revived /\ r \notin early => v = None
        BY <2>1 DEF SessionInv, Signed, Bare
    <2>3. request'[r].identity = v
        BY <2>1
    <2>4. Trusts(r, v)'
        BY <1>4, <2>1, <2>2
    <2>5. Signed(r)' /\ Bare(r)'
        BY <1>1, <2>1, <2>2, <2>3, <2>4 DEF Signed, Bare, Trusts
    <2> QED BY <1>5, <1>9, <2>5 DEF Validates
<1>10. CASE Answers(r)
    <2>1. request'[r].at = "answered"
        BY <1>10, Gone DEF Answers, AnswersWith, Answer, SessionInv, Shape
    <2>2. early' = early
        BY <2>1 DEF Serves, Forgets
    <2>3. Signed(r)' /\ Bare(r)'
        BY <1>10, <2>1, <2>2, AnsweredSession DEF Serves, Signed
    <2> QED BY <1>5, <2>1, <2>3
<1> QED BY <1>6, <1>7, <1>8, <1>9, <1>10 DEF Serves

(* A response that arrives keeps it: its cookie is newer than the jar's,   *)
(* or an older session came over a newer one.                              *)
LEMMA ReceiveStep ==
    ASSUME SessionInv, NEW r \in Requests, DOMAIN request' = Requests, Others(r),
           NEW next, Arrives(r, next), request'[r].at \in {"idle", "idp"}
    PROVE  SessionInv'
<1> DEFINE older == /\ request[r].set.name = "session" /\ jar.session # None
                    /\ request[r].set.session.issued < jar.session.value.issued
<1> PICK q : q = request[r]
    OBVIOUS
<1>1. UNCHANGED <<clock, secret>>
    BY DEF Arrives, server
<1>2. /\ q.at = "answered" /\ Bare(r)
      /\ q.minted \in Int /\ q.minted <= clock
      /\ q.set.name \in {"nothing", "session", "cleared"}
      /\ q.set.name = "session" => q.set.session = [issued |-> q.minted, secret |-> secret]
      /\ q.set.name = "cleared" <=> LogsOut(q)
      /\ LogsIn(q) => q.set.name = "session"
      /\ q.signedIn /\ Counts(r) /\ q.set.name = "nothing" => Holds(q.minted - Half)
    BY DEF Arrives, SessionInv, Signed, AnswerSound
<1>3. /\ answered' = IF LogsOut(q) THEN -1
                     ELSE IF (LogsIn(q) \/ (q.signedIn /\ r \notin early))
                             /\ q.minted > answered THEN q.minted ELSE answered
      /\ overtaken' = (older \/ (overtaken /\ ~(LogsIn(q) /\ q.minted >= answered)))
      /\ signedOut' = (LogsOut(q) \/ (signedOut /\ ~LogsIn(q)))
      /\ revived' = IF LogsOut(q) \/ LogsIn(q) THEN FALSE
                    ELSE revived \/ (signedOut /\ r \in early /\ q.set.name = "session")
      /\ early' = IF LogsOut(q) \/ LogsIn(q) THEN InFlight \ {r} ELSE early \ {r}
    BY DEF Arrives, Remember
<1>4. /\ DOMAIN jar' = {"session", "csrf", "tx"}
      /\ jar'.session = IF q.set.name = "session" THEN Cookie(q.set.session, TTL)
                        ELSE IF q.set.name = "cleared" THEN None ELSE jar.session
      /\ jar'.csrf = IF q.set.name = "session" THEN Cookie(q.set.session, TTL)
                     ELSE IF q.set.name = "cleared" THEN None ELSE jar.csrf
    BY DEF Arrives, Stored
<1>5. ASSUME q.set.name = "session"
      PROVE  /\ jar'.session # None /\ jar'.session = Cookie(q.set.session, TTL)
             /\ jar'.session.value.issued = q.minted /\ jar'.session.value.secret = secret
             /\ jar'.session.until = clock + TTL /\ jar'.session.value # None
    <2>1. jar'.session = Cookie(q.set.session, TTL)
        BY <1>4, <1>5
    <2>2. "issued" \in DOMAIN q.set.session /\ "issued" \notin DOMAIN None
        BY <1>2, <1>5 DEF None
    <2> QED BY <1>2, <1>5, <2>1, <2>2, NoneApart DEF Cookie
<1>6. /\ older => overtaken'
      /\ older <=> /\ q.set.name = "session" /\ jar.session # None
                   /\ q.minted < jar.session.value.issued
    <2>1. older <=> /\ q.set.name = "session" /\ jar.session # None
                    /\ q.minted < jar.session.value.issued
        BY <1>2
    <2> HIDE DEF older
    <2>2. older => overtaken'
        BY <1>3, Zenon
    <2> QED BY <2>1, <2>2
<1>7. LogsIn(q) => ~LogsOut(q)
    BY DEF LogsIn, LogsOut
<1> HIDE DEF older
<1>8. clock \in Int /\ Half \in Int /\ TTL \in Int /\ answered \in Int
    BY LoginAssumption DEF TTL, SessionInv, Shape, AnsweredSound
<1>9. JarSound
    BY DEF SessionInv
<1>10. JarSound'
    <2>1. jar'.csrf = jar'.session
        BY <1>4, <1>9 DEF JarSound
    <2>2. jar'.session # None =>
             /\ jar'.session.value # None
             /\ jar'.session.value.issued \in Int /\ jar'.session.until \in Int
             /\ jar'.session.until >= jar'.session.value.issued + TTL
        <3>1. CASE q.set.name = "session"
            BY <1>2, <1>5, <1>8, <3>1
        <3>2. CASE q.set.name # "session"
            BY <1>4, <1>9, <3>2 DEF JarSound
        <3> QED BY <3>1, <3>2
    <2>3. signedOut' /\ ~revived' => jar'.session = None
        <3>1. CASE LogsOut(q)
            BY <1>2, <1>4, <3>1
        <3>2. CASE LogsIn(q)
            BY <1>3, <1>7, <3>2
        <3>3. CASE ~LogsOut(q) /\ ~LogsIn(q)
            <4> SUFFICES ASSUME signedOut, ~revived, ~(r \in early /\ q.set.name = "session")
                         PROVE  jar'.session = None
                BY <1>3, <3>3
            <4>1. q.set.name # "session"
                BY <1>2, <3>3 DEF Bare
            <4> QED BY <1>4, <1>9, <4>1 DEF JarSound
        <3> QED BY <3>1, <3>2, <3>3
    <2> QED BY <2>1, <2>2, <2>3 DEF JarSound
<1>11. ASSUME NEW t \in Int, ~older, ~LogsOut(q), Holds(t)
       PROVE  Holds(t)'
    <2>1. jar.session.value.issued \in Int
        BY <1>9, <1>11 DEF Holds, JarSound
    <2>2. CASE q.set.name = "session"
        BY <1>1, <1>2, <1>5, <1>6, <1>11, <2>1, <2>2 DEF Holds
    <2>3. CASE q.set.name # "session"
        BY <1>1, <1>2, <1>4, <1>11, <2>3 DEF Holds
    <2> QED BY <2>2, <2>3
<1>12. ASSUME NEW t \in Int, q.set.name = "session", q.minted >= t
       PROVE  Holds(t)'
    BY <1>1, <1>5, <1>12 DEF Holds
<1>13. AnsweredSound'
    <2>1. answered' \in Int
        BY <1>2, <1>3, <1>8
    <2>2. ASSUME answered' >= 0, ~overtaken'
          PROVE  Holds(answered - Half)'
        <3>1. ~older /\ ~LogsOut(q)
            BY <1>3, <1>6, <2>2
        <3>2. answered >= 0 /\ ~overtaken => Holds(answered - Half)
            BY DEF SessionInv, AnsweredSound
        <3> PICK a : a = answered'
            OBVIOUS
        <3> SUFFICES Holds(a - Half)'
            OBVIOUS
        <3>3. CASE LogsIn(q)
            <4>1. q.set.name = "session" /\ (overtaken => q.minted >= answered)
                BY <1>2, <1>3, <2>2, <3>3
            <4>2. a = IF q.minted > answered THEN q.minted ELSE answered
                BY <1>3, <3>1, <3>3
            <4>3. CASE q.minted >= answered
                <5>1. a = q.minted /\ a - Half \in Int /\ q.minted >= a - Half
                    BY <1>2, <1>8, <4>2, <4>3, LoginAssumption
                <5> QED BY <1>12, <4>1, <5>1
            <4>4. CASE ~(q.minted >= answered)
                <5>1. a = answered /\ a - Half \in Int /\ ~overtaken /\ a >= 0
                    BY <1>2, <1>8, <2>2, <4>1, <4>2, <4>4
                <5> QED BY <1>11, <3>1, <3>2, <5>1
            <4> QED BY <4>3, <4>4
        <3>4. CASE ~LogsIn(q)
            <4>0. ~overtaken
                BY <1>3, <2>2, <3>4, Zenon
            <4>1. ~overtaken /\ a - Half \in Int
                BY <1>8, <2>1, <4>0
            <4>2. CASE a = answered
                BY <1>11, <2>2, <3>1, <3>2, <4>1, <4>2
            <4>3. CASE a # answered
                <5>1. a = q.minted /\ q.signedIn /\ r \notin early
                    BY <1>3, <3>1, <3>4, <4>3
                <5>2. Counts(r)
                    BY <4>1, <5>1 DEF Counts
                <5>3. CASE q.set.name = "session"
                    <6>1. q.minted >= a - Half
                        BY <1>2, <1>8, <5>1, LoginAssumption
                    <6> QED BY <1>12, <4>1, <5>3, <6>1
                <5>4. CASE q.set.name = "nothing"
                    BY <1>2, <1>11, <3>1, <4>1, <5>1, <5>2, <5>4
                <5> QED BY <1>2, <3>1, <5>3, <5>4
            <4> QED BY <4>2, <4>3
        <3> QED BY <3>3, <3>4
    <2> QED BY <2>1, <2>2 DEF AnsweredSound
<1>14. Shape'
    BY <1>1, <1>4 DEF SessionInv, Shape, Others
<1>15. Signed(r)' /\ Bare(r)'
    BY Elsewhere
<1>16. ASSUME NEW s \in Requests \ {r}
       PROVE  Signed(s)' /\ Bare(s)'
    <2>1. request'[s] = request[s] /\ Signed(s) /\ Bare(s)
        BY DEF Others, SessionInv
    <2>2. CASE s \notin InFlight
        BY <2>1, <2>2, Elsewhere DEF InFlight
    <2>3. CASE s \in InFlight /\ (LogsOut(q) \/ LogsIn(q))
        <3>1. s \in early'
            BY <1>3, <2>3
        <3>2. \A v : Trusts(s, v) => Trusts(s, v)'
            BY <3>1 DEF Trusts, Counts
        <3>3. AnswerSound(s) => AnswerSound(s)'
            BY <1>1, <2>1, <3>1 DEF AnswerSound, Counts, LogsIn, LogsOut
        <3> QED BY <1>1, <2>1, <3>1, <3>2, <3>3 DEF Signed, Bare
    <2>4. CASE ~LogsOut(q) /\ ~LogsIn(q)
        <3>1. s \in early' <=> s \in early
            BY <1>3, <2>4
        <3>2. Counts(s)' => Counts(s) /\ ~older
            BY <1>3, <1>6, <2>4, <3>1 DEF Counts
        <3>3. \A t \in Int : Counts(s)' /\ Holds(t) => Holds(t)'
            BY <1>11, <2>4, <3>2
        <3>4. \A v : Trusts(s, v) => Trusts(s, v)'
            BY <1>1, <3>2, <3>3 DEF Trusts
        <3>5. ASSUME AnswerSound(s)
              PROVE  AnswerSound(s)'
            <4> PICK p : p = request[s]
                OBVIOUS
            <4>1. p.minted - Half \in Int
                BY <1>8, <3>5 DEF AnswerSound
            <4>2. p.signedIn /\ Counts(s)' /\ p.set.name = "nothing" => Holds(p.minted - Half)'
                BY <3>2, <3>3, <3>5, <4>1 DEF AnswerSound
            <4> QED BY <1>1, <2>1, <3>5, <4>2 DEF AnswerSound, LogsIn, LogsOut
        <3>6. Signed(s)'
            BY <1>1, <2>1, <3>4, <3>5 DEF Signed
        <3>7. signedOut' /\ ~revived' => signedOut /\ ~revived
            BY <1>3, <2>4
        <3>8. Bare(s)'
            BY <2>1, <3>1, <3>7 DEF Bare, LogsIn
        <3> QED BY <3>6, <3>8
    <2> QED BY <2>2, <2>3, <2>4
<1> QED BY <1>10, <1>13, <1>14, <1>15, <1>16 DEF SessionInv

(* A restart breaks off what was in flight, under a new secret or not.     *)
LEMMA RestartStep ==
    ASSUME SessionInv, Restart
    PROVE  SessionInv'
<1>1. /\ UNCHANGED <<clock, jar, overtaken, signedOut, revived>>
      /\ request' = [r \in Requests |-> IF r \in InFlight THEN Idle ELSE request[r]]
      /\ answered' = IF secret' = secret THEN answered ELSE -1
    BY DEF Restart
<1>2. \A r \in Requests :
        request'[r].at \notin {"sent", "handled", "exchange", "validate", "answered"}
            \/ (r \notin InFlight /\ request'[r] = request[r])
    BY <1>1 DEF Idle
<1>3. ASSUME NEW r \in Requests
      PROVE  request'[r].at \notin {"sent", "handled", "exchange", "validate"}
    <2>1. CASE r \in InFlight
        BY <1>1, <2>1 DEF Idle
    <2>2. CASE r \notin InFlight
        BY <1>1, <2>2 DEF InFlight, SessionInv, Signed, Shape
    <2> QED BY <2>1, <2>2
<1>4. ASSUME NEW r \in Requests
      PROVE  request'[r].at # "answered"
    <2>1. CASE r \in InFlight
        BY <1>1, <2>1 DEF Idle
    <2>2. CASE r \notin InFlight
        BY <1>1, <2>2 DEF InFlight
    <2> QED BY <2>1, <2>2
<1>5. \A r \in Requests : Signed(r)' /\ Bare(r)'
    BY <1>3, <1>4, Elsewhere
<1>6. Shape'
    BY <1>1, <1>3 DEF SessionInv, Shape
<1>7. JarSound'
    BY <1>1 DEF SessionInv, JarSound
<1>8. AnsweredSound'
    <2>1. CASE secret' = secret
        BY <1>1, <2>1 DEF SessionInv, AnsweredSound, Holds
    <2>2. CASE secret' # secret
        <3>1. answered' = -1
            BY <1>1, <2>2
        <3> QED BY <3>1 DEF AnsweredSound
    <2> QED BY <2>1, <2>2
<1> QED BY <1>5, <1>6, <1>7, <1>8 DEF SessionInv

(* Every step keeps the invariant of the session.                          *)
LEMMA SessionStep == SessionInv /\ [Next]_vars => SessionInv'
<1> SUFFICES ASSUME SessionInv, [Next]_vars
             PROVE  SessionInv'
    OBVIOUS
<1>1. ASSUME NEW r \in Requests, RequestNext(r)
      PROVE  SessionInv'
    <2>1. /\ DOMAIN request' = Requests /\ Others(r)
          /\ \/ Serves(r)
             \/ \E next : Arrives(r, next) /\ request'[r].at \in {"idle", "idp"}
        BY <1>1, Kinds DEF SessionInv
    <2> QED BY <2>1, ServesStep, ReceiveStep
<1>2. CASE Tick \/ RotateKey \/ UNCHANGED vars
    <2>1. /\ UNCHANGED <<secret, jar, answered, overtaken, signedOut, revived, early, request>>
          /\ clock' = clock \/ clock' = clock + 1
        BY <1>2 DEF Tick, RotateKey, vars, server, browser
    <2>2. clock' \in Int /\ clock \in Int /\ clock <= clock'
        BY <2>1 DEF SessionInv, Shape
    <2>3. \A t : Holds(t)' <=> Holds(t)
        BY <2>1 DEF Holds
    <2>4. ASSUME NEW r \in Requests
          PROVE  Signed(r)' /\ Bare(r)'
        <3>1. Signed(r) /\ Bare(r)
            BY DEF SessionInv
        <3>2. \A v : Trusts(r, v) => Trusts(r, v)'
            BY <2>1, <2>3 DEF Trusts, Counts
        <3>3. AnswerSound(r) => AnswerSound(r)'
            BY <2>1, <2>2, <2>3 DEF AnswerSound, Counts, LogsIn, LogsOut
        <3> QED BY <2>1, <3>1, <3>2, <3>3 DEF Signed, Bare, LogsIn
    <2> QED BY <2>1, <2>2, <2>3, <2>4 DEF SessionInv, Shape, JarSound, AnsweredSound
<1> QED BY <1>1, <1>2, RestartStep DEF Next

(* It holds at the start.                                                  *)
LEMMA SessionInit == Init => SessionInv
<1> SUFFICES ASSUME Init
             PROVE  SessionInv
    OBVIOUS
<1>1. \A r \in Requests : request[r] = Idle /\ request[r].at = "idle"
    BY DEF Init, Idle
<1>2. jar = [session |-> None, csrf |-> None, tx |-> None] /\ answered = -1 /\ clock = 0
    BY DEF Init
<1>3. DOMAIN request = Requests
    BY DEF Init
<1>4. Shape /\ JarSound /\ AnsweredSound
    BY <1>1, <1>2, <1>3 DEF Shape, JarSound, AnsweredSound
<1> QED BY <1>1, <1>4 DEF SessionInv, Signed, Bare

(* In every reachable state: who had a signed-in answer stays signed in    *)
(* for another half-life, unless an older session came over a newer one.   *)
THEOREM UserStaysSignedIn == Spec => []StaysSignedIn
<1>1. SessionInv => StaysSignedIn
    <2> SUFFICES ASSUME SessionInv, answered >= 0, ~overtaken, clock < answered + Half
                 PROVE  /\ Live(jar.session) /\ Decode(jar.session.value) # None
                        /\ jar.csrf = jar.session
        BY DEF StaysSignedIn
    <2>1. /\ jar.session # None /\ jar.session.value.secret = secret
          /\ jar.session.value.issued >= answered - Half
        BY DEF SessionInv, AnsweredSound, Holds
    <2>2. /\ jar.csrf = jar.session /\ jar.session.value # None
          /\ jar.session.value.issued \in Int /\ jar.session.until \in Int
          /\ jar.session.until >= jar.session.value.issued + TTL
          /\ clock \in Int /\ answered \in Int
        BY <2>1 DEF SessionInv, JarSound, Shape, AnsweredSound
    <2>3. Half \in Nat /\ TTL = 2 * Half
        BY LoginAssumption DEF TTL
    <2>4. clock < jar.session.until /\ clock - jar.session.value.issued <= TTL
        BY <2>1, <2>2, <2>3
    <2> QED BY <2>1, <2>2, <2>4 DEF Live, Decode
<1> QED BY <1>1, SessionInit, SessionStep, PTL DEF Spec

(* In every reachable state: a session that is there after a logout was    *)
(* brought back by a request that had been sent before it.                 *)
THEOREM LogoutAlwaysHolds == Spec => []LogoutHolds
<1>1. SessionInv => LogoutHolds
    BY DEF SessionInv, JarSound, LogoutHolds
<1> QED BY <1>1, SessionInit, SessionStep, PTL DEF Spec

-----------------------------------------------------------------------------
(* The login at the identity provider. While nothing excuses a login, the  *)
(* tx cookie in the jar, and then in its callback, is its own and under    *)
(* the secret of the server, and the provider has not changed the key of   *)
(* its token.                                                              *)
Own(tx, q) ==
    /\ tx # None /\ tx.secret = secret /\ tx.signed \in Int
    /\ tx.kickoff = q.kickoff /\ tx.provider = q.provider
OnCourse(r) ==
    LET q == request[r] IN
    /\ Redirects(r) => q.tx.tx # None /\ q.tx.tx.secret = secret /\ q.tx.tx.signed \in Int
    /\ q.at = "idp" => /\ jar.tx # None /\ Own(jar.tx.value, q)
                       /\ jar.tx.until = q.since + TxTTL
    /\ q.at = "sent" /\ q.kind = "callback" /\ ~q.refused => Own(q.cookies.tx, q)
    /\ q.at = "validate" => q.key = idpKey
    /\ q.at = "answered" /\ q.kind = "callback" => q.status # 400
LoginInv == Shape /\ \A r \in Requests : r \notin excuse => OnCourse(r)

(* A login that stays where it is stays on course.                         *)
LEMMA StillOnCourse ==
    ASSUME NEW s \in Requests, OnCourse(s), request'[s] = request[s],
           secret' = secret, idpKey' = idpKey \/ request[s].at # "validate",
           jar'.tx = jar.tx \/ request[s].at # "idp"
    PROVE  OnCourse(s)'
BY DEF OnCourse, Own, Redirects

(* A request that is no login, or none yet, is on course.                  *)
LEMMA NoLogin ==
    ASSUME NEW r \in Requests,
           \/ request'[r].at \in {"idle", "composed", "handled", "exchange"}
           \/ request'[r].at = "sent" /\ request'[r].kind # "callback"
    PROVE  OnCourse(r)'
BY DEF OnCourse, Redirects

(* An answer to another request than a callback, or another one than 400.  *)
LEMMA NotRefused ==
    ASSUME Shape, NEW r \in Requests, NEW identity, NEW status, NEW set, NEW tx,
           Answer(r, identity, status, set, tx), request[r].kind # "callback" \/ status # 400,
           tx.name = "tx" => tx.tx # None /\ tx.tx.secret = secret' /\ tx.tx.signed \in Int
    PROVE  Others(r) /\ OnCourse(r)'
<1> DEFINE again == identity # None /\ ShouldReissue(identity) /\ ~OptsOut(set)
           final == IF again THEN SetSession(NewSession) ELSE set
           q == [kind |-> request[r].kind, at |-> "answered", status |-> status,
                 set |-> final, tx |-> tx, signedIn |-> identity # None, minted |-> clock]
<1>1. Goes(r, q)
    BY DEF Answer
<1>2. q.at = "answered" /\ q.kind = request[r].kind /\ q.status = status /\ q.tx = tx
    OBVIOUS
<1> HIDE DEF q
<1>3. Others(r) /\ request'[r] = q
    BY <1>1, Gone DEF Shape
<1> QED BY <1>2, <1>3 DEF OnCourse, Redirects

(* Every step of one request.                                              *)
LEMMA CourseStep ==
    ASSUME LoginInv, NEW r \in Requests, RequestNext(r)
    PROVE  \A s \in Requests : s \notin excuse' => OnCourse(s)'
<1>0. Shape /\ DOMAIN request = Requests /\ DOMAIN jar = {"session", "csrf", "tx"}
    BY DEF LoginInv, Shape
<1>1. ASSUME NEW q, Goes(r, q)
      PROVE  request'[r] = q /\ Others(r)
    BY <1>0, <1>1, Gone
<1>2. ASSUME Others(r), r \notin excuse' => OnCourse(r)', UNCHANGED <<secret, idpKey, jar>>,
             \A s \in Requests \ {r} : s \notin excuse' => s \notin excuse
      PROVE  \A s \in Requests : s \notin excuse' => OnCourse(s)'
    <2>1. ASSUME NEW s \in Requests \ {r}, s \notin excuse'
          PROVE  OnCourse(s)'
        BY <1>2, <2>1, StillOnCourse DEF LoginInv, Others
    <2> QED BY <1>2, <2>1
<1>3. Unchanged => UNCHANGED <<secret, idpKey, jar>>
    BY DEF Unchanged
<1>4. r \notin excuse => OnCourse(r)
    BY DEF LoginInv
<1>5. CASE Send(r)
    <2>1. /\ \E kind \in {"api", "login"} : Goes(r, NewRequest(kind))
          /\ UNCHANGED <<secret, idpKey, jar, excuse>>
        BY <1>5 DEF Send, Sending, server
    <2>2. Others(r) /\ OnCourse(r)'
        BY <1>1, <2>1, NoLogin DEF NewRequest
    <2> QED BY <1>2, <2>1, <2>2
<1>6. CASE ComposeLogout(r)
    <2>1. /\ \E q : Goes(r, q) /\ q.at = "composed"
          /\ UNCHANGED <<secret, idpKey, jar, excuse>>
        BY <1>6 DEF ComposeLogout, Sending, server
    <2> QED BY <1>1, <1>2, <2>1, NoLogin
<1>7. CASE PostLogout(r) \/ Kickoff(r)
    <2>1. /\ \E q : Goes(r, q) /\ q.at = "sent" /\ q.kind \in {"logout", "kickoff"}
          /\ UNCHANGED <<secret, idpKey, jar, excuse>>
        <3>1. CASE PostLogout(r)
            BY <3>1 DEF PostLogout, server
        <3>2. CASE Kickoff(r)
            BY <3>2 DEF Kickoff, Sending, server
        <3> QED BY <1>7, <3>1, <3>2
    <2> QED BY <1>1, <1>2, <2>1, NoLogin
<1>8. CASE Api(r) \/ ApiDone(r) \/ BasicLogin(r) \/ Logout(r)
    <2>1. UNCHANGED <<secret, idpKey, jar, excuse>>
        BY <1>3, <1>8 DEF Api, ApiDone, BasicLogin, Logout
    <2>2. request[r].kind # "callback"
        BY <1>0, <1>8 DEF Api, ApiDone, BasicLogin, Logout, At, Shape
    <2>3. \/ \E identity, status, set : Answer(r, identity, status, set, Nothing)
          \/ \E q : Goes(r, q) /\ q.at = "handled"
        BY <1>8 DEF Api, ApiDone, BasicLogin, Logout
    <2>4. Others(r) /\ OnCourse(r)'
        BY <1>0, <1>1, <2>2, <2>3, NoLogin, NotRefused, NoneApart
    <2> QED BY <1>2, <2>1, <2>4
<1>9. CASE OidcLogin(r)
    <2> DEFINE tx == [kickoff |-> kickoffs + 1, provider |-> request[r].provider,
                      signed |-> clock, secret |-> secret]
    <2>1. /\ UNCHANGED <<secret, idpKey, jar>> /\ excuse' \in {excuse, excuse \ {r}}
          /\ Answer(r, Identity(r), 302, Nothing, SetTx(tx)) \/ Goes(r, Idle)
        BY <1>3, <1>9 DEF OidcLogin
    <2>2. tx # None /\ tx.secret = secret /\ tx.signed \in Int
        <3>1. "secret" \in DOMAIN tx /\ "secret" \notin DOMAIN None
            BY DEF None
        <3>2. clock \in Int
            BY <1>0 DEF Shape
        <3> QED BY <3>1, <3>2
    <2> HIDE DEF tx
    <2>3. Others(r) /\ OnCourse(r)'
        <3>1. SetTx(tx).tx = tx
            BY NoneApart
        <3>2. CASE Answer(r, Identity(r), 302, Nothing, SetTx(tx))
            BY <1>0, <2>1, <2>2, <3>1, <3>2, NotRefused
        <3>3. CASE Goes(r, Idle)
            BY <1>1, <3>3, NoLogin DEF Idle
        <3> QED BY <2>1, <3>2, <3>3
    <2> QED BY <1>2, <2>1, <2>3
<1>10. CASE FollowRedirect(r)
    <2> DEFINE tx == request[r].tx.tx
               q == [at |-> "idp", kickoff |-> tx.kickoff, provider |-> tx.provider,
                     since |-> clock]
    <2>1. /\ Redirects(r) /\ Goes(r, q) /\ request[r].tx.name = "tx"
          /\ jar' = Stored(request[r].set, request[r].tx)
          /\ excuse' = excuse \cup (Logins \ {r}) /\ UNCHANGED <<secret, idpKey, clock>>
        BY <1>10 DEF FollowRedirect, Redirects, Arrives, server
    <2>2. /\ jar'.tx = Cookie(tx, TxTTL) /\ jar'.tx # None
          /\ jar'.tx.value = tx /\ jar'.tx.until = clock + TxTTL
        BY <2>1, NoneApart DEF Cookie, Stored
    <2>3. request'[r] = q /\ Others(r)
        BY <1>1, <2>1
    <2>4. ASSUME r \notin excuse'
          PROVE  OnCourse(r)'
        <3>1. tx # None /\ tx.secret = secret /\ tx.signed \in Int
            BY <1>4, <2>1, <2>4 DEF OnCourse
        <3>2. /\ q.at = "idp" /\ q.kickoff = tx.kickoff
              /\ q.provider = tx.provider /\ q.since = clock
            OBVIOUS
        <3> HIDE DEF q, tx
        <3> QED BY <2>1, <2>2, <2>3, <3>1, <3>2 DEF OnCourse, Own, Redirects
    <2>5. ASSUME NEW s \in Requests \ {r}, s \notin excuse'
          PROVE  OnCourse(s)'
        <3>1. s \notin excuse /\ request[s].at # "idp"
            BY <2>1, <2>5 DEF Logins
        <3> QED BY <2>1, <2>3, <3>1, StillOnCourse DEF LoginInv, Others
    <2> QED BY <2>4, <2>5
<1>11. CASE ReturnFromIdp(r)
    <2>1. PICK refused : Goes(r, [kind |-> "callback", at |-> "sent", cookies |-> Sent,
              refused |-> refused, provider |-> request[r].provider,
              kickoff |-> request[r].kickoff])
        BY <1>11 DEF ReturnFromIdp
    <2>2. /\ UNCHANGED <<secret, idpKey, jar, clock>> /\ request[r].at = "idp"
          /\ excuse' = IF clock < request[r].since + TxTTL THEN excuse ELSE excuse \cup {r}
        BY <1>11 DEF ReturnFromIdp, server
    <2>3. /\ request'[r].at = "sent" /\ request'[r].cookies.tx = Sent.tx
          /\ request'[r].provider = request[r].provider /\ request'[r].kickoff = request[r].kickoff
          /\ Others(r)
        BY <1>1, <2>1
    <2>4. ASSUME r \notin excuse'
          PROVE  OnCourse(r)'
        <3>1. clock < request[r].since + TxTTL /\ r \notin excuse
            BY <2>2, <2>4
        <3>2. /\ jar.tx # None /\ Own(jar.tx.value, request[r])
              /\ jar.tx.until = request[r].since + TxTTL
            BY <1>4, <2>2, <3>1 DEF OnCourse
        <3>3. Sent.tx = jar.tx.value
            BY <3>1, <3>2 DEF Sent, Value, Live
        <3> QED BY <2>2, <2>3, <3>2, <3>3 DEF OnCourse, Own, Redirects
    <2>5. \A s \in Requests \ {r} : s \notin excuse' => s \notin excuse
        BY <2>2
    <2> QED BY <1>2, <2>2, <2>3, <2>4, <2>5
<1>12. CASE Callback(r)
    <2>1. /\ UNCHANGED <<secret, idpKey, jar>> /\ At(r, "callback")
          /\ excuse' = IF request[r].refused THEN excuse ELSE Late(r)
        BY <1>3, <1>12 DEF Callback
    <2>2. \A s \in Requests \ {r} : s \notin excuse' => s \notin excuse
        BY <2>1 DEF Late
    <2>3. CASE Answer(r, Identity(r), 302, Nothing, ClearTx)
        BY <1>0, <1>2, <2>1, <2>2, <2>3, NotRefused, NoneApart
    <2>4. CASE /\ ~request[r].refused /\ ~TxIsRight(request[r])
               /\ Answer(r, Identity(r), 400, Nothing, Nothing)
        <3>1. r \in excuse'
            <4> SUFFICES ASSUME r \notin excuse'
                         PROVE  FALSE
                OBVIOUS
            <4>1. /\ r \notin excuse
                  /\ ~(request[r].cookies.tx # None /\ clock - request[r].cookies.tx.signed > TxTTL)
                BY <2>1, <2>4 DEF Late
            <4>2. Own(request[r].cookies.tx, request[r])
                BY <1>4, <2>1, <2>4, <4>1 DEF OnCourse, At
            <4>3. ~(clock - request[r].cookies.tx.signed <= TxTTL)
                BY <2>4, <4>2 DEF TxIsRight, Own
            <4>4. clock \in Int /\ TxTTL \in Int
                BY <1>0, LoginAssumption DEF Shape
            <4> QED BY <4>1, <4>2, <4>3, <4>4 DEF Own
        <3>2. Others(r)
            BY <1>1, <2>4 DEF Answer
        <3> QED BY <1>2, <2>1, <2>2, <3>1, <3>2
    <2>5. CASE Goes(r, [kind |-> "callback", at |-> "exchange", identity |-> Identity(r),
                        provider |-> request[r].provider])
        <3>1. Others(r) /\ request'[r].at = "exchange"
            BY <1>1, <2>5
        <3> QED BY <1>2, <2>1, <2>2, <3>1, NoLogin
    <2> QED BY <1>12, <2>3, <2>4, <2>5 DEF Callback
<1>13. CASE ExchangeCode(r)
    <2>1. UNCHANGED <<secret, idpKey, jar>> /\ excuse' \in {excuse, excuse \cup {r}}
        BY <1>3, <1>13 DEF ExchangeCode
    <2>2. CASE Goes(r, [kind |-> "callback", at |-> "validate", key |-> idpKey,
                        identity |-> request[r].identity, provider |-> request[r].provider])
        <3>1. Others(r) /\ request'[r].at = "validate" /\ request'[r].key = idpKey
            BY <1>1, <2>2
        <3>2. OnCourse(r)'
            BY <2>1, <3>1 DEF OnCourse, Redirects
        <3> QED BY <1>2, <2>1, <3>1, <3>2
    <2>3. CASE Answer(r, request[r].identity, 400, Nothing, Nothing) /\ excuse' = excuse \cup {r}
        <3>1. Others(r)
            BY <1>1, <2>3 DEF Answer
        <3> QED BY <1>2, <2>1, <2>3, <3>1
    <2> QED BY <1>13, <2>2, <2>3 DEF ExchangeCode
<1>14. CASE ValidateToken(r)
    <2> DEFINE q == request[r]
               used == KeysFor(q.provider, q.key)
    <2>1. UNCHANGED <<secret, idpKey, jar>> /\ excuse' \in {excuse, excuse \cup {r}}
        BY <1>3, <1>14 DEF ValidateToken
    <2>2. CASE Answer(r, q.identity, 200, SetSession(NewSession), ClearTx)
        BY <1>0, <1>2, <2>1, <2>2, NotRefused, NoneApart
    <2>3. CASE /\ Answer(r, q.identity, 400, Nothing, Nothing)
               /\ used.key # q.key \/ excuse' = excuse \cup {r}
        <3>1. used.key = q.key \/ used.key = idpKey
            BY DEF KeysFor
        <3>2. ASSUME r \notin excuse'
              PROVE  FALSE
            <4>1. q.at = "validate" /\ r \notin excuse /\ used.key # q.key
                BY <1>14, <2>1, <2>3, <3>2 DEF ValidateToken
            <4>2. q.key = idpKey
                BY <1>4, <4>1 DEF OnCourse
            <4> QED BY <3>1, <4>1, <4>2
        <3>3. Others(r)
            BY <1>1, <2>3 DEF Answer
        <3> QED BY <1>2, <2>1, <3>2, <3>3
    <2> QED BY <1>14, <2>2, <2>3 DEF ValidateToken
<1>15. CASE Receive(r)
    <2> DEFINE q == request[r]
    <2>1. /\ Goes(r, Idle) /\ jar' = Stored(q.set, q.tx) /\ q.tx.name # "tx"
          /\ excuse' = (IF q.tx = ClearTx THEN excuse \cup Logins ELSE excuse) \ {r}
          /\ UNCHANGED <<secret, idpKey>>
        BY <1>15 DEF Receive, Arrives, Redirects, server
    <2>2. Others(r) /\ OnCourse(r)'
        BY <1>1, <2>1, NoLogin DEF Idle
    <2>3. jar'.tx = IF q.tx = ClearTx THEN None ELSE jar.tx
        BY <2>1 DEF Stored
    <2>4. ASSUME NEW s \in Requests \ {r}, s \notin excuse'
          PROVE  OnCourse(s)'
        <3>1. s \notin excuse /\ (q.tx = ClearTx => request[s].at # "idp")
            BY <2>1, <2>4 DEF Logins
        <3> QED BY <2>1, <2>2, <2>3, <3>1, StillOnCourse DEF LoginInv, Others
    <2> QED BY <2>2, <2>4
<1> QED BY <1>5, <1>6, <1>7, <1>8, <1>9, <1>10, <1>11, <1>12, <1>13, <1>14, <1>15
        DEF RequestNext, CompleteAuthorization

(* In every reachable state: a callback that is turned down has an excuse. *)
THEOREM OnlyExcusedLoginsEverFail == Spec => []OnlyExcusedLoginsFail
<1>1. Init => SessionInv /\ LoginInv
    <2>1. Init => \A r \in Requests : OnCourse(r)
        <3>1. Init => \A r \in Requests : request[r] = Idle
            BY DEF Init
        <3>2. Idle.at = "idle"
            BY DEF Idle
        <3> QED BY <3>1, <3>2 DEF OnCourse, Redirects
    <2> QED BY <2>1, SessionInit DEF LoginInv, SessionInv
<1>2. SessionInv /\ LoginInv /\ [Next]_vars => SessionInv' /\ LoginInv'
    <2> SUFFICES ASSUME SessionInv, LoginInv, [Next]_vars
                 PROVE  SessionInv' /\ LoginInv'
        OBVIOUS
    <2>1. SessionInv' /\ Shape'
        BY SessionStep DEF SessionInv
    <2>2. \A r \in Requests : r \notin excuse => OnCourse(r)
        BY DEF LoginInv
    <2>3. CASE \E r \in Requests : RequestNext(r)
        BY <2>1, <2>3, CourseStep DEF LoginInv
    <2>4. CASE Tick \/ UNCHANGED vars
        <3>1. UNCHANGED <<secret, idpKey, jar, request, excuse>>
            BY <2>4 DEF Tick, vars, server
        <3> QED BY <2>1, <2>2, <3>1, StillOnCourse DEF LoginInv
    <2>5. CASE RotateKey
        <3>1. /\ UNCHANGED <<secret, jar, request>>
              /\ excuse' = excuse \cup {r \in Requests : request[r].at = "validate"}
            BY <2>5 DEF RotateKey
        <3> QED BY <2>1, <2>2, <3>1, StillOnCourse DEF LoginInv
    <2>6. CASE Restart
        <3>1. /\ UNCHANGED <<idpKey, jar>>
              /\ request' = [r \in Requests |-> IF r \in InFlight THEN Idle ELSE request[r]]
              /\ excuse' = (IF secret' = secret THEN excuse ELSE Logins) \ InFlight
            BY <2>6 DEF Restart
        <3>2. ASSUME NEW r \in Requests, r \notin excuse'
              PROVE  OnCourse(r)'
            <4>1. CASE r \in InFlight
                BY <3>1, <4>1, NoLogin DEF Idle
            <4>2. CASE r \notin InFlight /\ request[r].at = "idp"
                <5>1. secret' = secret /\ r \notin excuse
                    BY <3>1, <3>2, <4>2 DEF Logins
                <5> QED BY <2>2, <3>1, <4>2, <5>1, StillOnCourse
            <4>3. CASE r \notin InFlight /\ request[r].at # "idp"
                <5>1. request'[r].at \in {"idle", "composed"}
                    BY <3>1, <4>3 DEF InFlight
                <5> QED BY <5>1, NoLogin
            <4> QED BY <4>1, <4>2, <4>3
        <3> QED BY <2>1, <3>2 DEF LoginInv
    <2> QED BY <2>3, <2>4, <2>5, <2>6 DEF Next
<1>3. LoginInv => OnlyExcusedLoginsFail
    BY DEF LoginInv, OnCourse, OnlyExcusedLoginsFail
<1> QED BY <1>1, <1>2, <1>3, PTL DEF Spec
=============================================================================
