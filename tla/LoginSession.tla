---------------------------- MODULE LoginSession ----------------------------
(***************************************************************************)
(* Signed-in browsers: the session cookie with its companion, re-issued    *)
(* past its half-life by the middleware, the login of basic mode, the OIDC *)
(* round trip through the identity provider, and logout. The session is    *)
(* the cookie: the server keeps no record of it. A browser has several     *)
(* requests under way, each sent with the cookies of that moment; the      *)
(* cookies of a response are stored when it arrives.                       *)
(***************************************************************************)
EXTENDS Integers

CONSTANTS
    Requests,         \* the requests one browser has under way
    Providers,        \* AUTH_OIDC_PROVIDERS
    Half,             \* half of auth_session_ttl_seconds
    TxTTL,            \* OAUTH_TX_TTL_SECONDS
    KeysTTL,          \* JWKS_CACHE_TTL_SECONDS
    MaxClock,         \* bound on the clock
    MaxSends,         \* bound on the requests sent
    MaxEvents         \* bound on restarts, rotated keys and failed calls

ASSUME LoginAssumption ==
    {Half, TxTTL, KeysTTL, MaxClock, MaxSends, MaxEvents} \subseteq Nat /\ Half > 0

VARIABLES
    clock,
    mode,       \* auth_mode: "basic" or "oidc"
    secret,     \* auth_secret_key
    jar,        \* the browser's cookies, with the time they expire
    request,    \* what each request is at
    idpKey,     \* the key the identity provider signs with, and publishes
    keys,       \* [Providers -> the cached JWKS]
    kickoffs,   \* logins begun so far
    \* history
    sends, events,
    answered,   \* when a signed-in response was minted that has arrived, or -1
    overtaken,  \* a session arrived after one that was minted later, and no newer login since
    signedOut,  \* a logout has arrived, and no login since
    revived,    \* the session came back with a request sent before that logout
    early,      \* the requests sent before the last login or logout arrived
    excuse      \* the logins that something came between

server == <<mode, secret, idpKey, keys, kickoffs>>
browser == <<answered, overtaken, signedOut, revived, early>>
vars == <<clock, server, jar, request, sends, events, browser, excuse>>

TTL == 2 * Half
None == [none |-> TRUE]
Idle == [at |-> "idle"]

-----------------------------------------------------------------------------
(* Cookies. *)

\* the CSRF companion is an HMAC of the session value; TTL starts on arrival
Cookie(value, ttl) == [value |-> value, until |-> clock + ttl]
Live(c) == c # None /\ clock < c.until
Value(c) == IF Live(c) THEN c.value ELSE None
Sent == [session |-> Value(jar.session), tx |-> Value(jar.tx)]

\* SignedCookieSession.decode: the session if its signature and age are right
Decode(value) ==
    IF value # None /\ value.secret = secret /\ clock - value.issued <= TTL
    THEN value ELSE None

\* make_identity and encode; whose session it is does not matter here
NewSession == [issued |-> clock, secret |-> secret]

MutantShouldReissue(session) == clock - session.issued > TTL
ShouldReissue(session) == clock - session.issued > Half

(***************************************************************************)
(* A response: its status and the cookies it sets. The middleware adds a   *)
(* fresh session to one that sets none, whatever its status.               *)
(***************************************************************************)
Nothing == [name |-> "nothing"]
SetSession(session) == [name |-> "session", session |-> session]
ClearSession == [name |-> "cleared"]
SetTx(tx) == [name |-> "tx", tx |-> tx]
ClearTx == [name |-> "tx cleared"]

MutantOptsOut(set) == set.name = "session"
OptsOut(set) == set.name \in {"session", "cleared"}

Goes(r, q) == request' = [request EXCEPT ![r] = q]

Answer(r, identity, status, set, tx) ==
    LET again == identity # None /\ ShouldReissue(identity) /\ ~OptsOut(set)
        final == IF again THEN SetSession(NewSession) ELSE set
    IN  Goes(r, [kind |-> request[r].kind, at |-> "answered", status |-> status,
                 set |-> final, tx |-> tx, signedIn |-> identity # None, minted |-> clock])

InFlight == {r \in Requests : request[r].at \notin {"idle", "composed", "idp"}}
Logins == {r \in Requests : \/ request[r].at = "idp"
                            \/ r \in InFlight /\ request[r].kind \in {"kickoff", "callback"}}

-----------------------------------------------------------------------------
(* The browser. *)

NewRequest(kind) ==
    [kind |-> kind, at |-> "sent", cookies |-> Sent]

Sending(r) ==
    /\ sends < MaxSends /\ sends' = sends + 1
    /\ UNCHANGED <<early, clock, server, jar, events, excuse, answered, overtaken, signedOut,
                   revived>>

\* a call of the API, GET /auth/me among them, or the form of basic mode
Send(r) ==
    /\ request[r] = Idle
    /\ \E kind \in {"api"} \cup (IF mode = "basic" THEN {"login"} ELSE {}) :
           Goes(r, NewRequest(kind))
    /\ Sending(r)

\* the viewer reads the CSRF cookie, and then posts the logout
ComposeLogout(r) ==
    /\ request[r] = Idle
    /\ Goes(r, [at |-> "composed", header |-> Value(jar.csrf)])
    /\ Sending(r)

PostLogout(r) ==
    /\ request[r].at = "composed"
    /\ Goes(r, [kind |-> "logout", at |-> "sent", cookies |-> Sent,
                header |-> request[r].header])
    /\ early' = early \ {r}
    /\ UNCHANGED <<clock, server, jar, sends, events, answered, overtaken, signedOut,
                   revived, excuse>>

Kickoff(r) ==
    /\ request[r] = Idle /\ mode = "oidc"
    /\ \E p \in Providers :
           Goes(r, [kind |-> "kickoff", at |-> "sent", cookies |-> Sent, provider |-> p])
    /\ Sending(r)

-----------------------------------------------------------------------------
(* The server: SessionAuthMiddleware first, then the route. *)

Unchanged == UNCHANGED <<clock, mode, secret, idpKey, jar, sends, browser>>

Identity(r) == Decode(request[r].cookies.session)
At(r, kind) == request[r].at = "sent" /\ request[r].kind = kind

\* APIKeyAuthMiddleware turns a request away that has no identity; the handler
\* of another takes its time
Api(r) ==
    /\ At(r, "api")
    /\ IF Identity(r) = None THEN Answer(r, None, 401, Nothing, Nothing)
       ELSE Goes(r, [kind |-> "api", at |-> "handled", identity |-> Identity(r)])
    /\ Unchanged /\ UNCHANGED <<keys, kickoffs, events, excuse>>

ApiDone(r) ==
    /\ request[r].at = "handled"
    /\ Answer(r, request[r].identity, 200, Nothing, Nothing)
    /\ Unchanged /\ UNCHANGED <<keys, kickoffs, events, excuse>>

BasicLogin(r) ==
    /\ At(r, "login")
    /\ \/ Answer(r, Identity(r), 200, SetSession(NewSession), Nothing)
       \/ Answer(r, Identity(r), 401, Nothing, Nothing)
    /\ Unchanged /\ UNCHANGED <<keys, kickoffs, events, excuse>>

\* the header is the HMAC of the session value that came with it
Verify(r) == request[r].header # None /\ request[r].header = request[r].cookies.session

Logout(r) ==
    /\ At(r, "logout")
    /\ IF Identity(r) = None THEN Answer(r, None, 401, Nothing, Nothing)
       ELSE IF ~Verify(r) THEN Answer(r, Identity(r), 403, Nothing, Nothing)
       ELSE Answer(r, Identity(r), 200, ClearSession, Nothing)
    /\ Unchanged /\ UNCHANGED <<keys, kickoffs, events, excuse>>

Fails == events < MaxEvents /\ events' = events + 1

\* state, nonce and verifier are those of one kickoff, known by its number; the
\* error of a discovery that fails passes the middleware by
OidcLogin(r) ==
    /\ At(r, "kickoff")
    /\ LET tx == [kickoff |-> kickoffs + 1, provider |-> request[r].provider,
                  signed |-> clock, secret |-> secret]
       IN \/ /\ kickoffs' = kickoffs + 1
             /\ Answer(r, Identity(r), 302, Nothing, SetTx(tx))
             /\ UNCHANGED <<events, excuse>>
          \/ /\ Fails /\ Goes(r, Idle)
             /\ excuse' = excuse \ {r} /\ UNCHANGED kickoffs
    /\ Unchanged /\ UNCHANGED keys

\* the user signs in, or the provider refuses: the browser is sent back
ReturnFromIdp(r) ==
    LET q == request[r] IN
    /\ q.at = "idp"
    /\ \E refused \in BOOLEAN :
           Goes(r, [kind |-> "callback", at |-> "sent", cookies |-> Sent, refused |-> refused,
                    provider |-> q.provider, kickoff |-> q.kickoff])
    /\ early' = early \ {r}
    /\ excuse' = IF clock < q.since + TxTTL THEN excuse ELSE excuse \cup {r}
    /\ UNCHANGED <<clock, server, jar, sends, events, answered, overtaken, signedOut, revived>>

\* the tx cookie is there, signed by us, young enough, and of this very login
TxIsRight(q) ==
    /\ q.cookies.tx # None /\ q.cookies.tx.secret = secret
    /\ clock - q.cookies.tx.signed <= TxTTL
    /\ q.cookies.tx.provider = q.provider /\ q.cookies.tx.kickoff = q.kickoff

Late(r) == IF request[r].cookies.tx # None /\ clock - request[r].cookies.tx.signed > TxTTL
           THEN excuse \cup {r} ELSE excuse

Callback(r) ==
    /\ At(r, "callback")
    /\ IF request[r].refused THEN Answer(r, Identity(r), 302, Nothing, ClearTx)
       ELSE IF ~TxIsRight(request[r]) THEN Answer(r, Identity(r), 400, Nothing, Nothing)
       ELSE Goes(r, [kind |-> "callback", at |-> "exchange", identity |-> Identity(r),
                     provider |-> request[r].provider])
    /\ excuse' = IF request[r].refused THEN excuse ELSE Late(r)
    /\ Unchanged /\ UNCHANGED <<keys, kickoffs, events>>

\* the code is exchanged for an ID token signed with the provider's key
ExchangeCode(r) ==
    /\ request[r].at = "exchange"
    /\ \/ /\ Goes(r, [kind |-> "callback", at |-> "validate", key |-> idpKey,
                      identity |-> request[r].identity, provider |-> request[r].provider])
          /\ UNCHANGED <<events, excuse>>
       \/ Fails /\ Answer(r, request[r].identity, 400, Nothing, Nothing) /\ excuse' = excuse \cup {r}
    /\ Unchanged /\ UNCHANGED <<keys, kickoffs>>

Fresh(p) == keys[p] # None /\ clock - keys[p].fetched < KeysTTL

\* a token the cached keys do not verify is tried once more with fetched ones
MutantKeysFor(p, key) == IF Fresh(p) THEN keys[p] ELSE [key |-> idpKey, fetched |-> clock]
KeysFor(p, key) ==
    IF Fresh(p) /\ keys[p].key = key THEN keys[p] ELSE [key |-> idpKey, fetched |-> clock]

ValidateToken(r) ==
    LET q == request[r]
        used == KeysFor(q.provider, q.key)
    IN
    /\ q.at = "validate"
    /\ \/ /\ keys' = [keys EXCEPT ![q.provider] = used]
          /\ IF used.key = q.key
             THEN Answer(r, request[r].identity, 200, SetSession(NewSession), ClearTx)
             ELSE Answer(r, request[r].identity, 400, Nothing, Nothing)
          /\ UNCHANGED <<events, excuse>>
       \/ /\ used # keys[q.provider] /\ Fails /\ UNCHANGED keys
          /\ Answer(r, request[r].identity, 400, Nothing, Nothing) /\ excuse' = excuse \cup {r}
    /\ Unchanged /\ UNCHANGED kickoffs

\* each awaits the provider, unless the keys are cached
CompleteAuthorization(r) == ExchangeCode(r) \/ ValidateToken(r)

-----------------------------------------------------------------------------
(* The response arrives. *)

Stored(set, tx) ==
    [session |-> IF set.name = "session" THEN Cookie(set.session, TTL)
                 ELSE IF set.name = "cleared" THEN None ELSE jar.session,
     csrf |-> IF set.name = "session" THEN Cookie(set.session, TTL)
              ELSE IF set.name = "cleared" THEN None ELSE jar.csrf,
     tx |-> IF tx.name = "tx" THEN Cookie(tx.tx, TxTTL)
            ELSE IF tx = ClearTx THEN None ELSE jar.tx]

LogsOut(q) == q.kind = "logout" /\ q.status = 200
LogsIn(q) == q.kind \in {"login", "callback"} /\ q.status = 200

Remember(r) ==
    LET q == request[r]
        older == /\ q.set.name = "session" /\ jar.session # None
                 /\ q.set.session.issued < jar.session.value.issued
    IN
    /\ answered' = IF LogsOut(q) THEN -1
                   ELSE IF (LogsIn(q) \/ (q.signedIn /\ r \notin early))
                           /\ q.minted > answered THEN q.minted ELSE answered
    /\ overtaken' = (older \/ (overtaken /\ ~(LogsIn(q) /\ q.minted >= answered)))
    /\ signedOut' = (LogsOut(q) \/ (signedOut /\ ~LogsIn(q)))
    /\ revived' = IF LogsOut(q) \/ LogsIn(q) THEN FALSE
                  ELSE revived \/ (signedOut /\ r \in early /\ q.set.name = "session")
    /\ early' = IF LogsOut(q) \/ LogsIn(q) THEN InFlight \ {r} ELSE early \ {r}

Arrives(r, next) ==
    /\ request[r].at = "answered"
    /\ jar' = Stored(request[r].set, request[r].tx)
    /\ Goes(r, next)
    /\ Remember(r)
    /\ UNCHANGED <<clock, server, sends, events>>

Redirects(r) == request[r].at = "answered" /\ request[r].tx.name = "tx"

Receive(r) ==
    /\ Arrives(r, Idle) /\ ~Redirects(r)
    /\ excuse' = (IF request[r].tx = ClearTx THEN excuse \cup Logins ELSE excuse) \ {r}

\* on to the provider; a later kickoff replaces the cookie of an earlier one
FollowRedirect(r) ==
    LET q == request[r] IN
    /\ Redirects(r)
    /\ Arrives(r, [at |-> "idp", kickoff |-> q.tx.tx.kickoff, provider |-> q.tx.tx.provider,
                   since |-> clock])
    /\ excuse' = excuse \cup (Logins \ {r})

Tick == /\ clock < MaxClock /\ clock' = clock + 1
        /\ UNCHANGED <<server, jar, request, sends, events, browser, excuse>>

RotateKey == /\ Fails /\ mode = "oidc" /\ idpKey' = idpKey + 1
             /\ excuse' = excuse \cup {r \in Requests : request[r].at = "validate"}
             /\ UNCHANGED <<clock, mode, secret, keys, kickoffs, jar, request, sends, browser>>

\* with the same secret or a new one; the requests under way break off
Restart ==
    /\ Fails
    /\ secret' \in {secret, secret + 1}
    /\ keys' = [p \in Providers |-> None]
    /\ request' = [r \in Requests |-> IF r \in InFlight THEN Idle ELSE request[r]]
    /\ excuse' = (IF secret' = secret THEN excuse ELSE Logins) \ InFlight
    /\ early' = early \ InFlight
    /\ answered' = IF secret' = secret THEN answered ELSE -1
    /\ UNCHANGED <<clock, mode, idpKey, kickoffs, jar, sends, overtaken, signedOut,
                   revived>>

-----------------------------------------------------------------------------
Init ==
    /\ clock = 0 /\ mode \in {"basic", "oidc"} /\ secret = 0
    /\ jar = [session |-> None, csrf |-> None, tx |-> None]
    /\ request = [r \in Requests |-> Idle]
    /\ idpKey = 0 /\ keys = [p \in Providers |-> None]
    /\ kickoffs = 0 /\ sends = 0 /\ events = 0
    /\ answered = -1 /\ overtaken = FALSE /\ signedOut = FALSE /\ revived = FALSE
    /\ early = {} /\ excuse = {}

RequestNext(r) ==
    \/ Send(r) \/ ComposeLogout(r) \/ PostLogout(r) \/ Kickoff(r)
    \/ Api(r) \/ ApiDone(r) \/ BasicLogin(r) \/ Logout(r) \/ OidcLogin(r)
    \/ FollowRedirect(r) \/ ReturnFromIdp(r) \/ Callback(r)
    \/ CompleteAuthorization(r) \/ Receive(r)

Next == (\E r \in Requests : RequestNext(r)) \/ Tick \/ RotateKey \/ Restart

Spec == Init /\ [][Next]_vars

-----------------------------------------------------------------------------
(* A user who had a signed-in answer stays signed in for another half-life *)
(* at least, whatever else was under way: the session and its companion    *)
(* are in the jar, belong together, and the server accepts them. Unless a  *)
(* slow response brought an older session over a newer one.                *)
StaysSignedIn ==
    answered >= 0 /\ ~overtaken /\ clock < answered + Half =>
        /\ Live(jar.session) /\ Decode(jar.session.value) # None
        /\ jar.csrf = jar.session

(* After a logout the session does not come back before the next login,    *)
(* unless a request sent before the logout is answered with a fresh one.   *)
LogoutHolds == signedOut /\ jar.session # None => revived

(* A login at the identity provider fails only for a reason: it took       *)
(* longer than the tx cookie lives, another login of the same browser came *)
(* between, a call failed, the secret changed, or the provider changed its *)
(* key while the token was on its way. A key changed before that, with the *)
(* old one cached, is none.                                                *)
OnlyExcusedLoginsFail == \A r \in Requests :
    request[r].at = "answered" /\ request[r].kind = "callback" /\ request[r].status = 400
        => r \in excuse
=============================================================================
