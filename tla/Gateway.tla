-------------------------------- MODULE Gateway --------------------------------
(***************************************************************************)
(* The HTTP front of the server (server/http/mod.rs, auth.rs, limit.rs):   *)
(* from the acceptance of a connection through the guard (method, token,   *)
(* scope, rate, session) to the MCP service behind it, and the drain when  *)
(* the process is told to stop.                                            *)
(*                                                                         *)
(* Every connection carries one request.  A request is suspended where the *)
(* code awaits: for the mutex of the key refresh, for the answer of the    *)
(* key endpoint and for the document in it, for the service, and for the   *)
(* table of live sessions; its client may go away at each of these points. *)
(***************************************************************************)
EXTENDS Jwks, Config

CONSTANTS
    MaxRequests,      \* bound: requests, sent in order
    Asks,             \* the requests clients send, by auth mode
    Starts,           \* the sources the process may be started with (Config)
    Answers,          \* what the key endpoint serves, one at a time
    Sessions,         \* names the service gives to sessions, in use once each
    Leeway,           \* LEEWAY_SECONDS, in ticks
    MaxTime,          \* bound: ticks of the clock
    MaxChanges,       \* bound: changes of the key endpoint
    Issuer, Audience

ASSUME GatewayAssumption ==
    /\ MaxRequests \in Nat /\ None \notin 1..MaxRequests /\ Leeway \in Nat
    /\ MaxTime \in Nat /\ MaxChanges \in Nat
    /\ IsFiniteSet(Sessions) /\ None \notin Sessions
    /\ Answers # {} /\ \A a \in Answers : a.maxAge \in Nat \union {Never}

Requests == 1..MaxRequests

VARIABLES
    setup,        \* settings.http
    tokens,       \* the configured bearer tokens: [secret, name, scopes]
    phase,        \* of the process: "listening", "draining", "closing", "gone", "refused"
    now,
    endpoint,     \* what the key endpoint answers: [up, document, maxAge]
    changes,
    cache,        \* JwksClient.cache
    refreshing,   \* JwksClient.refreshing: the request that holds the mutex
    used,         \* Limiter: the calls of each bucket that have not been given back yet
    sessions,     \* LocalSessionManager.sessions
    owners,       \* Gatekeeper.session_owners: pairs [session, owner]
    req,          \* the requests
    opened,       \* history: who opened each session
    listed,       \* history: when the endpoint last listed each key
    asked         \* history: when the endpoint was sent each request for its keys

vars == <<setup, tokens, phase, now, endpoint, changes, cache, refreshing, used, sessions, owners,
          req, opened, listed, asked>>

-----------------------------------------------------------------------------
(* Configuration: BearerTokens::parse_labeled and merge, Authenticator::   *)
(* build, Gatekeeper::build.                                               *)

Distinct(values) == \A i, j \in DOMAIN values : i # j => values[i] # values[j]

\* A line without a name is named after its secret.  Within a source and across sources
\* neither a name nor a secret may come twice.
NameOf(line) == IF line.name = "" THEN "token of " \o line.secret ELSE line.name
SecretOf(line) == line.secret
TokensMerge(lines) ==
    /\ Distinct([i \in DOMAIN lines |-> NameOf(lines[i])])
    /\ Distinct([i \in DOMAIN lines |-> SecretOf(lines[i])])

Configured(s) ==
    LET lines == s.file \o s.env
    IN  {[secret |-> lines[i].secret, name |-> NameOf(lines[i]), scopes |-> lines[i].scopes] :
            i \in DOMAIN lines}

\* A source of tokens that is configured has to be there and to hold one.
TokenFile(src) ==
    LET path == Value(src, "http_tokens_file")
    IN  IF path = None \/ path \notin DOMAIN src.tokenFiles THEN << >> ELSE src.tokenFiles[path]
HttpSettings(src) ==
    [mode |-> Value(src, "http_auth"), older |-> Value(src, "http_older_client_sessions"),
     rateLimit |-> Value(src, "http_rate_limit"),
     maxConnections |-> Value(src, "http_max_connections"),
     file |-> TokenFile(src),
     env |-> IF "bearer_tokens" \in DOMAIN src.env THEN src.env["bearer_tokens"] ELSE << >>]
Authenticates(src, s) ==
    /\ s.mode = "none" => Value(src, "http_bind") \in LocalHosts
    /\ s.mode = "bearer" =>
          /\ Value(src, "http_tokens_file") \in {None} \union DOMAIN src.tokenFiles
          /\ Value(src, "http_tokens_file") # None => s.file # << >>
          /\ "bearer_tokens" \in DOMAIN src.env => s.env # << >>
          /\ s.file \o s.env # << >>
          /\ TokensMerge(s.file \o s.env)

-----------------------------------------------------------------------------
(* Principals. *)

Anonymous == [kind |-> "local", name |-> "local", scopes |-> None]
Principal(kind, name, scopes) == [kind |-> kind, name |-> name, scopes |-> scopes]
Allows(principal, scope) == principal.scopes = None \/ scope \in principal.scopes
PrincipalKey(principal) == <<principal.kind, principal.name>>

\* Claims::principal_name: a subject, or the client's own name; None is an absent or blank
\* one.  The prefix the code puts before it, of which neither begins the other, keeps the
\* two kinds apart as a pair does.
PrincipalName(claims) ==
    IF claims.sub # None THEN <<"sub", claims.sub>>
    ELSE IF claims.client # None THEN <<"client", claims.client>> ELSE << >>

PrincipalFromClaims(claims) ==
    /\ claims.exp # Never /\ now <= claims.exp + Leeway
    /\ claims.nbf # Never => now + Leeway >= claims.nbf
    /\ claims.iss = Issuer
    /\ Audience \in claims.aud
    /\ PrincipalName(claims) # << >>

-----------------------------------------------------------------------------
(* Sessions. *)

OwnerOf(session) == {o.owner : o \in {o \in owners : o.session = session}}

\* bind_session, in its two halves: the live sessions, then the table of owners.
Bound(live, session, owner) ==
    {o \in owners : o.session \in live /\ o.session # session}
        \union {[session |-> session, owner |-> owner]}
Unbound(session) == {o \in owners : o.session # session}

SessionRefusedIfOwned(session, owner) ==
    setup.older /\ session # None /\ OwnerOf(session) = {}
SessionRefused(session, owner) ==
    setup.older /\ session # None /\ OwnerOf(session) # {owner}

-----------------------------------------------------------------------------

NoRequest == [stage |-> "idle", ask |-> None, session |-> None, seen |-> EmptyCache,
              answer |-> None, caller |-> None, person |-> None, key |-> None, made |-> None,
              live |-> {}]

KeysOf(answer) == IF answer.up THEN ParseKeySet(answer.document) ELSE {}
Keys == UNION {KeysOf(a) : a \in Answers}

NoSettings ==
    [mode |-> "none", older |-> FALSE, rateLimit |-> 0, maxConnections |-> 0, file |-> << >>,
     env |-> << >>]

Init ==
    /\ \E src \in Starts :
          IF Resolves(src)
          THEN /\ setup = HttpSettings(src)
               /\ phase = IF Authenticates(src, setup) THEN "listening" ELSE "refused"
          ELSE /\ setup = NoSettings
               /\ phase = "refused"
    /\ tokens = Configured(setup)
    /\ now = 0
    /\ endpoint \in IF setup.mode = "oauth" THEN Answers ELSE {CHOOSE a \in Answers : TRUE}
    /\ changes = 0
    /\ cache = EmptyCache
    /\ refreshing = None
    /\ used = << >>
    /\ sessions = {}
    /\ owners = {}
    /\ req = [q \in Requests |-> NoRequest]
    /\ opened = << >>
    /\ listed = [k \in Keys |-> IF k \in KeysOf(endpoint) THEN 0 ELSE Never]
    /\ asked = << >>

Ended(q) == req[q].stage \in {"idle", "served", "refused", "left", "lost"}
Open == {q \in Requests : ~Ended(q)}
Become(q, fields) ==
    req' = [req EXCEPT ![q] = [x \in DOMAIN req[q] |-> IF x \in DOMAIN fields THEN fields[x]
                                                       ELSE req[q][x]]]
End(q, stage) == req' = [req EXCEPT ![q] = [NoRequest EXCEPT !.stage = stage]]
Refuse(q) == End(q, "refused")

Alive == phase \in {"listening", "draining", "closing"}

-----------------------------------------------------------------------------
(* The limiter: a bucket holds rateLimit calls and gets one back each     *)
(* tick; zero turns the limit off.                                         *)

UsedOf(bucket) == IF bucket \in DOMAIN used THEN used[bucket] ELSE 0
Limited(bucket) == setup.rateLimit > 0 /\ UsedOf(bucket) >= setup.rateLimit
Take(bucket) == IF setup.rateLimit = 0 THEN used ELSE (bucket :> UsedOf(bucket) + 1) @@ used

-----------------------------------------------------------------------------
(* serve: one permit for each connection. *)

Methods == IF setup.older THEN {"POST", "GET", "DELETE"} ELSE {"POST"}

Connect(q) ==
    /\ phase = "listening" /\ Cardinality(Open) < setup.maxConnections
    /\ req[q].stage = "idle" /\ \A p \in 1..(q - 1) : req[p].stage # "idle"
    /\ \E ask \in Asks[setup.mode], session \in DOMAIN opened \union {None} :
          Become(q, [stage |-> IF ask.kind = "probe" THEN "probing" ELSE "arrived",
                     ask |-> ask, session |-> session])
    /\ UNCHANGED <<setup, tokens, phase, now, endpoint, changes, cache, refreshing, used, sessions,
                   owners, opened, listed, asked>>

(***************************************************************************)
(* The guard from the answer of the authenticator to the service: no await *)
(* lies between.  The scope is the one the headers ask for, and is checked *)
(* before the rate; a session must belong to the caller.                   *)
(***************************************************************************)
Bucket(q, principal) ==
    IF setup.mode # "none" THEN <<"principal", PrincipalKey(principal)>>
    ELSE <<"addr", req[q].ask.address>>

Admitted(q, principal, person, key) ==
    LET bucket == Bucket(q, principal)
        owner == PrincipalKey(principal)
    IN  IF ~Allows(principal, req[q].ask.scope)
        THEN Refuse(q) /\ UNCHANGED used
        ELSE IF Limited(bucket) THEN Refuse(q) /\ UNCHANGED used
        ELSE /\ used' = Take(bucket)
             /\ IF SessionRefused(req[q].session, owner) THEN Refuse(q)
                ELSE Become(q, [stage |-> "running", caller |-> owner, person |-> person,
                                key |-> key, seen |-> EmptyCache])

\* A refused token counts against the address it came from.
Rejected(q) ==
    LET bucket == <<"auth-fail", req[q].ask.address>>
    IN  Refuse(q) /\ used' = IF Limited(bucket) THEN used ELSE Take(bucket)

\* Whom a token speaks of.
Subject(token) ==
    IF token.sub # None THEN [subject |-> token.sub] ELSE [client |-> token.client]

\* The rest of Oauth::validate, with the outcome of JwksClient::key.
Validated(q, found) ==
    LET token == req[q].ask.token
        good == {k \in found : Verifies(k, token)}
    IN  IF good # {} /\ PrincipalFromClaims(token)
        THEN \E k \in good : Admitted(q, Principal("token", PrincipalName(token), token.scopes),
                                      Subject(token), k)
        ELSE Rejected(q)

Authenticate(q) ==
    LET token == req[q].ask.token
        known == {t \in tokens : token # None /\ t.secret = token.secret}
        look == FirstLook(cache, token.kid, now)
    IN  /\ req[q].stage = "arrived" /\ Alive
        /\ IF req[q].ask.method \notin Methods
           THEN Refuse(q) /\ UNCHANGED used
           ELSE \/ setup.mode = "none" /\ Admitted(q, Anonymous, "anonymous", None)
                \/ setup.mode # "none" /\ token = None /\ Rejected(q)
                \/ /\ setup.mode = "bearer" /\ token # None
                   /\ IF known = {} THEN Rejected(q)
                      ELSE \E t \in known : Admitted(q, Principal("bearer", t.name, t.scopes),
                                                     <<"secret", t.secret>>, None)
                \/ /\ setup.mode = "oauth" /\ token # None
                   /\ IF token.alg \notin Algorithms \/ token.kid = NoName
                      THEN Rejected(q)
                      ELSE IF look = "refresh"
                      THEN Become(q, [stage |-> "waiting", seen |-> Seen(cache)]) /\ UNCHANGED used
                      ELSE Validated(q, IF look = "found" THEN Named(cache, token.kid) ELSE {})
        /\ UNCHANGED <<setup, tokens, phase, now, endpoint, changes, cache, refreshing, sessions,
                       owners, opened, listed, asked>>

\* The readiness probe asks for the keys too, without a token and a limit.
Probe(q) ==
    LET unusable == Unusable(cache, now)
    IN  /\ req[q].stage = "probing" /\ Alive
        /\ IF setup.mode # "oauth" \/ IsFresh(cache, now) THEN End(q, "served")
           ELSE IF IsThrottled(cache, now) THEN End(q, IF unusable THEN "refused" ELSE "served")
           ELSE Become(q, [stage |-> "waiting", seen |-> Seen(cache)])
        /\ UNCHANGED <<setup, tokens, phase, now, endpoint, changes, cache, refreshing, used,
                       sessions, owners, opened, listed, asked>>

\* How `key` and `ready` go on once `refresh` has returned: an error counts when the set
\* the call had looked at cannot be used, and the key is looked up again.
Refreshed(q, ok, keys) ==
    LET failed == ~ok /\ Unusable(req[q].seen, now)
        token == req[q].ask.token
    IN  IF req[q].ask.kind = "probe"
        THEN End(q, IF failed THEN "refused" ELSE "served") /\ UNCHANGED used
        ELSE IF failed THEN Rejected(q)
        ELSE Validated(q, {k \in keys : k.kid = token.kid})

EnterRefresh(q) ==
    LET found == UnderMutex(cache, req[q].seen.fetchedAt, now)
    IN  /\ req[q].stage = "waiting" /\ Alive
        /\ refreshing = None
        /\ IF found = "fetch"
           THEN /\ cache' = Attempted(cache, now)
                /\ asked' = Append(asked, now)
                /\ refreshing' = q
                /\ Become(q, [stage |-> "fetching"])
                /\ UNCHANGED used
           ELSE /\ Refreshed(q, found = "done", cache.keys)
                /\ UNCHANGED <<cache, refreshing, asked>>
        /\ UNCHANGED <<setup, tokens, phase, now, endpoint, changes, sessions, owners, opened,
                       listed>>

\* fetch: the endpoint answers with the document it has then; its bytes are still to come.
EndpointAnswers(q) ==
    /\ req[q].stage = "fetching" /\ Alive /\ endpoint.up
    /\ Become(q, [stage |-> "reading", answer |-> endpoint])
    /\ UNCHANGED <<setup, tokens, phase, now, endpoint, changes, cache, refreshing, used, sessions,
                   owners, opened, listed, asked>>

\* fetch is over: the whole document is there within TOTAL_TIMEOUT, or the request failed.
Fetching == {"fetching", "reading"}
FetchEnds(q) ==
    LET inTime == req[q].stage = "reading" /\ now - cache.lastAttempt <= FetchTimeout
    IN  /\ req[q].stage \in Fetching /\ Alive
        /\ \E keys \in {{}} \union IF inTime THEN {KeysOf(req[q].answer)} ELSE {} :
              /\ cache' = IF keys = {} THEN cache
                          ELSE Stored(cache, keys, req[q].answer.maxAge, now)
              /\ Refreshed(q, keys # {}, cache'.keys)
        /\ refreshing' = None
        /\ UNCHANGED <<setup, tokens, phase, now, endpoint, changes, sessions, owners, opened,
                       listed, asked>>

-----------------------------------------------------------------------------
(* The service (rmcp), and the guard after it. *)

\* A request that opens a session gets a new one; one in a session needs it to be live;
\* DELETE ends it.  A GET is a stream of events, which ends with its session or when the
\* process cancels it.
Run(q) ==
    LET ask == req[q].ask
        session == req[q].session
        fresh == Sessions \ DOMAIN opened
    IN  /\ req[q].stage = "running" /\ Alive
        /\ \/ /\ ~setup.older \/ (session = None /\ ~ask.opens)
              /\ End(q, "served")
              /\ UNCHANGED <<sessions, opened>>
           \/ /\ setup.older /\ session = None /\ ask.opens
              /\ \E s \in fresh :
                    /\ sessions' = sessions \union {s}
                    /\ opened' = [x \in DOMAIN opened \union {s} |->
                                    IF x = s THEN req[q].person ELSE opened[x]]
                    /\ Become(q, [stage |-> "binding", made |-> s])
           \/ /\ setup.older /\ session # None /\ session \notin sessions
              /\ Refuse(q)
              /\ UNCHANGED <<sessions, opened>>
           \/ /\ setup.older /\ session \in sessions /\ ask.method = "DELETE"
              /\ sessions' = sessions \ {session}
              /\ Become(q, [stage |-> "unbinding"])
              /\ UNCHANGED opened
           \/ /\ setup.older /\ session \in sessions /\ ask.method = "GET"
              /\ Become(q, [stage |-> "streaming"])
              /\ UNCHANGED <<sessions, opened>>
           \/ /\ setup.older /\ session \in sessions /\ ask.method = "POST"
              /\ End(q, "served")
              /\ UNCHANGED <<sessions, opened>>
        /\ UNCHANGED <<setup, tokens, phase, now, endpoint, changes, cache, refreshing, used,
                       owners, listed, asked>>

StreamEnds(q) ==
    /\ req[q].stage = "streaming" /\ Alive
    /\ phase = "closing" \/ req[q].session \notin sessions
    /\ End(q, "served")
    /\ UNCHANGED <<setup, tokens, phase, now, endpoint, changes, cache, refreshing, used, sessions,
                   owners, opened, listed, asked>>

ReadLive(q) ==
    /\ req[q].stage = "binding" /\ Alive
    /\ Become(q, [stage |-> "bound", live |-> sessions])
    /\ UNCHANGED <<setup, tokens, phase, now, endpoint, changes, cache, refreshing, used, sessions,
                   owners, opened, listed, asked>>

Bind(q) ==
    /\ req[q].stage = "bound" /\ Alive
    /\ owners' = Bound(req[q].live, req[q].made, req[q].caller)
    /\ req' = [req EXCEPT ![q] = [NoRequest EXCEPT !.stage = "served", !.made = req[q].made,
                                                   !.caller = req[q].caller]]
    /\ UNCHANGED <<setup, tokens, phase, now, endpoint, changes, cache, refreshing, used, sessions,
                   opened, listed, asked>>

Unbind(q) ==
    /\ req[q].stage = "unbinding" /\ Alive
    /\ owners' = Unbound(req[q].session)
    /\ End(q, "served")
    /\ UNCHANGED <<setup, tokens, phase, now, endpoint, changes, cache, refreshing, used, sessions,
                   opened, listed, asked>>

\* The client closes its connection while the request is suspended; a mutex it holds is
\* released with it.
Leave(q) ==
    /\ Alive
    /\ req[q].stage \in {"waiting", "running", "streaming", "binding"} \union Fetching
    /\ End(q, "left")
    /\ refreshing' = IF refreshing = q THEN None ELSE refreshing
    /\ UNCHANGED <<setup, tokens, phase, now, endpoint, changes, cache, used, sessions, owners,
                   opened, listed, asked>>

-----------------------------------------------------------------------------
(* serve: the stop. *)

Stop(from, to) ==
    /\ phase = from /\ phase' = to
    /\ UNCHANGED <<setup, tokens, now, endpoint, changes, cache, refreshing, used, sessions,
                   owners, req, opened, listed, asked>>

Signal == Stop("listening", "draining")
Drained == Open = {} /\ Stop("draining", "closing")
SecondSignal == Stop("draining", "closing")
DeadlinePasses == Stop("draining", "closing")

\* Server::shutdown ends within its own limit; what is still open goes with the process.
Teardown ==
    /\ phase = "closing" /\ phase' = "gone"
    /\ req' = [q \in Requests |-> IF Ended(q) THEN req[q] ELSE [NoRequest EXCEPT !.stage = "lost"]]
    /\ refreshing' = None
    /\ UNCHANGED <<setup, tokens, now, endpoint, changes, cache, used, sessions, owners, opened,
                   listed, asked>>

-----------------------------------------------------------------------------
(* Around the process. *)

\* A session ends by itself when its transport does.
SessionCloses(s) ==
    /\ s \in sessions /\ Alive
    /\ sessions' = sessions \ {s}
    /\ UNCHANGED <<setup, tokens, phase, now, endpoint, changes, cache, refreshing, used, owners,
                   req, opened, listed, asked>>

EndpointChanges(a) ==
    /\ setup.mode = "oauth" /\ Alive /\ changes < MaxChanges /\ a # endpoint
    /\ endpoint' = a
    /\ changes' = changes + 1
    /\ listed' = [k \in Keys |-> IF k \in KeysOf(endpoint) \union KeysOf(a) THEN now ELSE listed[k]]
    /\ UNCHANGED <<setup, tokens, phase, now, cache, refreshing, used, sessions, owners, req,
                   opened, asked>>

\* forget_idle drops the buckets that are full again.  Time is told only where a key set, a
\* token or a limit is measured by it.
Tick ==
    /\ now < MaxTime /\ Alive /\ (setup.mode = "oauth" \/ setup.rateLimit > 0)
    /\ now' = now + 1
    /\ used' = [b \in {b \in DOMAIN used : used[b] > 1} |-> used[b] - 1]
    /\ listed' = [k \in Keys |-> IF k \in KeysOf(endpoint) THEN now + 1 ELSE listed[k]]
    /\ UNCHANGED <<setup, tokens, phase, endpoint, changes, cache, refreshing, sessions, owners,
                   req, opened, asked>>

Serve(q) == \/ Authenticate(q) \/ Probe(q) \/ EnterRefresh(q) \/ EndpointAnswers(q)
            \/ FetchEnds(q) \/ Run(q) \/ StreamEnds(q) \/ ReadLive(q) \/ Bind(q) \/ Unbind(q)

Next ==
    \/ \E q \in Requests : Connect(q) \/ Serve(q) \/ Leave(q)
    \/ Signal \/ Drained \/ SecondSignal \/ DeadlinePasses \/ Teardown
    \/ \E s \in Sessions : SessionCloses(s)
    \/ \E a \in Answers : EndpointChanges(a)
    \/ Tick

Spec == Init /\ [][Next]_vars

-----------------------------------------------------------------------------
(* Properties. *)

\* A request that is served inside a session was sent by whoever opened the session: with
\* the same secret, or for the same subject of the same kind.
SessionsServeTheirOwner ==
    \A q \in Requests :
        /\ setup.older /\ req[q].session # None
        /\ req[q].stage \in {"running", "streaming", "unbinding"}
        => opened[req[q].session] = req[q].person

\* A key the issuer has withdrawn lets nobody in for longer than the set it came in may be
\* used - its own lifetime, or the half hour a set outlives a failing endpoint - and the time
\* the set may have been on its way.
LongestUse == IF MaxStale > MaxTtl THEN MaxStale ELSE MaxTtl
WithdrawnKeysExpire ==
    [][\A q \in Requests :
          req'[q].stage = "running" /\ req[q].stage # "running" /\ req'[q].key # None =>
              now - listed[req'[q].key] < LongestUse + FetchTimeout]_vars

\* Whatever tokens callers send, whoever goes away and however a fetch ends, the issuer has
\* one request for its keys to answer at a time and never two within one interval.
EndpointIsSpared ==
    /\ \A i, j \in DOMAIN asked : i < j => asked[j] - asked[i] >= RefreshInterval
    /\ \A p, q \in Requests : req[p].stage \in Fetching /\ req[q].stage \in Fetching => p = q

================================================================================
