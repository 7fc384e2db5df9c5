---------------------------- MODULE GatewayProofs ----------------------------
(***************************************************************************)
(* Theorems about the keys of Gateway and about the sessions it serves,    *)
(* for any number of requests, any requests and configurations, any        *)
(* documents the key endpoint serves and any intervals.                    *)
(***************************************************************************)
EXTENDS Gateway, TLAPS

-------------------------------------------------------------------------------
(* Requests: how an action changes one of them. *)

Suspended == {"waiting"} \cup Fetching

\* All but the request q stays.
OnlyOf(q) == req' = [p \in Requests |-> IF p = q THEN req'[q] ELSE req[p]]

\* The request q goes on, without looking at keys any more; let in, it was by one of `keys`.
GoesOn(q, keys) ==
    /\ OnlyOf(q)
    /\ DOMAIN req'[q] = DOMAIN NoRequest
    /\ req'[q].stage \notin Suspended
    /\ req'[q].stage = "running" => req'[q].key \in keys

LEMMA BecomeIs ==
    ASSUME NEW q \in Requests, NEW fields, DOMAIN req = Requests, Become(q, fields)
    PROVE  /\ OnlyOf(q)
           /\ DOMAIN req'[q] = DOMAIN req[q]
           /\ \A x \in DOMAIN req[q] \cap DOMAIN fields : req'[q][x] = fields[x]
           /\ \A x \in DOMAIN req[q] \ DOMAIN fields : req'[q][x] = req[q][x]
  <1>1. req'[q] = [x \in DOMAIN req[q] |-> IF x \in DOMAIN fields THEN fields[x] ELSE req[q][x]]
    BY DEF Become
  <1>2. DOMAIN req' = Requests /\ \A p \in Requests \ {q} : req'[p] = req[p]
    BY DEF Become
  <1>3. OnlyOf(q)
    BY <1>2 DEF OnlyOf, Become
  <1> QED
    BY <1>1, <1>3

LEMMA EndIs ==
    ASSUME NEW q \in Requests, NEW stage, DOMAIN req = Requests, End(q, stage),
           stage \notin Suspended \cup {"running"}, NEW keys
    PROVE  GoesOn(q, keys)
  <1>1. req' = [req EXCEPT ![q] = [NoRequest EXCEPT !.stage = stage]]
    BY DEF End
  <1>2. OnlyOf(q)
    BY <1>1 DEF OnlyOf
  <1>3. req'[q] = [NoRequest EXCEPT !.stage = stage]
    BY <1>1
  <1>4. DOMAIN req'[q] = DOMAIN NoRequest /\ req'[q].stage = stage
    BY <1>3 DEF NoRequest
  <1> QED
    BY <1>2, <1>4 DEF GoesOn

\* The requests keep their shape; a suspended one looked at a set no newer than the cache's.
RequestsOK ==
    /\ DOMAIN req = Requests
    /\ \A q \in Requests :
          /\ DOMAIN req[q] = DOMAIN NoRequest
          /\ req[q].stage \in Suspended =>
                req[q].seen.fetchedAt \in Int /\ req[q].seen.fetchedAt <= cache.fetchedAt

LEMMA Fields ==
    DOMAIN NoRequest =
        {"stage", "ask", "session", "seen", "answer", "caller", "person", "key", "made", "live"}
  BY DEF NoRequest

\* A call that is let in is let in by the key it brings.
LEMMA AdmittedBy ==
    ASSUME NEW q \in Requests, RequestsOK, NEW principal, NEW person, NEW key, NEW keys, key \in keys,
           Admitted(q, principal, person, key)
    PROVE  GoesOn(q, keys)
  <1>1. CASE Refuse(q)
    BY <1>1, EndIs DEF Refuse, RequestsOK, Suspended, Fetching
  <1>2. CASE Become(q, [stage |-> "running", caller |-> PrincipalKey(principal),
                        person |-> person, key |-> key, seen |-> EmptyCache])
    <2> DEFINE fields == [stage |-> "running", caller |-> PrincipalKey(principal),
                          person |-> person, key |-> key, seen |-> EmptyCache]
    <2>1. DOMAIN fields = {"stage", "caller", "person", "key", "seen"}
      OBVIOUS
    <2>2. DOMAIN req = Requests /\ DOMAIN req[q] = DOMAIN NoRequest
      BY DEF RequestsOK
    <2>3. /\ OnlyOf(q) /\ DOMAIN req'[q] = DOMAIN NoRequest
          /\ \A x \in DOMAIN req[q] \cap DOMAIN fields : req'[q][x] = fields[x]
      BY <1>2, <2>2, BecomeIs
    <2>4. req'[q].stage = "running" /\ req'[q].key = key
      BY <2>1, <2>2, <2>3, Fields
    <2> QED
      BY <2>3, <2>4 DEF GoesOn, Suspended, Fetching
  <1> QED
    BY <1>1, <1>2 DEF Admitted

LEMMA ValidatedBy ==
    ASSUME NEW q \in Requests, RequestsOK, NEW found, Validated(q, found)
    PROVE  GoesOn(q, found)
  <1>1. CASE Rejected(q)
    BY <1>1, EndIs DEF Rejected, Refuse, RequestsOK, Suspended, Fetching
  <1>2. CASE \E k \in found : \E principal, person : Admitted(q, principal, person, k)
    BY <1>2, AdmittedBy
  <1> QED
    BY <1>1, <1>2 DEF Validated

-------------------------------------------------------------------------------
(* The cache: the issuer listed each of its keys when the set was stored,  *)
(* or at most FetchTimeout earlier.                                        *)

CacheOK ==
    /\ now \in Nat /\ endpoint \in Answers
    /\ listed \in [Keys -> Int]
    /\ cache \in [keys : SUBSET Keys, fetchedAt : Int, ttl : Int, lastAttempt : Int]
    /\ cache.fetchedAt <= now /\ cache.ttl <= MaxTtl
    /\ \A k \in cache.keys :
          cache.fetchedAt # Never /\ cache.fetchedAt - listed[k] <= FetchTimeout
    /\ \A k \in KeysOf(endpoint) : listed[k] = now

\* The keys a call may still be let in by.
Recent == {k \in Keys : now - listed[k] < LongestUse + FetchTimeout} \cup {None}

LEMMA Longest ==
    /\ MaxStale <= LongestUse /\ MaxTtl <= LongestUse /\ LongestUse \in Nat \ {0}
    /\ FetchTimeout \in Nat
  BY JwksAssumption DEF LongestUse

\* The endpoint's keys are among those of the instance.
LEMMA EndpointKeys == ASSUME NEW a \in Answers PROVE KeysOf(a) \subseteq Keys
  BY DEF Keys

LEMMA FreshIsRecent ==
    ASSUME CacheOK, IsFresh(cache, now)
    PROVE  cache.keys \subseteq Recent
  <1> SUFFICES ASSUME NEW k \in cache.keys PROVE k \in Recent
    OBVIOUS
  <1>1. k \in Keys /\ listed[k] \in Int /\ cache.fetchedAt - listed[k] <= FetchTimeout
    BY DEF CacheOK
  <1>2. now - cache.fetchedAt < MaxTtl
    BY JwksAssumption DEF CacheOK, IsFresh
  <1>3. now - listed[k] < LongestUse + FetchTimeout
    BY <1>1, <1>2, Longest, JwksAssumption DEF CacheOK
  <1> QED
    BY <1>1, <1>3 DEF Recent

\* A set no older than one that has not gone stale may be used.
LEMMA UsableIsRecent ==
    ASSUME CacheOK, NEW at \in Int, at # Never, at <= cache.fetchedAt, now - at < MaxStale
    PROVE  cache.keys \subseteq Recent
  <1> SUFFICES ASSUME NEW k \in cache.keys PROVE k \in Recent
    OBVIOUS
  <1>1. k \in Keys /\ listed[k] \in Int /\ cache.fetchedAt - listed[k] <= FetchTimeout
    BY DEF CacheOK
  <1>2. now - listed[k] < LongestUse + FetchTimeout
    BY <1>1, Longest, JwksAssumption DEF CacheOK
  <1> QED
    BY <1>1, <1>2 DEF Recent

LEMMA TtlBounded ==
    ASSUME NEW age \in Nat \cup {Never}
    PROVE  TtlOf(age) \in Int /\ TtlOf(age) <= MaxTtl
  BY JwksAssumption DEF TtlOf, Never

LEMMA GoesOnKeeps ==
    ASSUME NEW q \in Requests, NEW keys, RequestsOK, GoesOn(q, keys),
           cache.fetchedAt \in Int, cache'.fetchedAt \in Int, cache.fetchedAt <= cache'.fetchedAt
    PROVE  RequestsOK'
  <1>1. DOMAIN req' = Requests /\ \A p \in Requests \ {q} : req'[p] = req[p]
    BY DEF GoesOn, OnlyOf
  <1>2. ASSUME NEW p \in Requests
        PROVE  /\ DOMAIN req'[p] = DOMAIN NoRequest
               /\ req'[p].stage \in Suspended =>
                     req'[p].seen.fetchedAt \in Int /\ req'[p].seen.fetchedAt <= cache'.fetchedAt
    <2>1. CASE p = q
      BY <2>1 DEF GoesOn
    <2>2. CASE p # q
      BY <1>1, <2>2 DEF RequestsOK
    <2> QED
      BY <2>1, <2>2
  <1>3. DOMAIN NoRequest' = DOMAIN NoRequest
    BY DEF NoRequest, EmptyCache
  <1> QED
    BY <1>1, <1>2, <1>3 DEF RequestsOK

\* The request q waits for the mutex of the refresh, with the set it has looked at.
Waits(q) ==
    /\ OnlyOf(q) /\ DOMAIN req'[q] = DOMAIN NoRequest
    /\ req'[q].stage = "waiting" /\ req'[q].seen = Seen(cache)

LEMMA WaitsKeeps ==
    ASSUME NEW q \in Requests, RequestsOK, CacheOK, Waits(q), cache' = cache
    PROVE  RequestsOK'
  <1>1. DOMAIN req' = Requests /\ \A p \in Requests \ {q} : req'[p] = req[p]
    BY DEF Waits, OnlyOf
  <1>2. Seen(cache).fetchedAt = cache.fetchedAt /\ cache.fetchedAt \in Int
    BY DEF Seen, CacheOK
  <1>3. ASSUME NEW p \in Requests
        PROVE  /\ DOMAIN req'[p] = DOMAIN NoRequest
               /\ req'[p].stage \in Suspended =>
                     req'[p].seen.fetchedAt \in Int /\ req'[p].seen.fetchedAt <= cache'.fetchedAt
    <2>1. CASE p = q
      BY <1>2, <2>1 DEF Waits
    <2>2. CASE p # q
      BY <1>1, <2>2 DEF RequestsOK
    <2> QED
      BY <2>1, <2>2
  <1> QED
    BY <1>1, <1>3 DEF RequestsOK

-------------------------------------------------------------------------------
(* The actions. *)

\* What a step of one request that leaves the cache alone does to it.
Moves(q) == GoesOn(q, Recent) \/ Waits(q)

LEMMA Weaker ==
    ASSUME NEW q, NEW small, NEW large, small \subseteq large, GoesOn(q, small)
    PROVE  GoesOn(q, large)
  BY DEF GoesOn

\* A request becomes one that waits, or moves to a stage without keys.
LEMMA BecomesWaiting ==
    ASSUME NEW q \in Requests, RequestsOK,
           Become(q, [stage |-> "waiting", seen |-> Seen(cache)])
    PROVE  Waits(q)
  <1> DEFINE fields == [stage |-> "waiting", seen |-> Seen(cache)]
  <1>1. DOMAIN fields = {"stage", "seen"} /\ fields["stage"] = "waiting" /\ fields["seen"] = Seen(cache)
    OBVIOUS
  <1>2. DOMAIN req = Requests /\ DOMAIN req[q] = DOMAIN NoRequest
    BY DEF RequestsOK
  <1>3. /\ OnlyOf(q) /\ DOMAIN req'[q] = DOMAIN NoRequest
        /\ \A x \in DOMAIN req[q] \cap DOMAIN fields : req'[q][x] = fields[x]
    BY <1>2, BecomeIs
  <1>4. req'[q].stage = "waiting" /\ req'[q].seen = Seen(cache)
    BY <1>1, <1>2, <1>3, Fields
  <1> QED
    BY <1>3, <1>4 DEF Waits

LEMMA BecomesIdle ==
    ASSUME NEW q \in Requests, RequestsOK, NEW fields, "stage" \in DOMAIN fields,
           fields["stage"] \notin Suspended \cup {"running"}, Become(q, fields), NEW keys
    PROVE  GoesOn(q, keys)
  <1>1. DOMAIN req = Requests /\ DOMAIN req[q] = DOMAIN NoRequest
    BY DEF RequestsOK
  <1>2. /\ OnlyOf(q) /\ DOMAIN req'[q] = DOMAIN NoRequest
        /\ \A x \in DOMAIN req[q] \cap DOMAIN fields : req'[q][x] = fields[x]
    BY <1>1, BecomeIs
  <1>3. req'[q].stage = fields["stage"]
    BY <1>1, <1>2, Fields
  <1> QED
    BY <1>2, <1>3 DEF GoesOn

LEMMA ConnectMoves ==
    ASSUME NEW q \in Requests, RequestsOK, Connect(q)
    PROVE  Moves(q)
  <1>1. PICK ask \in Asks[setup.mode], session \in DOMAIN opened \union {None} :
            Become(q, [stage |-> IF ask.kind = "probe" THEN "probing" ELSE "arrived",
                       ask |-> ask, session |-> session])
    BY DEF Connect
  <1> DEFINE fields == [stage |-> IF ask.kind = "probe" THEN "probing" ELSE "arrived",
                        ask |-> ask, session |-> session]
  <1>2. "stage" \in DOMAIN fields /\ fields["stage"] \notin Suspended \cup {"running"}
    BY DEF Suspended, Fetching
  <1> QED
    BY <1>1, <1>2, BecomesIdle DEF Moves

LEMMA RejectedMoves ==
    ASSUME NEW q \in Requests, RequestsOK, Rejected(q) \/ Refuse(q)
    PROVE  GoesOn(q, Recent)
  BY EndIs DEF Rejected, Refuse, RequestsOK, Suspended, Fetching

\* What a token brings its caller, by the mode of the server.
LEMMA AuthenticateMoves ==
    ASSUME NEW q \in Requests, RequestsOK, CacheOK, Authenticate(q)
    PROVE  Moves(q)
  <1> DEFINE token == req[q].ask.token
             look == FirstLook(cache, token.kid, now)
             found == IF look = "found" THEN Named(cache, token.kid) ELSE {}
             known == {t \in tokens : token # None /\ t.secret = token.secret}
             plain == Admitted(q, Anonymous, "anonymous", None)
             bearer == \E t \in known : Admitted(q, Principal("bearer", t.name, t.scopes),
                                                <<"secret", t.secret>>, None)
             parks == Become(q, [stage |-> "waiting", seen |-> Seen(cache)])
  <1>1. CASE Refuse(q) \/ Rejected(q)
    BY <1>1, RejectedMoves DEF Moves
  <1>2. None \in Recent
    BY DEF Recent
  <1>3. CASE plain
    <2>1. GoesOn(q, Recent)
      BY <1>2, <1>3, AdmittedBy
    <2> QED
      BY <2>1 DEF Moves
  <1>4. CASE bearer
    <2>1. PICK t \in known : Admitted(q, Principal("bearer", t.name, t.scopes),
                                     <<"secret", t.secret>>, None)
      BY <1>4
    <2>2. GoesOn(q, Recent)
      BY <1>2, <2>1, AdmittedBy
    <2> QED
      BY <2>2 DEF Moves
  <1>5. CASE parks
    BY <1>5, BecomesWaiting DEF Moves
  <1>6. CASE Validated(q, found)
    <2>1. found \subseteq Recent
      BY FreshIsRecent DEF FirstLook, Named
    <2> QED
      BY <1>6, <2>1, ValidatedBy, Weaker DEF Moves
  <1>7. Refuse(q) \/ Rejected(q) \/ plain \/ bearer \/ parks \/ Validated(q, found)
    BY DEF Authenticate
  <1> HIDE DEF plain, bearer, parks, found, token
  <1> QED
    BY <1>1, <1>3, <1>4, <1>5, <1>6, <1>7

LEMMA ProbeMoves ==
    ASSUME NEW q \in Requests, RequestsOK, Probe(q)
    PROVE  Moves(q)
  <1>1. CASE End(q, "served") \/ End(q, "refused")
    BY <1>1, EndIs DEF Moves, Suspended, Fetching, RequestsOK
  <1>2. CASE Become(q, [stage |-> "waiting", seen |-> Seen(cache)])
    BY <1>2, BecomesWaiting DEF Moves
  <1> QED
    BY <1>1, <1>2 DEF Probe

LEMMA ServiceMoves ==
    ASSUME NEW q \in Requests, RequestsOK,
           Run(q) \/ StreamEnds(q) \/ ReadLive(q) \/ Bind(q) \/ Unbind(q) \/ Leave(q)
    PROVE  GoesOn(q, Recent)
  <1>1. CASE \E stage \in {"served", "refused", "left"} : End(q, stage)
    BY <1>1, EndIs DEF Suspended, Fetching, RequestsOK
  <1>2. CASE \E s : Become(q, [stage |-> "binding", made |-> s])
    <2>1. PICK s : Become(q, [stage |-> "binding", made |-> s])
      BY <1>2
    <2>2. /\ "stage" \in DOMAIN [stage |-> "binding", made |-> s]
          /\ [stage |-> "binding", made |-> s]["stage"] \notin Suspended \cup {"running"}
      BY DEF Suspended, Fetching
    <2> QED
      BY <2>1, <2>2, BecomesIdle
  <1>3. CASE Become(q, [stage |-> "unbinding"]) \/ Become(q, [stage |-> "streaming"])
    <2>1. \A s \in {"unbinding", "streaming"} :
             "stage" \in DOMAIN [stage |-> s] /\ [stage |-> s]["stage"] \notin Suspended \cup {"running"}
      BY DEF Suspended, Fetching
    <2> QED
      BY <1>3, <2>1, BecomesIdle
  <1>4. CASE Become(q, [stage |-> "bound", live |-> sessions])
    <2>1. /\ "stage" \in DOMAIN [stage |-> "bound", live |-> sessions]
          /\ [stage |-> "bound", live |-> sessions]["stage"] \notin Suspended \cup {"running"}
      BY DEF Suspended, Fetching
    <2> QED
      BY <1>4, <2>1, BecomesIdle
  <1>5. CASE Bind(q)
    <2>1. req' = [req EXCEPT ![q] = [NoRequest EXCEPT !.stage = "served", !.made = req[q].made,
                                                     !.caller = req[q].caller]]
      BY <1>5 DEF Bind
    <2>2. OnlyOf(q)
      BY <2>1 DEF OnlyOf, RequestsOK
    <2>3. req'[q] = [NoRequest EXCEPT !.stage = "served", !.made = req[q].made,
                                      !.caller = req[q].caller]
      BY <2>1 DEF RequestsOK
    <2>4. DOMAIN req'[q] = DOMAIN NoRequest /\ req'[q].stage = "served"
      BY <2>3 DEF NoRequest
    <2> QED
      BY <2>2, <2>4 DEF GoesOn, Suspended, Fetching
  <1>6. CASE Run(q)
    <2> DEFINE made == \E s : Become(q, [stage |-> "binding", made |-> s])
               moved == Become(q, [stage |-> "unbinding"]) \/ Become(q, [stage |-> "streaming"])
               ended == End(q, "served") \/ End(q, "refused")
    <2>1. ended \/ made \/ moved
      <3>1. End(q, "served") => ended
        OBVIOUS
      <3>2. Refuse(q) => ended
        BY DEF Refuse
      <3>3. \A s : Become(q, [stage |-> "binding", made |-> s]) => made
        OBVIOUS
      <3> HIDE DEF ended, made
      <3> QED
        BY <1>6, <3>1, <3>2, <3>3 DEF Run
    <2>2. ended => \E stage \in {"served", "refused", "left"} : End(q, stage)
      OBVIOUS
    <2> HIDE DEF ended
    <2> QED
      BY <1>1, <1>2, <1>3, <2>1, <2>2
  <1>7. CASE StreamEnds(q) \/ Unbind(q) \/ Leave(q)
    <2>1. End(q, "served") \/ End(q, "left")
      BY <1>7 DEF StreamEnds, Unbind, Leave
    <2> QED
      BY <1>1, <2>1
  <1>8. CASE ReadLive(q)
    BY <1>4, <1>8 DEF ReadLive
  <1> QED
    BY <1>5, <1>6, <1>7, <1>8

\* After a refresh a caller is let in by a key it may still be let in by.
LEMMA RefreshedMoves ==
    ASSUME NEW q \in Requests, RequestsOK, NEW ok, NEW keys, Refreshed(q, ok, keys),
           ok \/ ~Unusable(req[q].seen, now) => keys \subseteq Recent
    PROVE  GoesOn(q, Recent)
  <1> DEFINE named == {k \in keys : k.kid = req[q].ask.token.kid}
  <1>1. CASE End(q, "served") \/ End(q, "refused")
    BY <1>1, EndIs DEF Suspended, Fetching, RequestsOK
  <1>2. CASE Rejected(q)
    BY <1>2, RejectedMoves
  <1>3. CASE (ok \/ ~Unusable(req[q].seen, now)) /\ Validated(q, named)
    <2>1. named \subseteq Recent
      BY <1>3
    <2>2. GoesOn(q, named)
      BY <1>3, ValidatedBy
    <2> QED
      BY <2>1, <2>2, Weaker
  <1> HIDE DEF named
  <1>4. Refreshed(q, ok, keys) =>
           \/ End(q, "served") \/ End(q, "refused") \/ Rejected(q)
           \/ (ok \/ ~Unusable(req[q].seen, now)) /\ Validated(q, named)
    BY DEF Refreshed, named
  <1> QED
    BY <1>1, <1>2, <1>3, <1>4

\* What a request looked at before it waited may be used only while it is younger than MaxStale.
LEMMA SeenIsRecent ==
    ASSUME NEW q \in Requests, RequestsOK, CacheOK, req[q].stage \in Suspended,
           ~Unusable(req[q].seen, now)
    PROVE  cache.keys \subseteq Recent
  <1> DEFINE at == req[q].seen.fetchedAt
  <1>1. at \in Int /\ at <= cache.fetchedAt
    BY DEF RequestsOK
  <1>2. at # Never /\ ~(now - at >= MaxStale)
    BY DEF Unusable, IsStale
  <1>3. now - at < MaxStale
    BY <1>1, <1>2, JwksAssumption DEF CacheOK
  <1> HIDE DEF at
  <1> QED
    BY <1>1, <1>2, <1>3, UsableIsRecent

\* The request that holds the mutex is the one the endpoint is to answer, at most one; the
\* issuer listed the keys of an answer after the request for it was sent, and the times of
\* these requests, of which the cache knows the last, lie an interval apart.
FetchOK ==
    /\ \A q \in Requests : req[q].stage \in Fetching => refreshing = q
    /\ \A q \in Requests : req[q].stage = "reading" =>
          /\ req[q].answer \in Answers
          /\ \A k \in KeysOf(req[q].answer) : cache.lastAttempt <= listed[k]
    /\ cache.lastAttempt <= now
    /\ asked \in Seq(Int)
    /\ \A i, j \in DOMAIN asked : i < j => asked[j] - asked[i] >= RefreshInterval
    /\ asked # << >> => cache.lastAttempt = asked[Len(asked)] /\ cache.lastAttempt # Never

\* The request q takes the mutex and asks the endpoint, no sooner than an interval after
\* the last attempt.
AsksAgain(q) ==
    /\ OnlyOf(q) /\ DOMAIN req'[q] = DOMAIN NoRequest
    /\ req[q].stage \in Suspended
    /\ req'[q].stage = "fetching" /\ req'[q].seen = req[q].seen
    /\ ~IsThrottled(cache, now) /\ asked' = Append(asked, now)
    /\ refreshing = None /\ refreshing' = q

LEMMA EnterRefreshMoves ==
    ASSUME NEW q \in Requests, RequestsOK, CacheOK, EnterRefresh(q)
    PROVE  \/ AsksAgain(q) /\ cache' = Attempted(cache, now)
           \/ GoesOn(q, Recent) /\ UNCHANGED <<cache, asked, refreshing>>
  <1> DEFINE found == UnderMutex(cache, req[q].seen.fetchedAt, now)
  <1>1. req[q].stage = "waiting"
    BY DEF EnterRefresh
  <1>2. CASE found = "fetch"
    <2> DEFINE fields == [stage |-> "fetching"]
    <2>1. Become(q, fields) /\ cache' = Attempted(cache, now)
      BY <1>2 DEF EnterRefresh
    <2>2. DOMAIN req = Requests /\ DOMAIN req[q] = DOMAIN NoRequest
      BY DEF RequestsOK
    <2>3. DOMAIN fields = {"stage"} /\ fields["stage"] = "fetching"
      OBVIOUS
    <2> HIDE DEF fields
    <2>4. /\ OnlyOf(q) /\ DOMAIN req'[q] = DOMAIN NoRequest
          /\ \A x \in DOMAIN req[q] \cap DOMAIN fields : req'[q][x] = fields[x]
          /\ \A x \in DOMAIN req[q] \ DOMAIN fields : req'[q][x] = req[q][x]
      BY <2>1, <2>2, BecomeIs
    <2>5. req'[q].stage = "fetching" /\ req'[q].seen = req[q].seen
      BY <2>2, <2>3, <2>4, Fields
    <2>6. /\ ~IsThrottled(cache, now) /\ asked' = Append(asked, now)
          /\ refreshing = None /\ refreshing' = q
      BY <1>2 DEF UnderMutex, EnterRefresh
    <2> QED
      BY <1>1, <2>1, <2>4, <2>5, <2>6 DEF AsksAgain, Suspended, Fetching
  <1>3. CASE found # "fetch"
    <2>1. Refreshed(q, found = "done", cache.keys) /\ UNCHANGED <<cache, asked, refreshing>>
      BY <1>3 DEF EnterRefresh
    <2>2. found = "done" => cache.keys \subseteq Recent
      <3>1. CASE IsFresh(cache, now)
        BY <3>1, FreshIsRecent
      <3>2. CASE ~Unusable(cache, now)
        <4> DEFINE at == cache.fetchedAt
        <4>1. at \in Int /\ at # Never /\ now - at < MaxStale
          BY <3>2, JwksAssumption DEF Unusable, IsStale, CacheOK
        <4> QED
          BY <4>1, UsableIsRecent
      <3> QED
        BY <3>1, <3>2 DEF UnderMutex
    <2>3. ~Unusable(req[q].seen, now) => cache.keys \subseteq Recent
      BY <1>1, SeenIsRecent DEF Suspended, Fetching
    <2> HIDE DEF found
    <2>4. GoesOn(q, Recent)
      BY <2>1, <2>2, <2>3, RefreshedMoves
    <2> QED
      BY <2>1, <2>4
  <1> QED
    BY <1>2, <1>3

\* The endpoint answers the request q with its document.
IsAnswered(q) ==
    /\ OnlyOf(q) /\ DOMAIN req'[q] = DOMAIN NoRequest
    /\ req[q].stage = "fetching" /\ req'[q].stage = "reading"
    /\ req'[q].seen = req[q].seen /\ req'[q].answer = endpoint

LEMMA EndpointAnswersMoves ==
    ASSUME NEW q \in Requests, RequestsOK, EndpointAnswers(q)
    PROVE  IsAnswered(q)
  <1> DEFINE fields == [stage |-> "reading", answer |-> endpoint]
  <1>1. Become(q, fields) /\ req[q].stage = "fetching"
    BY DEF EndpointAnswers
  <1>2. DOMAIN req = Requests /\ DOMAIN req[q] = DOMAIN NoRequest
    BY DEF RequestsOK
  <1>3. /\ DOMAIN fields = {"stage", "answer"}
        /\ fields["stage"] = "reading" /\ fields["answer"] = endpoint
    OBVIOUS
  <1> HIDE DEF fields
  <1>4. /\ OnlyOf(q) /\ DOMAIN req'[q] = DOMAIN NoRequest
        /\ \A x \in DOMAIN req[q] \cap DOMAIN fields : req'[q][x] = fields[x]
        /\ \A x \in DOMAIN req[q] \ DOMAIN fields : req'[q][x] = req[q][x]
    BY <1>1, <1>2, BecomeIs
  <1>5. /\ req'[q].stage = "reading" /\ req'[q].answer = endpoint
        /\ req'[q].seen = req[q].seen
    BY <1>2, <1>3, <1>4, Fields
  <1> QED
    BY <1>1, <1>4, <1>5 DEF IsAnswered

\* A set is stored at most FetchTimeout after the request for it was sent.
LEMMA FetchEndsMoves ==
    ASSUME NEW q \in Requests, RequestsOK, CacheOK, FetchOK, FetchEnds(q)
    PROVE  /\ GoesOn(q, Recent)
           /\ \/ cache' = cache
              \/ \E a \in Answers :
                    /\ cache' = Stored(cache, KeysOf(a), a.maxAge, now)
                    /\ \A k \in KeysOf(a) : now - listed[k] <= FetchTimeout
  <1> DEFINE answer == req[q].answer
             inTime == req[q].stage = "reading" /\ now - cache.lastAttempt <= FetchTimeout
  <1>1. PICK keys \in {{}} \union IF inTime THEN {KeysOf(answer)} ELSE {} :
           /\ cache' = IF keys = {} THEN cache ELSE Stored(cache, keys, answer.maxAge, now)
           /\ Refreshed(q, keys # {}, cache'.keys)
    BY DEF FetchEnds
  <1>2. req[q].stage \in Suspended
    BY DEF FetchEnds, Suspended
  <1>3. CASE keys # {}
    <2>1. inTime /\ keys = KeysOf(answer)
      BY <1>1, <1>3
    <2>2. answer \in Answers /\ \A k \in keys : cache.lastAttempt <= listed[k]
      BY <2>1 DEF FetchOK
    <2>3. cache' = Stored(cache, keys, answer.maxAge, now)
      BY <1>1, <1>3
    <2>4. cache'.keys = keys
      BY <2>3 DEF Stored, CacheOK
    <2>5. keys \subseteq Keys
      BY <2>1, <2>2, EndpointKeys
    <2>6. \A k \in keys : now - listed[k] <= FetchTimeout
      <3>1. now - cache.lastAttempt <= FetchTimeout
        BY <2>1
      <3>2. now \in Int /\ cache.lastAttempt \in Int /\ \A k \in keys : listed[k] \in Int
        BY <2>5 DEF CacheOK
      <3> HIDE DEF inTime, answer
      <3> QED
        BY <2>2, <3>1, <3>2, Longest
    <2> HIDE DEF inTime, answer
    <2>7. keys \subseteq Recent
      <3> SUFFICES ASSUME NEW k \in keys PROVE k \in Recent
        OBVIOUS
      <3>1. k \in Keys /\ listed[k] \in Int /\ now \in Int
        BY <2>5 DEF CacheOK
      <3>2. now - listed[k] < LongestUse + FetchTimeout
        BY <2>6, <3>1, Longest
      <3> QED
        BY <3>1, <3>2 DEF Recent
    <2>8. GoesOn(q, Recent)
      BY <1>1, <2>4, <2>7, RefreshedMoves
    <2> QED
      BY <2>1, <2>2, <2>3, <2>6, <2>8
  <1>4. CASE keys = {}
    <2>1. cache' = cache
      BY <1>1, <1>4
    <2>2. ~Unusable(req[q].seen, now) => cache'.keys \subseteq Recent
      BY <1>2, <2>1, SeenIsRecent
    <2>3. Refreshed(q, FALSE, cache'.keys)
      BY <1>1, <1>4
    <2>4. GoesOn(q, Recent)
      BY <2>2, <2>3, RefreshedMoves
    <2> QED
      BY <2>1, <2>4
  <1> QED
    BY <1>3, <1>4

-------------------------------------------------------------------------------
(* The invariant. *)

KeysOK == RequestsOK /\ CacheOK /\ FetchOK

LEMMA StoredKeeps ==
    ASSUME CacheOK, UNCHANGED <<now, endpoint, listed>>, NEW a \in Answers,
           cache' = Stored(cache, KeysOf(a), a.maxAge, now),
           \A k \in KeysOf(a) : now - listed[k] <= FetchTimeout
    PROVE  /\ CacheOK' /\ cache.fetchedAt <= cache'.fetchedAt
           /\ cache'.lastAttempt = cache.lastAttempt
  <1> DEFINE keys == KeysOf(a)
             ttl == TtlOf(a.maxAge)
  <1>1. keys \subseteq Keys /\ \A k \in keys : now - listed[k] <= FetchTimeout
    BY EndpointKeys DEF CacheOK
  <1>2. ttl \in Int /\ ttl <= MaxTtl
    BY TtlBounded, GatewayAssumption DEF CacheOK
  <1> HIDE DEF keys, ttl
  <1>3. cache' = [cache EXCEPT !.keys = keys, !.ttl = ttl, !.fetchedAt = now]
    BY DEF Stored, keys, ttl
  <1>4. /\ cache' \in [keys : SUBSET Keys, fetchedAt : Int, ttl : Int, lastAttempt : Int]
        /\ cache'.keys = keys /\ cache'.ttl = ttl /\ cache'.fetchedAt = now
        /\ cache'.lastAttempt = cache.lastAttempt
    <2>1. /\ cache \in [keys : SUBSET Keys, fetchedAt : Int, ttl : Int, lastAttempt : Int]
          /\ now \in Int
      BY DEF CacheOK
    <2>2. keys \in SUBSET Keys /\ ttl \in Int
      BY <1>1, <1>2
    <2> QED
      BY <1>3, <2>1, <2>2
  <1>5. now \in Nat /\ now # Never
    BY DEF CacheOK, Never
  <1>6. \A k \in cache'.keys :
           cache'.fetchedAt # Never /\ cache'.fetchedAt - listed'[k] <= FetchTimeout
    BY <1>1, <1>4, <1>5
  <1>7. cache'.fetchedAt <= now' /\ cache'.ttl <= MaxTtl
    BY <1>2, <1>4, <1>5
  <1>8. cache.fetchedAt <= cache'.fetchedAt
    BY <1>4 DEF CacheOK
  <1>9. now' \in Nat /\ endpoint' \in Answers /\ listed' \in [Keys -> Int]
        /\ \A k \in KeysOf(endpoint') : listed'[k] = now'
    BY DEF CacheOK
  <1>10. CacheOK'
    BY <1>4, <1>6, <1>7, <1>9 DEF CacheOK
  <1> QED
    BY <1>4, <1>8, <1>10

LEMMA AttemptedKeeps ==
    ASSUME CacheOK, UNCHANGED <<now, endpoint, listed>>, cache' = Attempted(cache, now)
    PROVE  /\ CacheOK' /\ cache'.fetchedAt = cache.fetchedAt
           /\ cache'.lastAttempt = now
  <1>1. cache' \in [keys : SUBSET Keys, fetchedAt : Int, ttl : Int, lastAttempt : Int]
    BY DEF Attempted, CacheOK
  <1>2. /\ cache'.keys = cache.keys /\ cache'.ttl = cache.ttl
        /\ cache'.fetchedAt = cache.fetchedAt /\ cache'.lastAttempt = now
    BY DEF Attempted, CacheOK
  <1> QED
    BY <1>1, <1>2 DEF CacheOK

LEMMA SameCacheKeeps ==
    ASSUME CacheOK, UNCHANGED <<now, endpoint, listed, cache>>
    PROVE  CacheOK'
  BY DEF CacheOK

\* A step of a request that is not about to be answered.
LEMMA OthersFetch ==
    ASSUME NEW q \in Requests, FetchOK, OnlyOf(q), req'[q].stage \notin Fetching,
           UNCHANGED <<now, listed, asked>>, cache'.lastAttempt = cache.lastAttempt,
           refreshing' = refreshing \/ refreshing = q
    PROVE  FetchOK'
  <1>1. \A p \in Requests : req'[p].stage \in Fetching => req'[p] = req[p] /\ p # q
    BY DEF OnlyOf
  <1>2. \A p \in Requests : req'[p].stage \in Fetching => refreshing' = p
    BY <1>1 DEF FetchOK
  <1>3. ASSUME NEW p \in Requests, req'[p].stage = "reading"
        PROVE  /\ req'[p].answer \in Answers
               /\ \A k \in KeysOf(req'[p].answer) : cache'.lastAttempt <= listed'[k]
    <2>1. req'[p] = req[p]
      BY <1>1, <1>3 DEF Fetching
    <2> QED
      BY <1>3, <2>1 DEF FetchOK
  <1> QED
    BY <1>2, <1>3 DEF FetchOK

\* A step of one request that leaves the rest of the cache's world alone.
LEMMA MovesKeeps ==
    ASSUME NEW q \in Requests, KeysOK, Moves(q), UNCHANGED <<now, endpoint, listed, cache, asked>>,
           refreshing' = refreshing \/ refreshing = q
    PROVE  KeysOK'
  <1>1. CacheOK'
    BY SameCacheKeeps DEF KeysOK
  <1>2. cache.fetchedAt \in Int /\ cache'.fetchedAt \in Int /\ cache.fetchedAt <= cache'.fetchedAt
    BY DEF KeysOK, CacheOK
  <1>3. GoesOn(q, Recent) => RequestsOK'
    BY <1>2, GoesOnKeeps DEF KeysOK
  <1>4. Waits(q) => RequestsOK'
    BY WaitsKeeps DEF KeysOK
  <1>5. RequestsOK'
    BY <1>3, <1>4 DEF Moves
  <1>6. OnlyOf(q) /\ req'[q].stage \notin Fetching
    BY DEF Moves, GoesOn, Waits, Suspended, Fetching
  <1>7. FetchOK'
    BY <1>6, OthersFetch DEF KeysOK
  <1> QED
    BY <1>1, <1>5, <1>7 DEF KeysOK

\* Nobody else has a request out when one is sent, and the last was sent an interval ago.
LEMMA AsksFetch ==
    ASSUME NEW q \in Requests, CacheOK, FetchOK, AsksAgain(q), None \notin Requests,
           UNCHANGED <<now, listed>>, cache'.lastAttempt = now
    PROVE  FetchOK'
  <1>1. /\ \A p \in Requests \ {q} : req'[p] = req[p]
        /\ req'[q].stage = "fetching" /\ refreshing = None /\ refreshing' = q
    BY DEF AsksAgain, OnlyOf
  <1>2. \A p \in Requests : req'[p].stage \in Fetching => p = q
    BY <1>1 DEF FetchOK
  <1>3. /\ \A p \in Requests : req'[p].stage \in Fetching => refreshing' = p
        /\ \A p \in Requests : req'[p].stage # "reading"
    BY <1>1, <1>2 DEF Fetching
  <1>4. asked' = Append(asked, now) /\ asked \in Seq(Int) /\ now \in Int /\ now # Never
    BY DEF AsksAgain, FetchOK, CacheOK, Never
  <1>5. /\ asked' \in Seq(Int) /\ Len(asked') = Len(asked) + 1 /\ asked'[Len(asked')] = now
        /\ \A i \in 1..Len(asked) : asked'[i] = asked[i]
        /\ DOMAIN asked = 1..Len(asked) /\ DOMAIN asked' = 1..Len(asked')
    BY <1>4
  <1>6. \A i \in 1..Len(asked) : now - asked[i] >= RefreshInterval
    <2> SUFFICES ASSUME NEW i \in 1..Len(asked) PROVE now - asked[i] >= RefreshInterval
      OBVIOUS
    <2>1. asked # << >> /\ Len(asked) \in 1..Len(asked)
      BY <1>4
    <2>2. now - asked[Len(asked)] >= RefreshInterval
      <3>1. /\ cache.lastAttempt = asked[Len(asked)] /\ cache.lastAttempt # Never
            /\ cache.lastAttempt \in Int
        BY <2>1 DEF FetchOK, CacheOK
      <3>2. ~(now - cache.lastAttempt < RefreshInterval)
        BY <3>1 DEF AsksAgain, IsThrottled
      <3> QED
        BY <1>4, <3>1, <3>2, JwksAssumption
    <2>3. i = Len(asked) \/ asked[Len(asked)] - asked[i] >= RefreshInterval
      <3>1. i = Len(asked) \/ i < Len(asked)
        BY <1>4
      <3>2. i \in DOMAIN asked /\ Len(asked) \in DOMAIN asked
        BY <1>5, <2>1
      <3> QED
        BY <3>1, <3>2 DEF FetchOK
    <2>4. asked[i] \in Int /\ asked[Len(asked)] \in Int /\ RefreshInterval \in Nat
      BY <1>4, <2>1, JwksAssumption
    <2> QED
      BY <1>4, <2>2, <2>3, <2>4
  <1>7. \A i, j \in DOMAIN asked' : i < j => asked'[j] - asked'[i] >= RefreshInterval
    <2> SUFFICES ASSUME NEW i \in DOMAIN asked', NEW j \in DOMAIN asked', i < j
                 PROVE  asked'[j] - asked'[i] >= RefreshInterval
      OBVIOUS
    <2>1. i \in 1..Len(asked) /\ (j \in 1..Len(asked) \/ j = Len(asked'))
      BY <1>4, <1>5
    <2>2. CASE j \in 1..Len(asked)
      BY <1>5, <2>1, <2>2 DEF FetchOK
    <2>3. CASE j = Len(asked')
      BY <1>5, <1>6, <2>1, <2>3
    <2> QED
      BY <2>1, <2>2, <2>3
  <1>8. cache'.lastAttempt <= now'
    BY <1>4
  <1> QED
    BY <1>3, <1>4, <1>5, <1>7, <1>8 DEF FetchOK

LEMMA AnsweredKeeps ==
    ASSUME NEW q \in Requests, KeysOK, IsAnswered(q),
           UNCHANGED <<now, endpoint, listed, cache, asked, refreshing>>
    PROVE  KeysOK'
  <1>1. CacheOK'
    BY SameCacheKeeps DEF KeysOK
  <1>2. DOMAIN req' = Requests /\ \A p \in Requests \ {q} : req'[p] = req[p]
    BY DEF IsAnswered, OnlyOf
  <1>3. ASSUME NEW p \in Requests
        PROVE  /\ DOMAIN req'[p] = DOMAIN NoRequest
               /\ req'[p].stage \in Suspended =>
                     req'[p].seen.fetchedAt \in Int /\ req'[p].seen.fetchedAt <= cache'.fetchedAt
    <2>1. CASE p = q
      BY <2>1 DEF IsAnswered, KeysOK, RequestsOK, Suspended, Fetching
    <2>2. CASE p # q
      BY <1>2, <2>2 DEF KeysOK, RequestsOK
    <2> QED
      BY <2>1, <2>2
  <1>4. RequestsOK'
    BY <1>2, <1>3 DEF RequestsOK
  <1>5. ASSUME NEW p \in Requests
        PROVE  /\ req'[p].stage \in Fetching => refreshing' = p
               /\ req'[p].stage = "reading" =>
                     /\ req'[p].answer \in Answers
                     /\ \A k \in KeysOf(req'[p].answer) : cache'.lastAttempt <= listed'[k]
    <2>1. CASE p = q
      <3>1. refreshing = q
        BY DEF IsAnswered, KeysOK, FetchOK, Fetching
      <3>2. req'[q].answer = endpoint /\ endpoint \in Answers
        BY DEF IsAnswered, KeysOK, CacheOK
      <3>3. \A k \in KeysOf(endpoint) : cache.lastAttempt <= listed[k]
        BY DEF KeysOK, CacheOK, FetchOK
      <3> QED
        BY <2>1, <3>1, <3>2, <3>3
    <2>2. CASE p # q
      BY <1>2, <2>2 DEF KeysOK, FetchOK
    <2> QED
      BY <2>1, <2>2
  <1>6. FetchOK'
    BY <1>5 DEF KeysOK, FetchOK
  <1> QED
    BY <1>1, <1>4, <1>6 DEF KeysOK

\* The issuer lists keys on, and time goes on.
LEMMA LaterFetch ==
    ASSUME KeysOK, now' \in Int, now <= now', UNCHANGED <<cache, asked, refreshing, req>>,
           listed' \in [Keys -> Int],
           \A k \in Keys : listed'[k] = listed[k] \/ now <= listed'[k]
    PROVE  FetchOK'
  <1>1. cache.lastAttempt \in Int /\ now \in Int /\ cache.lastAttempt <= now
    BY DEF KeysOK, CacheOK, FetchOK
  <1>2. ASSUME NEW q \in Requests, req[q].stage = "reading", NEW k \in KeysOf(req[q].answer)
        PROVE  cache.lastAttempt <= listed'[k]
    <2>1. k \in Keys /\ cache.lastAttempt <= listed[k]
      BY <1>2, EndpointKeys DEF KeysOK, FetchOK
    <2>2. listed'[k] \in Int
      BY <2>1
    <2> QED
      BY <1>1, <2>1, <2>2
  <1>3. cache'.lastAttempt <= now'
    BY <1>1
  <1> QED
    BY <1>2, <1>3 DEF KeysOK, FetchOK

LEMMA AsksKeeps ==
    ASSUME NEW q \in Requests, RequestsOK, AsksAgain(q), cache'.fetchedAt = cache.fetchedAt
    PROVE  RequestsOK'
  <1>1. DOMAIN req' = Requests /\ \A p \in Requests \ {q} : req'[p] = req[p]
    BY DEF AsksAgain, OnlyOf
  <1>2. ASSUME NEW p \in Requests
        PROVE  /\ DOMAIN req'[p] = DOMAIN NoRequest
               /\ req'[p].stage \in Suspended =>
                     req'[p].seen.fetchedAt \in Int /\ req'[p].seen.fetchedAt <= cache'.fetchedAt
    <2>1. CASE p = q
      BY <2>1 DEF AsksAgain, RequestsOK
    <2>2. CASE p # q
      BY <1>1, <2>2 DEF RequestsOK
    <2> QED
      BY <2>1, <2>2
  <1> QED
    BY <1>1, <1>2 DEF RequestsOK

LEMMA TeardownKeeps ==
    ASSUME KeysOK, Teardown
    PROVE  /\ KeysOK'
           /\ \A q \in Requests : req'[q] = req[q] \/ req'[q].stage = "lost"
  <1>1. CacheOK'
    BY SameCacheKeeps DEF KeysOK, Teardown
  <1>2. /\ DOMAIN req' = Requests
        /\ \A q \in Requests :
              req'[q] = req[q] \/ req'[q] = [NoRequest EXCEPT !.stage = "lost"]
    BY DEF Teardown
  <1>3. DOMAIN [NoRequest EXCEPT !.stage = "lost"] = DOMAIN NoRequest
        /\ [NoRequest EXCEPT !.stage = "lost"].stage = "lost"
    BY DEF NoRequest
  <1>4. ASSUME NEW q \in Requests
        PROVE  /\ DOMAIN req'[q] = DOMAIN NoRequest
               /\ req'[q].stage \in Suspended =>
                     req'[q].seen.fetchedAt \in Int /\ req'[q].seen.fetchedAt <= cache'.fetchedAt
    <2>1. CASE req'[q] = req[q]
      BY <2>1 DEF Teardown, KeysOK, RequestsOK
    <2>2. CASE req'[q] = [NoRequest EXCEPT !.stage = "lost"]
      BY <1>3, <2>2 DEF Suspended, Fetching
    <2> QED
      BY <1>2, <2>1, <2>2
  <1>5. RequestsOK'
    BY <1>2, <1>4 DEF RequestsOK
  <1>6. \A q \in Requests : req'[q].stage \notin Fetching
    <2>1. \A q \in Requests : Ended(q) => req[q].stage \notin Fetching
      BY DEF Ended, Fetching
    <2>2. \A q \in Requests :
             \/ Ended(q) /\ req'[q] = req[q]
             \/ req'[q] = [NoRequest EXCEPT !.stage = "lost"]
      BY DEF Teardown
    <2> QED
      BY <1>3, <2>1, <2>2 DEF Fetching
  <1>7. FetchOK'
    <2>1. UNCHANGED <<cache, now, asked>>
      BY DEF Teardown
    <2> QED
      BY <1>6, <2>1 DEF KeysOK, FetchOK, Fetching
  <1> QED
    BY <1>1, <1>2, <1>3, <1>5, <1>7 DEF KeysOK

LEMMA EndpointChangesKeeps ==
    ASSUME KeysOK, NEW a \in Answers, EndpointChanges(a)
    PROVE  KeysOK'
  <1>1. KeysOf(a) \subseteq Keys
    BY EndpointKeys
  <1>2. /\ endpoint' = a /\ now' = now /\ cache' = cache
        /\ listed' = [k \in Keys |-> IF k \in KeysOf(endpoint) \union KeysOf(a) THEN now ELSE listed[k]]
    BY DEF EndpointChanges
  <1>3. listed' \in [Keys -> Int] /\ \A k \in Keys : listed'[k] = listed[k] \/ listed'[k] = now
    BY <1>2 DEF KeysOK, CacheOK
  <1>4. \A k \in KeysOf(endpoint') : listed'[k] = now'
    BY <1>1, <1>2
  <1>5. \A k \in cache.keys :
           cache.fetchedAt # Never /\ cache.fetchedAt - listed'[k] <= FetchTimeout
    BY <1>3, Longest DEF KeysOK, CacheOK
  <1>6. CacheOK'
    BY <1>2, <1>3, <1>4, <1>5 DEF KeysOK, CacheOK
  <1>7. RequestsOK'
    BY <1>2 DEF EndpointChanges, KeysOK, RequestsOK
  <1>8. FetchOK'
    <2>1. now' \in Int /\ now <= now' /\ UNCHANGED <<cache, asked, refreshing, req>>
      BY <1>2 DEF EndpointChanges, KeysOK, CacheOK
    <2>2. \A k \in Keys : listed'[k] = listed[k] \/ now <= listed'[k]
      BY <1>3 DEF KeysOK, CacheOK
    <2> QED
      BY <1>3, <2>1, <2>2, LaterFetch
  <1> QED
    BY <1>6, <1>7, <1>8 DEF KeysOK

LEMMA TickKeeps ==
    ASSUME KeysOK, Tick
    PROVE  KeysOK'
  <1>1. /\ now' = now + 1 /\ endpoint' = endpoint /\ cache' = cache
        /\ listed' = [k \in Keys |-> IF k \in KeysOf(endpoint) THEN now + 1 ELSE listed[k]]
    BY DEF Tick
  <1>2. KeysOf(endpoint) \subseteq Keys
    BY EndpointKeys DEF KeysOK, CacheOK
  <1>3. listed' \in [Keys -> Int] /\ \A k \in Keys : listed'[k] = listed[k] \/ listed'[k] = now + 1
    BY <1>1 DEF KeysOK, CacheOK
  <1>4. \A k \in KeysOf(endpoint') : listed'[k] = now'
    BY <1>1, <1>2
  <1>5. \A k \in cache.keys :
           cache.fetchedAt # Never /\ cache.fetchedAt - listed'[k] <= FetchTimeout
    BY <1>3, Longest DEF KeysOK, CacheOK
  <1>6. cache.fetchedAt <= now' /\ now' \in Nat
    BY <1>1 DEF KeysOK, CacheOK
  <1>7. CacheOK'
    BY <1>1, <1>3, <1>4, <1>5, <1>6 DEF KeysOK, CacheOK
  <1>8. RequestsOK'
    BY <1>1 DEF Tick, KeysOK, RequestsOK
  <1>9. FetchOK'
    <2>1. now' \in Int /\ now <= now' /\ UNCHANGED <<cache, asked, refreshing, req>>
      BY <1>1 DEF Tick, KeysOK, CacheOK
    <2>2. \A k \in Keys : listed'[k] = listed[k] \/ now <= listed'[k]
      BY <1>3 DEF KeysOK, CacheOK
    <2> QED
      BY <1>3, <2>1, <2>2, LaterFetch
  <1> QED
    BY <1>7, <1>8, <1>9 DEF KeysOK

LEMMA InitKeeps ==
    ASSUME Init PROVE KeysOK
  <1>1. endpoint \in Answers
    <2>1. (CHOOSE a \in Answers : TRUE) \in Answers
      BY GatewayAssumption
    <2> QED
      BY <2>1 DEF Init
  <1>2. /\ req = [q \in Requests |-> NoRequest] /\ cache = EmptyCache /\ now = 0
        /\ listed = [k \in Keys |-> IF k \in KeysOf(endpoint) THEN 0 ELSE Never]
    BY DEF Init
  <1>3. KeysOf(endpoint) \subseteq Keys
    BY <1>1, EndpointKeys
  <1>4. listed \in [Keys -> Int] /\ \A k \in KeysOf(endpoint) : listed[k] = 0
    BY <1>2, <1>3 DEF Never
  <1>5. /\ cache \in [keys : SUBSET Keys, fetchedAt : Int, ttl : Int, lastAttempt : Int]
        /\ cache.keys = {} /\ cache.fetchedAt = -1 /\ cache.ttl = DefaultTtl
    BY <1>2, JwksAssumption DEF EmptyCache, Never
  <1>6. cache.ttl <= MaxTtl
    BY <1>5, JwksAssumption
  <1>7. CacheOK
    BY <1>1, <1>2, <1>4, <1>5, <1>6 DEF CacheOK
  <1>8. NoRequest.stage = "idle"
    BY DEF NoRequest
  <1>9. RequestsOK
    BY <1>2, <1>8 DEF RequestsOK, Suspended, Fetching
  <1>10. FetchOK
    <2>1. asked = << >> /\ cache.lastAttempt = Never
      BY <1>2 DEF Init, EmptyCache
    <2>2. asked \in Seq(Int) /\ DOMAIN asked = {}
      BY <2>1
    <2> QED
      BY <1>2, <1>8, <2>1, <2>2 DEF FetchOK, Fetching, Never
  <1> QED
    BY <1>7, <1>9, <1>10 DEF KeysOK

\* A step lets a caller in by a recent key only.
Careful ==
    \A q \in Requests :
        req'[q].stage = req[q].stage \/ (req'[q].stage = "running" => req'[q].key \in Recent)

LEMMA CarefulMoves ==
    ASSUME NEW q \in Requests, Moves(q) \/ AsksAgain(q) \/ IsAnswered(q)
    PROVE  Careful
  <1>1. \A p \in Requests \ {q} : req'[p] = req[p]
    BY DEF Moves, GoesOn, Waits, AsksAgain, IsAnswered, OnlyOf
  <1>2. req'[q].stage = "running" => req'[q].key \in Recent
    BY DEF Moves, GoesOn, Waits, AsksAgain, IsAnswered
  <1> QED
    BY <1>1, <1>2 DEF Careful

LEMMA ServeKeeps ==
    ASSUME NEW q \in Requests, KeysOK, Connect(q) \/ Serve(q) \/ Leave(q)
    PROVE  KeysOK' /\ Careful
  <1>1. RequestsOK /\ CacheOK /\ FetchOK
    BY DEF KeysOK
  <1>2. ASSUME Moves(q), UNCHANGED <<now, endpoint, listed, cache, asked>>,
               refreshing' = refreshing \/ refreshing = q
        PROVE  KeysOK' /\ Careful
    BY <1>2, MovesKeeps, CarefulMoves
  <1>3. CASE Connect(q)
    BY <1>1, <1>2, <1>3, ConnectMoves DEF Connect
  <1>4. CASE Authenticate(q)
    BY <1>1, <1>2, <1>4, AuthenticateMoves DEF Authenticate
  <1>5. CASE Probe(q)
    BY <1>1, <1>2, <1>5, ProbeMoves DEF Probe
  <1>6. CASE Run(q) \/ StreamEnds(q) \/ ReadLive(q) \/ Bind(q) \/ Unbind(q) \/ Leave(q)
    <2>1. Moves(q)
      BY <1>1, <1>6, ServiceMoves DEF Moves
    <2>2. UNCHANGED <<now, endpoint, listed, cache, asked>> /\ (refreshing' = refreshing \/ refreshing = q)
      BY <1>6 DEF Run, StreamEnds, ReadLive, Bind, Unbind, Leave
    <2> QED
      BY <1>2, <2>1, <2>2
  <1>7. CASE EnterRefresh(q)
    <2>1. UNCHANGED <<now, endpoint, listed>>
      BY <1>7 DEF EnterRefresh
    <2>2. CASE GoesOn(q, Recent) /\ UNCHANGED <<cache, asked, refreshing>>
      BY <1>2, <2>1, <2>2 DEF Moves
    <2>3. CASE AsksAgain(q) /\ cache' = Attempted(cache, now)
      <3>1. CacheOK' /\ cache'.fetchedAt = cache.fetchedAt /\ cache'.lastAttempt = now
        BY <1>1, <2>1, <2>3, AttemptedKeeps
      <3>2. RequestsOK'
        BY <1>1, <2>3, <3>1, AsksKeeps
      <3>3. FetchOK'
        BY <1>1, <2>1, <2>3, <3>1, AsksFetch, GatewayAssumption DEF Requests
      <3> QED
        BY <2>3, <3>1, <3>2, <3>3, CarefulMoves DEF KeysOK
    <2> QED
      BY <1>1, <1>7, <2>2, <2>3, EnterRefreshMoves
  <1>8. CASE EndpointAnswers(q)
    <2>1. IsAnswered(q)
      BY <1>1, <1>8, EndpointAnswersMoves
    <2>2. UNCHANGED <<now, endpoint, listed, cache, asked, refreshing>>
      BY <1>8 DEF EndpointAnswers
    <2> QED
      BY <2>1, <2>2, AnsweredKeeps, CarefulMoves
  <1>9. CASE FetchEnds(q)
    <2>1. UNCHANGED <<now, endpoint, listed, asked>> /\ refreshing = q
      BY <1>1, <1>9 DEF FetchEnds, FetchOK
    <2>2. GoesOn(q, Recent)
      BY <1>1, <1>9, FetchEndsMoves
    <2>3. CASE cache' = cache
      BY <1>2, <2>1, <2>2, <2>3 DEF Moves
    <2>4. ASSUME NEW a \in Answers, cache' = Stored(cache, KeysOf(a), a.maxAge, now),
                 \A k \in KeysOf(a) : now - listed[k] <= FetchTimeout
          PROVE  KeysOK' /\ Careful
      <3>1. /\ CacheOK' /\ cache.fetchedAt <= cache'.fetchedAt
            /\ cache'.lastAttempt = cache.lastAttempt
        BY <1>1, <2>1, <2>4, StoredKeeps
      <3>2. cache.fetchedAt \in Int /\ cache'.fetchedAt \in Int
        BY <1>1, <3>1 DEF CacheOK
      <3>3. RequestsOK'
        BY <1>1, <2>2, <3>1, <3>2, GoesOnKeeps
      <3>4. FetchOK'
        <4>1. OnlyOf(q) /\ req'[q].stage \notin Fetching
          BY <2>2 DEF GoesOn, Suspended, Fetching
        <4> QED
          BY <1>1, <2>1, <3>1, <4>1, OthersFetch
      <3> QED
        BY <2>2, <3>1, <3>3, <3>4, CarefulMoves DEF KeysOK, Moves
    <2> QED
      BY <1>1, <1>9, <2>3, <2>4, FetchEndsMoves
  <1> QED
    BY <1>3, <1>4, <1>5, <1>6, <1>7, <1>8, <1>9 DEF Serve

LEMMA StepKeeps ==
    ASSUME KeysOK, [Next]_vars
    PROVE  KeysOK' /\ Careful
  <1>1. RequestsOK /\ CacheOK /\ FetchOK
    BY DEF KeysOK
  <1>2. ASSUME UNCHANGED <<now, endpoint, listed, cache, req, asked, refreshing>>
        PROVE  KeysOK' /\ Careful
    <2>1. CacheOK'
      BY <1>1, <1>2, SameCacheKeeps
    <2>2. RequestsOK'
      BY <1>1, <1>2 DEF RequestsOK
    <2>3. FetchOK'
      BY <1>1, <1>2 DEF FetchOK
    <2> QED
      BY <1>2, <2>1, <2>2, <2>3 DEF KeysOK, Careful
  <1>3. CASE \E q \in Requests : Connect(q) \/ Serve(q) \/ Leave(q)
    BY <1>3, ServeKeeps
  <1>4. CASE \/ Signal \/ Drained \/ SecondSignal \/ DeadlinePasses
             \/ (\E s \in Sessions : SessionCloses(s)) \/ UNCHANGED vars
    <2>1. UNCHANGED <<now, endpoint, listed, cache, req, asked, refreshing>>
      BY <1>4 DEF Signal, Drained, SecondSignal, DeadlinePasses, Stop, SessionCloses, vars
    <2> QED
      BY <1>2, <2>1
  <1>5. CASE Teardown
    BY <1>5, TeardownKeeps DEF Careful
  <1>6. CASE \E a \in Answers : EndpointChanges(a)
    <2>1. req' = req
      BY <1>6 DEF EndpointChanges
    <2> QED
      BY <1>6, <2>1, EndpointChangesKeeps DEF Careful
  <1>7. CASE Tick
    <2>1. req' = req
      BY <1>7 DEF Tick
    <2> QED
      BY <1>7, <2>1, TickKeeps DEF Careful
  <1> QED
    BY <1>3, <1>4, <1>5, <1>6, <1>7 DEF Next

\* Whatever the endpoint lists between its answer and the last byte of it, and however the
\* calls around the mutex of the refresh interleave: the issuer still listed every key of the
\* cache FetchTimeout before the set was stored or later, no request waits with a newer set
\* than the cache's, and only the holder of the mutex has a request out to the endpoint.
THEOREM KeysInvariant == Spec => []KeysOK
  <1>1. KeysOK /\ [Next]_vars => KeysOK'
    BY StepKeeps
  <1> QED
    BY <1>1, InitKeeps, PTL DEF Spec

\* Whatever callers send, however their calls interleave around the mutex of the refresh and
\* however their fetches end: of all the requests JwksClient ever sent the issuer no two lie
\* within an interval, and no two are unanswered at a time.
THEOREM EndpointSpared == Spec => []EndpointIsSpared
  <1>1. KeysOK => EndpointIsSpared
    BY DEF KeysOK, FetchOK, EndpointIsSpared
  <1> QED
    BY <1>1, KeysInvariant, PTL

\* A key the issuer withdrew stops letting callers in: within the longest lifetime of a set,
\* or within MaxStale when the endpoint fails, and the time a set may be on its way.
THEOREM WithdrawnExpire == Spec => WithdrawnKeysExpire
  <1> DEFINE expire == \A q \in Requests :
                 req'[q].stage = "running" /\ req[q].stage # "running" /\ req'[q].key # None =>
                     now - listed[req'[q].key] < LongestUse + FetchTimeout
  <1>1. ASSUME KeysOK, [Next]_vars PROVE expire
    <2>1. Careful
      BY <1>1, StepKeeps
    <2> QED
      BY <2>1 DEF Careful, Recent
  <1>2. KeysOK /\ [Next]_vars => [expire]_vars
    BY <1>1
  <1> HIDE DEF expire
  <1>3. Spec => [][expire]_vars
    BY <1>2, KeysInvariant, PTL DEF Spec
  <1> QED
    BY <1>3 DEF WithdrawnKeysExpire, expire

-------------------------------------------------------------------------------
(* Sessions and their owners. *)

InService == {"running", "streaming", "unbinding", "binding", "bound"}
InSession == {"running", "streaming", "unbinding"}

\* The person a principal key stands for.
IsPerson(owner, person) ==
    \/ setup.mode = "none" /\ person = "anonymous"
    \/ /\ setup.mode = "bearer"
       /\ \E t \in tokens : owner = <<"bearer", t.name>> /\ person = <<"secret", t.secret>>
    \/ /\ setup.mode = "oauth"
       /\ \E token : /\ PrincipalName(token) # << >>
                     /\ owner = <<"token", PrincipalName(token)>> /\ person = Subject(token)

\* The tokens are those of the configuration, which the process was started with.
SetupOK ==
    /\ tokens = Configured(setup)
    /\ phase # "refused" /\ setup.mode = "bearer" => TokensMerge(setup.file \o setup.env)

\* A request in the service knows whom it serves: the one its principal key stands for, who
\* opened the session it is in or has opened.
SoundRequest(r, who) ==
    /\ r.session \in DOMAIN who \cup {None}
    /\ r.stage \in InService => IsPerson(r.caller, r.person)
    /\ r.stage \in Suspended => setup.mode = "oauth"
    /\ r.stage \in {"binding", "bound"} => r.made \in DOMAIN who /\ who[r.made] = r.person
    /\ setup.older /\ r.session # None /\ r.stage \in InSession => who[r.session] = r.person

\* The table of owners names the person that opened each session in it.
OwnersOK ==
    \A o \in owners : o.session \in DOMAIN opened /\ IsPerson(o.owner, opened[o.session])

SessionsOK ==
    /\ SetupOK
    /\ OwnersOK
    /\ \A q \in Requests : SoundRequest(req[q], opened)

\* Two tokens of one principal name speak of one subject.
LEMMA NamesTell ==
    ASSUME NEW s, NEW t, PrincipalName(s) = PrincipalName(t), PrincipalName(s) # << >>
    PROVE  Subject(s) = Subject(t)
  <1>1. \A a, b : <<"sub", a>> = <<"sub", b>> => a = b
    OBVIOUS
  <1>2. \A a, b : <<"client", a>> = <<"client", b>> => a = b
    OBVIOUS
  <1>3. \A a, b : <<"sub", a>> # <<"client", b>>
    OBVIOUS
  <1>4. \A a : <<"sub", a>> # << >>
    OBVIOUS
  <1>5. ASSUME NEW u, u.sub # None PROVE PrincipalName(u) = <<"sub", u.sub>>
    BY <1>5 DEF PrincipalName
  <1>6. ASSUME NEW u, u.sub = None, PrincipalName(u) # << >>
        PROVE  PrincipalName(u) = <<"client", u.client>>
    BY <1>6 DEF PrincipalName
  <1>7. CASE s.sub # None
    <2>1. t.sub # None
      BY <1>3, <1>5, <1>6, <1>7
    <2>2. s.sub = t.sub
      BY <1>1, <1>5, <1>7, <2>1
    <2> QED
      BY <1>7, <2>1, <2>2 DEF Subject
  <1>8. CASE s.sub = None
    <2>1. t.sub = None
      BY <1>3, <1>5, <1>6, <1>8
    <2>2. s.client = t.client
      BY <1>2, <1>6, <1>8, <2>1
    <2> QED
      BY <1>8, <2>1, <2>2 DEF Subject
  <1> QED
    BY <1>7, <1>8

LEMMA OnePerson ==
    ASSUME SetupOK, Alive, NEW owner, NEW one, NEW other, IsPerson(owner, one), IsPerson(owner, other)
    PROVE  one = other
  <1>1. CASE setup.mode = "none"
    BY <1>1 DEF IsPerson
  <1>2. CASE setup.mode = "bearer"
    <2> DEFINE lines == setup.file \o setup.env
    <2>1. PICK s \in tokens, t \in tokens :
             /\ owner = <<"bearer", s.name>> /\ one = <<"secret", s.secret>>
             /\ owner = <<"bearer", t.name>> /\ other = <<"secret", t.secret>>
      BY <1>2 DEF IsPerson
    <2>2. s.name = t.name
      BY <2>1
    <2>3. PICK i \in DOMAIN lines :
             s = [secret |-> lines[i].secret, name |-> NameOf(lines[i]), scopes |-> lines[i].scopes]
      BY <2>1 DEF SetupOK, Configured
    <2>4. PICK j \in DOMAIN lines :
             t = [secret |-> lines[j].secret, name |-> NameOf(lines[j]), scopes |-> lines[j].scopes]
      BY <2>1 DEF SetupOK, Configured
    <2>5. TokensMerge(lines)
      BY <1>2 DEF SetupOK, Alive
    <2> HIDE DEF lines
    <2>6. NameOf(lines[i]) = NameOf(lines[j]) => i = j
      BY <2>3, <2>4, <2>5 DEF TokensMerge, Distinct
    <2>7. i = j
      BY <2>2, <2>3, <2>4, <2>6
    <2> QED
      BY <2>1, <2>3, <2>4, <2>7
  <1>3. CASE setup.mode = "oauth"
    <2>1. \A person : IsPerson(owner, person) =>
             \E token : /\ PrincipalName(token) # << >>
                        /\ owner = <<"token", PrincipalName(token)>> /\ person = Subject(token)
      BY <1>3 DEF IsPerson
    <2>2. PICK s : /\ PrincipalName(s) # << >>
                   /\ owner = <<"token", PrincipalName(s)>> /\ one = Subject(s)
      BY <2>1
    <2>3. PICK t : /\ PrincipalName(t) # << >>
                   /\ owner = <<"token", PrincipalName(t)>> /\ other = Subject(t)
      BY <2>1
    <2>4. PrincipalName(s) = PrincipalName(t)
      <3>1. \A a, b : <<"token", a>> = <<"token", b>> => a = b
        OBVIOUS
      <3> QED
        BY <2>2, <2>3, <3>1
    <2> QED
      BY <2>2, <2>3, <2>4, NamesTell
  <1> QED
    BY <1>1, <1>2, <1>3 DEF IsPerson

\* What a step of the request q does to the sessions.
Keeps(q) ==
    /\ OnlyOf(q)
    /\ SoundRequest(req'[q], opened')

\* Who opened a session stays.
Grows == \A s \in DOMAIN opened : s \in DOMAIN opened' /\ opened'[s] = opened[s]

LEMMA SoundStays ==
    ASSUME NEW r, SoundRequest(r, opened), Grows, UNCHANGED <<setup, tokens>>
    PROVE  SoundRequest(r, opened')
  BY DEF SoundRequest, Grows

LEMMA KeepsSessions ==
    ASSUME NEW q \in Requests, SessionsOK, Keeps(q), Grows, UNCHANGED <<setup, tokens, phase>>,
           \A o \in owners' : o \in owners \/ (o.session \in DOMAIN opened' /\ IsPerson(o.owner, opened'[o.session]))
    PROVE  SessionsOK'
  <1>1. \A owner, person : IsPerson(owner, person)' <=> IsPerson(owner, person)
    BY DEF IsPerson
  <1>2. SetupOK'
    BY DEF SessionsOK, SetupOK
  <1>3. OwnersOK'
    BY DEF SessionsOK, OwnersOK, Grows, IsPerson
  <1>4. ASSUME NEW p \in Requests PROVE SoundRequest(req[p], opened)'
    <2>1. CASE p = q
      BY <2>1 DEF Keeps, SoundRequest, IsPerson
    <2>2. CASE p # q
      <3>1. req'[p] = req[p]
        BY <2>2 DEF Keeps, OnlyOf
      <3>2. SoundRequest(req[p], opened')
        BY SoundStays DEF SessionsOK
      <3> QED
        BY <3>1, <3>2 DEF SoundRequest, IsPerson
    <2> QED
      BY <2>1, <2>2
  <1> QED
    BY <1>2, <1>3, <1>4 DEF SessionsOK
-------------------------------------------------------------------------------
(* What each action does to the sessions. *)

LEMMA EndKeeps ==
    ASSUME NEW q \in Requests, DOMAIN req = Requests, NEW stage, stage \notin InService \cup Suspended,
           End(q, stage)
    PROVE  Keeps(q)
  <1>1. req' = [req EXCEPT ![q] = [NoRequest EXCEPT !.stage = stage]]
    BY DEF End
  <1>2. OnlyOf(q)
    BY <1>1 DEF OnlyOf
  <1>3. req'[q].session = None /\ req'[q].stage = stage
    BY <1>1 DEF NoRequest
  <1> QED
    BY <1>2, <1>3 DEF Keeps, SoundRequest, InService, InSession, Suspended, Fetching

LEMMA Refuses ==
    ASSUME NEW q \in Requests, DOMAIN req = Requests, Refuse(q) \/ Rejected(q)
    PROVE  Keeps(q)
  <1>1. End(q, "refused")
    BY DEF Refuse, Rejected
  <1> QED
    BY <1>1, EndKeeps DEF InService, Suspended, Fetching

\* A request that stays out of the service keeps the session it asks for.
LEMMA StaysOut ==
    ASSUME NEW q \in Requests, RequestsOK, SoundRequest(req[q], opened), Grows, NEW fields,
           "stage" \in DOMAIN fields, fields["stage"] \notin InService, "session" \notin DOMAIN fields,
           fields["stage"] \in Suspended => setup.mode = "oauth", Become(q, fields)
    PROVE  Keeps(q)
  <1>1. DOMAIN req = Requests /\ DOMAIN req[q] = DOMAIN NoRequest
    BY DEF RequestsOK
  <1>2. /\ OnlyOf(q)
        /\ \A x \in DOMAIN req[q] \cap DOMAIN fields : req'[q][x] = fields[x]
        /\ \A x \in DOMAIN req[q] \ DOMAIN fields : req'[q][x] = req[q][x]
    BY <1>1, BecomeIs
  <1>3. req'[q].stage = fields["stage"] /\ req'[q].session = req[q].session
    BY <1>1, <1>2, Fields
  <1>4. req'[q].session \in DOMAIN opened' \cup {None}
    BY <1>3 DEF SoundRequest, Grows
  <1> QED
    BY <1>2, <1>3, <1>4 DEF Keeps, SoundRequest, InService, InSession

\* A caller that is let in is the one that opened its session.
LEMMA AdmittedKeeps ==
    ASSUME NEW q \in Requests, SessionsOK, RequestsOK, Alive,
           NEW principal, NEW person, NEW key, IsPerson(PrincipalKey(principal), person),
           Admitted(q, principal, person, key), UNCHANGED opened
    PROVE  Keeps(q)
  <1> DEFINE owner == PrincipalKey(principal)
             session == req[q].session
             fields == [stage |-> "running", caller |-> owner, person |-> person, key |-> key,
                        seen |-> EmptyCache]
  <1>1. CASE Refuse(q)
    BY <1>1, Refuses DEF RequestsOK
  <1>2. CASE ~SessionRefused(session, owner) /\ Become(q, fields)
    <2>1. DOMAIN req = Requests /\ DOMAIN req[q] = DOMAIN NoRequest
      BY DEF RequestsOK
    <2>2. DOMAIN fields = {"stage", "caller", "person", "key", "seen"}
      OBVIOUS
    <2>3. fields["stage"] = "running" /\ fields["caller"] = owner /\ fields["person"] = person
      OBVIOUS
    <2> HIDE DEF fields
    <2>4. /\ OnlyOf(q)
          /\ \A x \in DOMAIN req[q] \cap DOMAIN fields : req'[q][x] = fields[x]
          /\ \A x \in DOMAIN req[q] \ DOMAIN fields : req'[q][x] = req[q][x]
      BY <1>2, <2>1, BecomeIs
    <2>5. /\ req'[q].stage = "running" /\ req'[q].caller = owner /\ req'[q].person = person
          /\ req'[q].session = session
      BY <2>1, <2>2, <2>3, <2>4, Fields
    <2>6. session \in DOMAIN opened \cup {None}
      BY DEF SessionsOK, SoundRequest
    <2>7. setup.older /\ session # None => opened[session] = person
      <3> SUFFICES ASSUME setup.older, session # None PROVE opened[session] = person
        OBVIOUS
      <3> HIDE DEF owner, session
      <3>1. OwnerOf(session) = {owner}
        BY <1>2 DEF SessionRefused
      <3>2. PICK o \in owners : o.session = session /\ o.owner = owner
        BY <3>1 DEF OwnerOf
      <3>3. IsPerson(owner, opened[session])
        BY <3>2 DEF SessionsOK, OwnersOK
      <3>4. IsPerson(owner, person)
        BY DEF owner
      <3> QED
        BY <3>3, <3>4, OnePerson DEF SessionsOK
    <2> HIDE DEF owner, session
    <2>8. IsPerson(owner, person)
      BY DEF owner
    <2> QED
      BY <2>4, <2>5, <2>6, <2>7, <2>8 DEF Keeps, SoundRequest, InSession, InService, Suspended, Fetching
  <1> QED
    BY <1>1, <1>2 DEF Admitted

\* The person a token brings is the one its name stands for.
LEMMA ValidatedKeeps ==
    ASSUME NEW q \in Requests, SessionsOK, RequestsOK, Alive, setup.mode = "oauth", NEW found,
           Validated(q, found), UNCHANGED opened
    PROVE  Keeps(q)
  <1> DEFINE token == req[q].ask.token
             principal == Principal("token", PrincipalName(token), token.scopes)
  <1>1. CASE Rejected(q)
    BY <1>1, Refuses DEF RequestsOK
  <1>2. CASE PrincipalName(token) # << >> /\ \E k \in found : Admitted(q, principal, Subject(token), k)
    <2>1. PrincipalKey(principal) = <<"token", PrincipalName(token)>>
      BY DEF PrincipalKey, Principal
    <2>2. IsPerson(PrincipalKey(principal), Subject(token))
      BY <1>2, <2>1 DEF IsPerson
    <2> HIDE DEF principal, token
    <2> QED
      BY <1>2, <2>2, AdmittedKeeps
  <1>3. \/ Rejected(q)
        \/ PrincipalName(token) # << >> /\ \E k \in found : Admitted(q, principal, Subject(token), k)
    BY DEF Validated, PrincipalFromClaims
  <1> QED
    BY <1>1, <1>2, <1>3

LEMMA AuthenticateKeeps ==
    ASSUME NEW q \in Requests, SessionsOK, RequestsOK, Authenticate(q)
    PROVE  Keeps(q)
  <1> DEFINE token == req[q].ask.token
             look == FirstLook(cache, token.kid, now)
             found == IF look = "found" THEN Named(cache, token.kid) ELSE {}
             known == {t \in tokens : token # None /\ t.secret = token.secret}
             plain == setup.mode = "none" /\ Admitted(q, Anonymous, "anonymous", None)
             bearer == /\ setup.mode = "bearer"
                       /\ \E t \in known : Admitted(q, Principal("bearer", t.name, t.scopes),
                                                   <<"secret", t.secret>>, None)
             parks == /\ setup.mode = "oauth"
                      /\ Become(q, [stage |-> "waiting", seen |-> Seen(cache)])
             valid == setup.mode = "oauth" /\ Validated(q, found)
  <1>1. UNCHANGED opened /\ Alive
    BY DEF Authenticate
  <1>2. CASE Refuse(q) \/ Rejected(q)
    BY <1>2, Refuses DEF RequestsOK
  <1>3. CASE plain
    <2>1. IsPerson(PrincipalKey(Anonymous), "anonymous")
      BY <1>3 DEF IsPerson
    <2> QED
      BY <1>1, <1>3, <2>1, AdmittedKeeps
  <1>4. CASE bearer
    <2>1. PICK t \in known : Admitted(q, Principal("bearer", t.name, t.scopes),
                                     <<"secret", t.secret>>, None)
      BY <1>4
    <2>2. PrincipalKey(Principal("bearer", t.name, t.scopes)) = <<"bearer", t.name>>
      BY DEF PrincipalKey, Principal
    <2>3. IsPerson(PrincipalKey(Principal("bearer", t.name, t.scopes)), <<"secret", t.secret>>)
      BY <1>4, <2>2 DEF IsPerson
    <2> QED
      BY <1>1, <2>1, <2>3, AdmittedKeeps
  <1>5. CASE parks
    <2>1. Grows
      BY <1>1 DEF Grows
    <2> DEFINE fields == [stage |-> "waiting", seen |-> Seen(cache)]
    <2>2. DOMAIN fields = {"stage", "seen"} /\ fields["stage"] = "waiting"
      OBVIOUS
    <2> QED
      BY <1>5, <2>1, <2>2, StaysOut DEF InService, SessionsOK
  <1>6. CASE valid
    BY <1>1, <1>6, ValidatedKeeps
  <1>7. Refuse(q) \/ Rejected(q) \/ plain \/ bearer \/ parks \/ valid
    BY DEF Authenticate
  <1> HIDE DEF plain, bearer, parks, valid, found, token
  <1> QED
    BY <1>2, <1>3, <1>4, <1>5, <1>6, <1>7

LEMMA RefreshedKeeps ==
    ASSUME NEW q \in Requests, SessionsOK, RequestsOK, Alive, setup.mode = "oauth", NEW ok, NEW keys,
           Refreshed(q, ok, keys), UNCHANGED opened
    PROVE  Keeps(q)
  <1> DEFINE named == {k \in keys : k.kid = req[q].ask.token.kid}
  <1>1. CASE End(q, "served") \/ End(q, "refused") \/ Rejected(q)
    BY <1>1, EndKeeps, Refuses DEF RequestsOK, InService, Suspended, Fetching
  <1>2. CASE Validated(q, named)
    BY <1>2, ValidatedKeeps
  <1> HIDE DEF named
  <1>3. End(q, "served") \/ End(q, "refused") \/ Rejected(q) \/ Validated(q, named)
    BY DEF Refreshed, named
  <1> QED
    BY <1>1, <1>2, <1>3

\* A request that moves on in the service stays the same person's, in the same session.
LEMMA MovesOn ==
    ASSUME NEW q \in Requests, RequestsOK, SoundRequest(req[q], opened), Grows, NEW fields,
           "stage" \in DOMAIN fields, fields["stage"] \in InService, req[q].stage \in InService,
           DOMAIN fields \cap {"session", "caller", "person"} = {}, Become(q, fields),
           fields["stage"] \in InSession => req[q].stage \in InSession,
           fields["stage"] \in {"binding", "bound"} =>
               IF "made" \in DOMAIN fields
               THEN fields["made"] \in DOMAIN opened' /\ opened'[fields["made"]] = req[q].person
               ELSE req[q].stage \in {"binding", "bound"}
    PROVE  Keeps(q)
  <1>1. DOMAIN req = Requests /\ DOMAIN req[q] = DOMAIN NoRequest
    BY DEF RequestsOK
  <1>2. /\ OnlyOf(q)
        /\ \A x \in DOMAIN req[q] \cap DOMAIN fields : req'[q][x] = fields[x]
        /\ \A x \in DOMAIN req[q] \ DOMAIN fields : req'[q][x] = req[q][x]
    BY <1>1, BecomeIs
  <1>3. /\ req'[q].stage = fields["stage"] /\ req'[q].session = req[q].session
        /\ req'[q].caller = req[q].caller /\ req'[q].person = req[q].person
        /\ req'[q].made = IF "made" \in DOMAIN fields THEN fields["made"] ELSE req[q].made
    BY <1>1, <1>2, Fields
  <1>4. SoundRequest(req[q], opened)
    OBVIOUS
  <1>5. req'[q].session \in DOMAIN opened' \cup {None}
    BY <1>3, <1>4 DEF SoundRequest, Grows
  <1>6. req'[q].stage \in {"binding", "bound"} =>
           req'[q].made \in DOMAIN opened' /\ opened'[req'[q].made] = req'[q].person
    BY <1>3, <1>4 DEF SoundRequest, Grows
  <1>7. setup.older /\ req'[q].session # None /\ req'[q].stage \in InSession =>
           opened'[req'[q].session] = req'[q].person
    BY <1>3, <1>4 DEF SoundRequest, Grows
  <1>8. IsPerson(req'[q].caller, req'[q].person)
    BY <1>3, <1>4 DEF SoundRequest
  <1>9. req'[q].stage \notin Suspended
    BY <1>3 DEF InService, Suspended, Fetching
  <1> QED
    BY <1>2, <1>5, <1>6, <1>7, <1>8, <1>9 DEF Keeps, SoundRequest

LEMMA RunKeeps ==
    ASSUME NEW q \in Requests, SessionsOK, RequestsOK, Run(q)
    PROVE  Keeps(q) /\ Grows
  <1> DEFINE ask == req[q].ask
             session == req[q].session
             fresh == Sessions \ DOMAIN opened
             made(s) == [stage |-> "binding", made |-> s]
  <1>1. SoundRequest(req[q], opened) /\ req[q].stage = "running"
    BY DEF SessionsOK, Run
  <1>2. CASE opened' = opened /\ (End(q, "served") \/ End(q, "refused"))
    <2>1. Grows
      BY <1>2 DEF Grows
    <2> QED
      BY <1>2, <2>1, EndKeeps DEF RequestsOK, InService, Suspended, Fetching
  <1>3. CASE /\ opened' = opened
             /\ \E stage \in {"unbinding", "streaming"} : Become(q, [stage |-> stage])
    <2>1. PICK stage \in {"unbinding", "streaming"} : Become(q, [stage |-> stage])
      BY <1>3
    <2> DEFINE fields == [stage |-> stage]
    <2>2. DOMAIN fields = {"stage"} /\ fields["stage"] = stage
      OBVIOUS
    <2>3. Grows
      BY <1>3 DEF Grows
    <2>4. Become(q, fields)
      BY <2>1
    <2> HIDE DEF fields
    <2> QED
      BY <1>1, <2>2, <2>3, <2>4, MovesOn DEF InService, InSession
  <1>4. CASE \E s \in fresh :
                /\ opened' = [x \in DOMAIN opened \union {s} |-> IF x = s THEN req[q].person
                                                                ELSE opened[x]]
                /\ Become(q, made(s))
    <2>1. PICK s \in fresh :
             /\ opened' = [x \in DOMAIN opened \union {s} |-> IF x = s THEN req[q].person
                                                             ELSE opened[x]]
             /\ Become(q, made(s))
      BY <1>4
    <2> DEFINE fields == made(s)
    <2>2. DOMAIN fields = {"stage", "made"} /\ fields["stage"] = "binding" /\ fields["made"] = s
      OBVIOUS
    <2>3. Grows
      BY <2>1 DEF Grows
    <2>4. s \in DOMAIN opened' /\ opened'[s] = req[q].person
      BY <2>1
    <2>5. Become(q, fields)
      BY <2>1
    <2> HIDE DEF fields, made
    <2> QED
      BY <1>1, <2>2, <2>3, <2>4, <2>5, MovesOn DEF InService, InSession
  <1>5. \/ opened' = opened /\ (End(q, "served") \/ End(q, "refused"))
        \/ opened' = opened /\ Become(q, [stage |-> "unbinding"])
        \/ opened' = opened /\ Become(q, [stage |-> "streaming"])
        \/ \E s \in fresh :
              /\ opened' = [x \in DOMAIN opened \union {s} |-> IF x = s THEN req[q].person
                                                              ELSE opened[x]]
              /\ Become(q, made(s))
    BY DEF Run, Refuse
  <1> HIDE DEF made, fresh
  <1> QED
    BY <1>2, <1>3, <1>4, <1>5

LEMMA ReadLiveKeeps ==
    ASSUME NEW q \in Requests, SessionsOK, RequestsOK, ReadLive(q)
    PROVE  Keeps(q) /\ Grows
  <1> DEFINE fields == [stage |-> "bound", live |-> sessions]
  <1>1. SoundRequest(req[q], opened) /\ req[q].stage = "binding" /\ Become(q, fields)
    BY DEF SessionsOK, ReadLive
  <1>2. DOMAIN fields = {"stage", "live"} /\ fields["stage"] = "bound"
    OBVIOUS
  <1>3. Grows
    BY DEF Grows, ReadLive
  <1> HIDE DEF fields
  <1> QED
    BY <1>1, <1>2, <1>3, MovesOn DEF InService, InSession

\* The owner a session is bound to is the one that opened it.
LEMMA BindKeeps ==
    ASSUME NEW q \in Requests, SessionsOK, RequestsOK, Bind(q)
    PROVE  /\ Keeps(q) /\ Grows
           /\ \A o \in owners' :
                 o \in owners \/ (o.session \in DOMAIN opened' /\ IsPerson(o.owner, opened'[o.session]))
  <1>1. /\ req[q].stage = "bound" /\ opened' = opened
        /\ owners' = Bound(req[q].live, req[q].made, req[q].caller)
        /\ req' = [req EXCEPT ![q] = [NoRequest EXCEPT !.stage = "served", !.made = req[q].made,
                                                      !.caller = req[q].caller]]
    BY DEF Bind
  <1>2. Grows
    BY <1>1 DEF Grows
  <1>3. /\ req[q].made \in DOMAIN opened
        /\ IsPerson(req[q].caller, opened[req[q].made])
    BY <1>1 DEF SessionsOK, SoundRequest, InService
  <1>4. \A o \in owners' : o \in owners \/ o = [session |-> req[q].made, owner |-> req[q].caller]
    BY <1>1 DEF Bound
  <1>5. OnlyOf(q)
    BY <1>1 DEF OnlyOf, RequestsOK
  <1>6. req'[q] = [NoRequest EXCEPT !.stage = "served", !.made = req[q].made,
                                    !.caller = req[q].caller]
    BY <1>1 DEF RequestsOK
  <1>7. req'[q].stage = "served" /\ req'[q].session = None
    BY <1>6 DEF NoRequest
  <1>8. Keeps(q)
    BY <1>5, <1>7 DEF Keeps, SoundRequest, InService, InSession, Suspended, Fetching
  <1> QED
    BY <1>1, <1>2, <1>3, <1>4, <1>8

LEMMA ConnectKeeps ==
    ASSUME NEW q \in Requests, SessionsOK, RequestsOK, Connect(q)
    PROVE  Keeps(q) /\ Grows
  <1>1. opened' = opened
    BY DEF Connect
  <1>2. PICK ask \in Asks[setup.mode], session \in DOMAIN opened \union {None} :
            Become(q, [stage |-> IF ask.kind = "probe" THEN "probing" ELSE "arrived",
                       ask |-> ask, session |-> session])
    BY DEF Connect
  <1> DEFINE fields == [stage |-> IF ask.kind = "probe" THEN "probing" ELSE "arrived",
                        ask |-> ask, session |-> session]
  <1>3. /\ DOMAIN fields = {"stage", "ask", "session"} /\ fields["session"] = session
        /\ fields["stage"] \in {"probing", "arrived"}
    OBVIOUS
  <1>4. Become(q, fields)
    BY <1>2
  <1> HIDE DEF fields
  <1>5. DOMAIN req = Requests /\ DOMAIN req[q] = DOMAIN NoRequest
    BY DEF RequestsOK
  <1>6. OnlyOf(q) /\ \A x \in DOMAIN req[q] \cap DOMAIN fields : req'[q][x] = fields[x]
    BY <1>4, <1>5, BecomeIs
  <1>7. req'[q].stage = fields["stage"] /\ req'[q].session = session
    BY <1>3, <1>5, <1>6, Fields
  <1>8. Keeps(q)
    BY <1>1, <1>3, <1>6, <1>7 DEF Keeps, SoundRequest, InService, InSession, Suspended, Fetching
  <1> QED
    BY <1>1, <1>8 DEF Grows

LEMMA EnterRefreshKeeps ==
    ASSUME NEW q \in Requests, SessionsOK, RequestsOK, EnterRefresh(q)
    PROVE  Keeps(q) /\ Grows
  <1> DEFINE found == UnderMutex(cache, req[q].seen.fetchedAt, now)
             fields == [stage |-> "fetching"]
  <1>1. /\ req[q].stage = "waiting" /\ Alive /\ UNCHANGED opened
        /\ Become(q, fields) \/ Refreshed(q, found = "done", cache.keys)
    BY DEF EnterRefresh
  <1>2. Grows
    BY <1>1 DEF Grows
  <1>3. SoundRequest(req[q], opened) /\ setup.mode = "oauth"
    BY <1>1 DEF SessionsOK, SoundRequest, Suspended, Fetching
  <1>4. CASE Become(q, fields)
    <2>1. DOMAIN fields = {"stage"} /\ fields["stage"] = "fetching"
      OBVIOUS
    <2> HIDE DEF fields
    <2> QED
      BY <1>2, <1>3, <1>4, <2>1, StaysOut DEF InService
  <1>5. CASE Refreshed(q, found = "done", cache.keys)
    <2> HIDE DEF found
    <2> QED
      BY <1>1, <1>2, <1>3, <1>5, RefreshedKeeps
  <1> QED
    BY <1>1, <1>4, <1>5, <1>2

LEMMA EndpointAnswersKeeps ==
    ASSUME NEW q \in Requests, SessionsOK, RequestsOK, EndpointAnswers(q)
    PROVE  Keeps(q) /\ Grows
  <1> DEFINE fields == [stage |-> "reading", answer |-> endpoint]
  <1>1. req[q].stage = "fetching" /\ UNCHANGED opened /\ Become(q, fields)
    BY DEF EndpointAnswers
  <1>2. Grows
    BY <1>1 DEF Grows
  <1>3. SoundRequest(req[q], opened) /\ setup.mode = "oauth"
    BY <1>1 DEF SessionsOK, SoundRequest, Suspended, Fetching
  <1>4. DOMAIN fields = {"stage", "answer"} /\ fields["stage"] = "reading"
    OBVIOUS
  <1> HIDE DEF fields
  <1> QED
    BY <1>1, <1>2, <1>3, <1>4, StaysOut DEF InService

LEMMA FetchEndsKeeps ==
    ASSUME NEW q \in Requests, SessionsOK, RequestsOK, FetchEnds(q)
    PROVE  Keeps(q) /\ Grows
  <1>1. /\ req[q].stage \in Fetching /\ Alive /\ UNCHANGED opened
        /\ \E keys : Refreshed(q, keys # {}, cache'.keys)
    BY DEF FetchEnds
  <1>2. setup.mode = "oauth"
    BY <1>1 DEF SessionsOK, SoundRequest, Suspended
  <1> QED
    BY <1>1, <1>2, RefreshedKeeps DEF Grows

LEMMA ProbeKeeps ==
    ASSUME NEW q \in Requests, SessionsOK, RequestsOK, Probe(q)
    PROVE  Keeps(q) /\ Grows
  <1> DEFINE fields == [stage |-> "waiting", seen |-> Seen(cache)]
  <1>1. /\ UNCHANGED opened
        /\ \/ End(q, "served") \/ End(q, "refused")
           \/ setup.mode = "oauth" /\ Become(q, fields)
    BY DEF Probe
  <1>2. Grows
    BY <1>1 DEF Grows
  <1>3. CASE End(q, "served") \/ End(q, "refused")
    BY <1>2, <1>3, EndKeeps DEF RequestsOK, InService, Suspended, Fetching
  <1>4. CASE setup.mode = "oauth" /\ Become(q, fields)
    <2>1. DOMAIN fields = {"stage", "seen"} /\ fields["stage"] = "waiting"
      OBVIOUS
    <2> HIDE DEF fields
    <2> QED
      BY <1>2, <1>4, <2>1, StaysOut DEF InService, SessionsOK
  <1> QED
    BY <1>1, <1>3, <1>4

LEMMA EndsKeep ==
    ASSUME NEW q \in Requests, SessionsOK, RequestsOK, StreamEnds(q) \/ Unbind(q) \/ Leave(q)
    PROVE  Keeps(q) /\ Grows
  <1>1. UNCHANGED opened /\ (End(q, "served") \/ End(q, "left"))
    BY DEF StreamEnds, Unbind, Leave
  <1> QED
    BY <1>1, EndKeeps DEF Grows, RequestsOK, InService, Suspended, Fetching

LEMMA RequestKeepsSessions ==
    ASSUME NEW q \in Requests, SessionsOK, RequestsOK, Connect(q) \/ Serve(q) \/ Leave(q)
    PROVE  SessionsOK'
  <1>1. UNCHANGED <<setup, tokens, phase>>
    BY DEF Connect, Serve, Leave, Authenticate, Probe, EnterRefresh, EndpointAnswers, FetchEnds, Run,
           StreamEnds, ReadLive, Bind, Unbind
  <1>2. ASSUME Keeps(q), Grows, owners' \subseteq owners
        PROVE  SessionsOK'
    BY <1>1, <1>2, KeepsSessions
  <1>3. CASE Connect(q)
    BY <1>2, <1>3, ConnectKeeps DEF Connect
  <1>4. CASE Authenticate(q)
    BY <1>2, <1>4, AuthenticateKeeps DEF Authenticate, Grows
  <1>5. CASE Probe(q)
    BY <1>2, <1>5, ProbeKeeps DEF Probe
  <1>6. CASE EnterRefresh(q)
    BY <1>2, <1>6, EnterRefreshKeeps DEF EnterRefresh
  <1>7. CASE FetchEnds(q)
    BY <1>2, <1>7, FetchEndsKeeps DEF FetchEnds
  <1>12. CASE EndpointAnswers(q)
    BY <1>2, <1>12, EndpointAnswersKeeps DEF EndpointAnswers
  <1>8. CASE Run(q)
    BY <1>2, <1>8, RunKeeps DEF Run
  <1>9. CASE ReadLive(q)
    BY <1>2, <1>9, ReadLiveKeeps DEF ReadLive
  <1>10. CASE Bind(q)
    BY <1>1, <1>10, BindKeeps, KeepsSessions
  <1>11. CASE StreamEnds(q) \/ Unbind(q) \/ Leave(q)
    <2>1. owners' \subseteq owners
      BY <1>11 DEF StreamEnds, Unbind, Leave, Unbound
    <2> QED
      BY <1>2, <1>11, <2>1, EndsKeep
  <1> QED
    BY <1>3, <1>4, <1>5, <1>6, <1>7, <1>8, <1>9, <1>10, <1>11, <1>12 DEF Serve

\* A step around the requests: they stay, or go with the process.
LEMMA AroundKeepsSessions ==
    ASSUME SessionsOK, UNCHANGED <<setup, tokens, owners, opened>>,
           phase = "refused" => phase' = "refused",
           \A q \in Requests : req'[q] = req[q] \/ req'[q] = [NoRequest EXCEPT !.stage = "lost"]
    PROVE  SessionsOK'
  <1>1. SetupOK'
    <2>1. tokens' = Configured(setup')
      BY DEF SessionsOK, SetupOK
    <2>2. phase' # "refused" /\ setup'.mode = "bearer" => TokensMerge(setup'.file \o setup'.env)
      <3>1. setup' = setup /\ (phase' # "refused" => phase # "refused")
        OBVIOUS
      <3>2. phase # "refused" /\ setup.mode = "bearer" => TokensMerge(setup.file \o setup.env)
        BY DEF SessionsOK, SetupOK
      <3> QED
        BY <3>1, <3>2
    <2> QED
      BY <2>1, <2>2 DEF SetupOK
  <1>2. OwnersOK'
    BY DEF SessionsOK, OwnersOK, IsPerson
  <1>3. ASSUME NEW q \in Requests PROVE SoundRequest(req[q], opened)'
    <2>1. CASE req'[q] = req[q]
      BY <2>1 DEF SessionsOK, SoundRequest, IsPerson
    <2>2. CASE req'[q] = [NoRequest EXCEPT !.stage = "lost"]
      <3>1. req'[q].stage = "lost" /\ req'[q].session = None
        BY <2>2 DEF NoRequest
      <3> QED
        BY <3>1 DEF SoundRequest, InService, InSession, Suspended, Fetching
    <2> QED
      BY <2>1, <2>2
  <1> QED
    BY <1>1, <1>2, <1>3 DEF SessionsOK

LEMMA StepKeepsSessions ==
    ASSUME SessionsOK, RequestsOK, [Next]_vars
    PROVE  SessionsOK'
  <1>1. CASE \E q \in Requests : Connect(q) \/ Serve(q) \/ Leave(q)
    BY <1>1, RequestKeepsSessions
  <1>2. CASE \/ Signal \/ Drained \/ SecondSignal \/ DeadlinePasses \/ Tick \/ UNCHANGED vars
             \/ (\E s \in Sessions : SessionCloses(s)) \/ (\E a \in Answers : EndpointChanges(a))
    <2>1. UNCHANGED <<setup, tokens, owners, opened, req>> /\ (phase = "refused" => phase' = "refused")
      BY <1>2 DEF Signal, Drained, SecondSignal, DeadlinePasses, Stop, SessionCloses,
                  EndpointChanges, Tick, vars
    <2> QED
      BY <2>1, AroundKeepsSessions
  <1>3. CASE Teardown
    BY <1>3, AroundKeepsSessions DEF Teardown
  <1> QED
    BY <1>1, <1>2, <1>3 DEF Next

LEMMA InitSessions ==
    ASSUME Init PROVE SessionsOK
  <1>1. /\ tokens = Configured(setup) /\ owners = {} /\ req = [q \in Requests |-> NoRequest]
    BY DEF Init
  <1>2. SetupOK
    <2>1. PICK src \in Starts :
             phase = "refused" \/ (phase = "listening" /\ Authenticates(src, setup))
      BY DEF Init
    <2>2. phase # "refused" /\ setup.mode = "bearer" => TokensMerge(setup.file \o setup.env)
      BY <2>1 DEF Authenticates
    <2> QED
      BY <1>1, <2>2 DEF SetupOK
  <1>3. NoRequest.stage = "idle" /\ NoRequest.session = None
    BY DEF NoRequest
  <1>4. \A q \in Requests : SoundRequest(req[q], opened)
    BY <1>1, <1>3 DEF SoundRequest, InService, InSession, Suspended, Fetching
  <1> QED
    BY <1>1, <1>2, <1>4 DEF SessionsOK, OwnersOK

\* The table of owners names the person that opened each session in it, and every request in
\* the service acts for the person its principal key stands for, at any interleaving of the
\* calls that open, use and end sessions.
THEOREM SessionsInvariant == Spec => []SessionsOK
  <1>1. SessionsOK /\ KeysOK /\ [Next]_vars => SessionsOK'
    BY StepKeepsSessions DEF KeysOK
  <1> QED
    BY <1>1, InitSessions, KeysInvariant, PTL DEF Spec

\* Nobody is served in a session somebody else opened, whatever configurations, tokens and
\* requests there are.
THEOREM OwnersServed == Spec => []SessionsServeTheirOwner
  <1>1. SessionsOK => SessionsServeTheirOwner
    BY DEF SessionsOK, SoundRequest, SessionsServeTheirOwner, InSession
  <1> QED
    BY <1>1, SessionsInvariant, PTL
================================================================================
