------------------------------- MODULE MCGateway -------------------------------
(* Gateway with a handful of requests, tokens, key documents and configurations. *)
EXTENDS Gateway, MCConfig

Scopes == {"read", "write"}

Jws(kid, signer, sub, exp) ==
    [kid |-> kid, alg |-> "EdDSA", signer |-> signer, sub |-> sub, client |-> None, exp |-> exp,
     nbf |-> Never, iss |-> Issuer, aud |-> {Audience}, scopes |-> Scopes, secret |-> ""]
Secret(text) == [Jws(NoName, "", None, Never) EXCEPT !.secret = text]
Mcp(method, token, opens, address) ==
    [kind |-> "mcp", method |-> method, token |-> token, opens |-> opens, address |-> address,
     scope |-> "read"]
ProbeAsk == [kind |-> "probe", method |-> "GET", token |-> None, opens |-> FALSE, address |-> "a",
             scope |-> "read"]

Key(kid) == [kid |-> kid, type |-> "Ed25519", use |-> "sig", complete |-> TRUE, signer |-> kid]
TheAnswers ==
    {[up |-> TRUE, document |-> <<Key("k1")>>, maxAge |-> 9],
     [up |-> TRUE, document |-> <<Key("k2"), [Key("k3") EXCEPT !.use = "enc"]>>, maxAge |-> Never],
     [up |-> FALSE, document |-> << >>, maxAge |-> Never]}

Line(secret, name) == [secret |-> secret, name |-> name, scopes |-> {"read"}]
\* An HTTP start with one profile, two connections at most and a cheap rate limit.
Start(auth, entry, env) ==
    [NoSources EXCEPT
        !.flag = [profile |-> "p"] @@ IF auth = None THEN << >> ELSE [http_auth |-> auth],
        !.env = env,
        !.profiles = [p |-> entry @@ [database |-> "app", http_max_connections |-> 2,
                                      http_rate_limit |-> 0]],
        !.tokenFiles = [tokens |-> <<Line("s1", "ci")>>]]

TheStarts ==
    {Start("oauth", [http_oauth_issuer |-> [scheme |-> "https", host |-> "id"]], << >>),
     Start(None, [http_auth |-> "bearer"], [http_auth |-> "none",
                                            http_older_client_sessions |-> TRUE]),
     Start(None, [http_auth |-> "bearer", http_tokens_file |-> "tokens", http_rate_limit |-> 1],
           << >>),
     Start(None, [http_bind |-> "db"], << >>)}
        \union {Start("bearer", [http_tokens_file |-> "tokens"],
                      [bearer_tokens |-> <<Line("s2", name)>>,
                       http_older_client_sessions |-> TRUE]) : name \in {"ci", ""}}

TheAsks ==
    [none |-> {Mcp("POST", None, TRUE, "a"), Mcp("GET", None, FALSE, "b")},
     bearer |-> {Mcp(m, Secret(t), m = "POST", "a") : m \in {"POST", "DELETE"}, t \in {"s1", "s2"}}
                    \union {Mcp("POST", None, TRUE, "a"), Mcp("GET", Secret("s1"), FALSE, "a"),
                           [Mcp("POST", Secret("s1"), FALSE, "a") EXCEPT !.scope = "admin"]},
     oauth |-> {Mcp("POST", Jws("k1", "k1", "ann", 4), TRUE, "a"),
                Mcp("POST", Jws("k2", "k2", "bob", 1), TRUE, "a"),
                ProbeAsk}]

\* Which request is which makes no difference, nor how one ended: states that differ in
\* nothing else are alike.
Shown(q) ==
    [request |-> IF req[q].stage # "idle" /\ Ended(q) THEN [NoRequest EXCEPT !.stage = "ended"]
                 ELSE req[q],
     refreshes |-> refreshing = q]
Observed ==
    <<setup, tokens, phase, now, endpoint, changes, cache, used, sessions, owners, opened, listed,
      asked, [r \in {Shown(q) : q \in Requests} |-> Cardinality({q \in Requests : Shown(q) = r})]>>
================================================================================
