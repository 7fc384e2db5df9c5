-------------------------------- MODULE Config --------------------------------
(***************************************************************************)
(* What one start of the server runs with (config/resolve.rs, libpq.rs,    *)
(* http.rs, keychain.rs, profile.rs): the settings its flags, its          *)
(* environment, the selected profile and the libpq sources resolve to, the *)
(* passwords it connects with, and the combinations it refuses.            *)
(*                                                                         *)
(* A layer is a function from the names of the settings it gives to their  *)
(* values; a blank environment variable gives nothing.  The sources of a   *)
(* start are a record:                                                     *)
(*   flag, env     the layers of the command line and of OWNPG_*           *)
(*   pg            the libpq keywords of the PG* variables                 *)
(*   vars          every other variable                                    *)
(*   profiles      the profile file: None when there is none, Bad when it  *)
(*                 does not load, or each profile's layer by its name      *)
(*   services      the service files in their order: pairs by section name *)
(*   passfile      the password file in the home directory, or None        *)
(*   files         the password files: [private, lines] by path            *)
(*   tokenFiles    the bearer token files: lines by path                   *)
(*   keychain      the secrets by account, or None without a keychain      *)
(*   configFile, osUser, enabled  (the last: whether HTTP is served)       *)
(***************************************************************************)
EXTENDS Integers, Sequences, FiniteSets, TLC

CONSTANTS
    None,          \* an absent value
    Bad,           \* a text its parser refuses
    Canonical,     \* the spelling keychain::host_key gives each host name
    SocketPaths,   \* hosts that are a socket directory
    LocalHosts     \* hosts is_local_host accepts

Given(layer, setting) == IF setting \in DOMAIN layer THEN layer[setting] ELSE None
FirstOf(values) ==
    LET given == SelectSeq(values, LAMBDA v : v # None)
    IN  IF given = << >> THEN None ELSE Head(given)
Parse(layer, settings) == \A s \in settings \intersect DOMAIN layer : layer[s] # Bad

-----------------------------------------------------------------------------
(* The layers. *)

\* LibpqLayer::from_pairs: the keywords that reach the connection, those that are put
\* aside, and the settings that demand nothing; any other keyword refuses the start.
Honored == {"host", "hostaddr", "port", "dbname", "user", "password", "passfile", "service",
            "sslmode", "sslrootcert", "sslcert", "sslkey", "connect_timeout", "channel_binding",
            "application_name", "fallback_application_name", "options", "sslnegotiation"}
IGNORED_KEYWORDS ==
    {"keepalives", "keepalives_idle", "keepalives_interval", "keepalives_count",
     "tcp_user_timeout", "client_encoding", "sslcompression", "sslsni", "sslkeylogfile",
     "ssl_max_protocol_version", "load_balance_hosts", "target_session_attrs", "krbsrvname",
     "gsslib", "gssdelegation"}
Harmless(keyword, value) ==
    \/ keyword = "gssencmode" /\ value # "require"
    \/ keyword = "sslcertmode" /\ value \in {"disable", "allow"}
    \/ keyword = "ssl_min_protocol_version" /\ value \in {"TLSv1", "TLSv1.1", "TLSv1.2"}
    \/ keyword = "min_protocol_version" /\ value = "3.0"
    \/ keyword = "max_protocol_version" /\ value \in {"3.0", "latest"}

CanHonor(pairs) ==
    \A k \in DOMAIN pairs :
        (k \in Honored /\ pairs[k] # Bad) \/ k \in IGNORED_KEYWORDS \/ Harmless(k, pairs[k])

\* The layer's name of a keyword; a fallback name yields to the name itself.
FromPairs(pairs) ==
    LET Keyword(s) ==
            IF s = "database" THEN "dbname"
            ELSE IF s = "application_name" /\ s \notin DOMAIN pairs THEN "fallback_application_name"
            ELSE s
        names == {"database"} \union (Honored \ {"dbname", "fallback_application_name"})
    IN  [s \in {n \in names : Keyword(n) \in DOMAIN pairs} |-> pairs[Keyword(s)]]

Over(self, lower) == self @@ lower

ProfileName(src) == FirstOf(<<Given(src.flag, "profile"), Given(src.env, "profile")>>)
ProfileLoads(src) ==
    /\ src.profiles # Bad
    /\ ProfileName(src) # None => src.profiles # None /\ ProfileName(src) \in DOMAIN src.profiles
Profile(src) == IF ProfileName(src) = None THEN << >> ELSE src.profiles[ProfileName(src)]

\* The first service file that has the section supplies it; without one the section is empty.
ServiceSection(src, name) ==
    LET having == SelectSeq(src.services, LAMBDA file : name \in DOMAIN file)
    IN  IF name = None \/ having = << >> THEN << >> ELSE Head(having)[name]
ServicePairs(src) ==
    ServiceSection(src, FirstOf(<<Given(Profile(src), "service"), Given(src.pg, "service")>>))
DsnPairs(src) ==
    LET dsn == FirstOf(<<Given(src.env, "dsn"), Given(Profile(src), "dsn")>>)
    IN  IF dsn = None THEN << >> ELSE dsn

LibpqLayer(src) ==
    Over(FromPairs(DsnPairs(src)), Over(FromPairs(ServicePairs(src)), FromPairs(src.pg)))

\* A run of continuous integration asks no questions, unless OWNPG_NO_INPUT says otherwise.
CiNoInput(src) == "CI" \in DOMAIN src.vars /\ src.vars["CI"] # "false"

Layers(src) ==
    [flag |-> src.flag,
     env |-> IF CiNoInput(src) THEN src.env @@ ("no_input" :> TRUE) ELSE src.env,
     profile |-> Profile(src),
     libpq |-> LibpqLayer(src)]

-----------------------------------------------------------------------------
(* Pick: which layers may give a setting, strongest first, and its preset. *)

Precedence == <<"flag", "env", "profile", "libpq">>

Takes ==
    [s \in {"database", "host", "port", "user", "sslmode", "sslrootcert"} |->
        {"flag", "env", "profile", "libpq"}]
    @@ [s \in {"mode", "schema", "tools", "strict_role", "audit", "audit_path", "no_input",
               "pg_bindir", "output_dir", "ssh", "ssh_transport", "ssh_trust_new_host",
               "http_bind", "http_auth"} |-> {"flag", "env", "profile"}]
    @@ [s \in {"sslcert", "sslkey", "connect_timeout"} |-> {"env", "profile", "libpq"}]
    @@ [s \in {"hostaddr", "channel_binding", "sslnegotiation", "application_name", "options"} |->
            {"profile", "libpq"}]
    @@ [s \in {"ssh_jump"} |-> {"profile"}]
    @@ [s \in {"keychain_scope", "result_text", "pooled", "statement_timeout", "lock_timeout",
               "transaction_timeout", "handle_expiry", "cursor_expiry", "row_cap", "byte_cap",
               "audit_max_bytes", "audit_keep_files", "audit_keep_days", "audit_on_failure",
               "http_public_url", "http_allowed_hosts", "http_body_cap", "http_rate_limit",
               "http_older_client_sessions", "http_shutdown", "http_pool_size",
               "http_tokens_file", "http_oauth_issuer", "http_oauth_jwks_url",
               "http_trusted_proxies", "http_max_connections"} |-> {"env", "profile"}]

\* The cap on connections stands for the largest number of 32 bits.
PresetOf ==
    [mode |-> "read-only", schema |-> "public", port |-> 5432, sslmode |-> "prefer",
     channel_binding |-> "prefer", sslnegotiation |-> "postgres", keychain_scope |-> "file",
     result_text |-> "full", tools |-> {}, connect_timeout |-> 10, statement_timeout |-> 30,
     lock_timeout |-> 5, transaction_timeout |-> 300, handle_expiry |-> 60, cursor_expiry |-> 30,
     row_cap |-> 100, byte_cap |-> 262144, audit |-> TRUE, audit_max_bytes |-> 52428800,
     audit_keep_files |-> 0, audit_keep_days |-> 366, audit_on_failure |-> "refuse-writes",
     no_input |-> FALSE, application_name |-> "ownpg", ssh_transport |-> "in-process",
     ssh_trust_new_host |-> FALSE, ssh_jump |-> << >>, http_bind |-> "127.0.0.1",
     http_body_cap |-> 1048576, http_rate_limit |-> 300, http_older_client_sessions |-> FALSE,
     http_shutdown |-> 10, http_pool_size |-> 4, http_auth |-> "none",
     http_trusted_proxies |-> {}, http_max_connections |-> 2147483647]

Preset(src, setting) ==
    CASE setting = "user" -> FirstOf(<<src.osUser, "postgres">>)
      [] setting = "strict_role" -> src.enabled
      [] OTHER -> Given(PresetOf, setting)

Pick(src, setting) ==
    LET layers == Layers(src)
        from == SelectSeq(Precedence,
                          LAMBDA o : o \in Takes[setting] /\ setting \in DOMAIN layers[o])
    IN  IF from = << >> THEN [value |-> Preset(src, setting), origin |-> "preset"]
        ELSE [value |-> layers[Head(from)][setting], origin |-> Head(from)]
Value(src, setting) == Pick(src, setting).value

-----------------------------------------------------------------------------
(* The tunnel: resolve_ssh.  A target is [host, user, port], from one      *)
(* layer as a whole.                                                       *)

Ssh(src) ==
    LET target == Value(src, "ssh")
    IN  IF target = None THEN None
        ELSE [host |-> target.host, port |-> FirstOf(<<target.port, 22>>),
              user |-> FirstOf(<<target.user, src.osUser>>), jump |-> Value(src, "ssh_jump"),
              transport |-> Value(src, "ssh_transport"),
              trust_new_host |-> Value(src, "ssh_trust_new_host")]

-----------------------------------------------------------------------------
(* Secrets. *)

\* keychain: an account stands for all that decides where its secret is sent.
HostKey(host) == IF host = None THEN "local-socket" ELSE Canonical[host]
Bastion(ssh) == <<ssh.user, HostKey(ssh.host), ssh.port>>
ScopeLine(src) == IF Value(src, "keychain_scope") = "file" THEN src.configFile ELSE None
PasswordAccount(src) ==
    [kind |-> "pg", scope |-> ScopeLine(src),
     target |-> <<Value(src, "user"), HostKey(Value(src, "host")), Value(src, "port")>>,
     via |-> IF Ssh(src) = None THEN << >> ELSE Ssh(src).jump \o <<Bastion(Ssh(src))>>]
SshSecretAccount(src) ==
    [kind |-> "ssh", scope |-> ScopeLine(src), target |-> Bastion(Ssh(src)), via |-> Ssh(src).jump]

FromKeychain(src, wanted, account) ==
    IF ProfileName(src) # None /\ Given(Profile(src), wanted) = TRUE /\ src.keychain # None
    THEN Given(src.keychain, account) ELSE None
FromVariable(src, named) == Given(src.vars, Given(Profile(src), named))

SshPassword(src) ==
    FirstOf(<<FromVariable(src, "ssh_password_env"),
              FromKeychain(src, "ssh_passphrase_keychain", SshSecretAccount(src))>>)

\* password_from_file: the first line that fits, None being its `*`; a file others may read
\* is put aside.
PasswordFile(src) == FirstOf(<<Given(LibpqLayer(src), "passfile"), src.passfile>>)
Fits(field, want) == field = None \/ field = want
PasswordFromFile(src, host, user) ==
    LET path == PasswordFile(src)
        key == IF host = None \/ host \in SocketPaths THEN "localhost" ELSE host
        fitting == SelectSeq(src.files[path].lines,
                             LAMBDA l : /\ Fits(l.host, key) /\ Fits(l.port, Value(src, "port"))
                                        /\ Fits(l.database, Value(src, "database"))
                                        /\ Fits(l.user, user))
    IN  IF path \notin DOMAIN src.files \/ ~src.files[path].private \/ fitting = << >> THEN None
        ELSE Head(fitting).password

GivenPassword(src) ==
    FirstOf(<<Given(src.env, "password"), Given(Profile(src), "password"),
              FromVariable(src, "password_env"),
              FromKeychain(src, "password_keychain", PasswordAccount(src)),
              Given(LibpqLayer(src), "password")>>)
Password(src) ==
    FirstOf(<<GivenPassword(src), PasswordFromFile(src, Value(src, "host"), Value(src, "user"))>>)

\* A start that names neither user nor server also tries postgres at 127.0.0.1.
TriesFallback(src) ==
    /\ Pick(src, "user").origin = "preset" /\ Value(src, "user") # "postgres"
    /\ Value(src, "host") = None /\ Value(src, "hostaddr") = None /\ Ssh(src) = None
FallbackPassword(src) ==
    IF ~TriesFallback(src) THEN None
    ELSE FirstOf(<<GivenPassword(src), PasswordFromFile(src, "127.0.0.1", "postgres")>>)

-----------------------------------------------------------------------------
(* resolve_http.  A URL is [scheme, host]. *)

PublicUrl(src) ==
    FirstOf(<<Value(src, "http_public_url"),
              [scheme |-> "http", host |-> Value(src, "http_bind")]>>)
AllowedHosts(src) ==
    LET given == Value(src, "http_allowed_hosts")
    IN  IF given \notin {None, {}} THEN given
        ELSE {"localhost", "127.0.0.1", "::1", Value(src, "http_bind"), PublicUrl(src).host}
JwksUrl(src) ==
    FirstOf(<<Value(src, "http_oauth_jwks_url"), Value(src, "http_oauth_issuer")>>)

AuthIsComplete(src) ==
    CASE Value(src, "http_auth") = "none" -> TRUE
      [] Value(src, "http_auth") = "bearer" ->
            Value(src, "http_tokens_file") # None \/ "bearer_tokens" \in DOMAIN src.env
      [] Value(src, "http_auth") = "oauth" ->
            /\ Value(src, "http_oauth_issuer") \notin {None, Bad}
            /\ Value(src, "http_oauth_issuer").scheme = "https"
            /\ JwksUrl(src) # Bad
            /\ \/ JwksUrl(src).scheme = "https"
               \/ JwksUrl(src).scheme = "http" /\ JwksUrl(src).host \in LocalHosts

\* Who is not asked for a token must be on this machine.
StaysLocal(src) ==
    /\ Value(src, "http_bind") \in LocalHosts
    /\ PublicUrl(src).host \in LocalHosts
    /\ AllowedHosts(src) \subseteq LocalHosts

ResolveHttp(src) ==
    /\ Value(src, "http_body_cap") >= 1024
    /\ Value(src, "http_pool_size") \in 1..64
    /\ Value(src, "http_max_connections") > 0
    /\ Value(src, "http_trusted_proxies") # Bad
    /\ AuthIsComplete(src)
    /\ src.enabled /\ Value(src, "http_auth") = "none" => StaysLocal(src)

-----------------------------------------------------------------------------
(* resolve: what starts, and what is refused. *)

GroupAllowedIn(group, mode) ==
    CASE group = "host" -> TRUE
      [] group = "monitoring" -> mode # "write-only"
      [] OTHER -> mode # "read-only"

\* A value that does not parse refuses the start even when a stronger layer overrides it.
EverythingParses(src) ==
    /\ CanHonor(src.pg) /\ CanHonor(ServicePairs(src))
    /\ DsnPairs(src) # Bad /\ CanHonor(DsnPairs(src))
    /\ Parse(src.env, DOMAIN Takes \ {"ssh_transport", "ssh_trust_new_host",
                                      "http_oauth_issuer", "http_oauth_jwks_url",
                                      "http_trusted_proxies"})
    /\ Parse(src.flag, {"ssh", "http_bind"})
    /\ Parse(Profile(src), {"http_bind", "http_public_url"})
    /\ Value(src, "ssh") # None => Parse(src.env, {"ssh_transport", "ssh_trust_new_host"})

LimitsAgree(src) ==
    /\ Value(src, "row_cap") \in 1..1000
    /\ Value(src, "handle_expiry") > 0
    /\ Value(src, "cursor_expiry") \in 1..Value(src, "handle_expiry")

Resolves(src) ==
    /\ ProfileLoads(src)
    /\ EverythingParses(src)
    /\ Value(src, "database") # None
    /\ Value(src, "sslnegotiation") = "direct" =>
          Value(src, "sslmode") \in {"require", "verify-ca", "verify-full"}
    /\ LimitsAgree(src)
    /\ \A group \in Value(src, "tools") : GroupAllowedIn(group, Value(src, "mode"))
    /\ \A s \in {"pg_bindir", "audit_path", "output_dir"} :
          Value(src, s) # None => Value(src, s).absolute
    /\ Ssh(src) # None => ~(Ssh(src).transport = "system" /\ Ssh(src).trust_new_host)
    /\ ResolveHttp(src)
================================================================================
