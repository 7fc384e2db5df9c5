------------------------------- MODULE MCConfig -------------------------------
(* Config on a few thousand starts, against reference definitions. *)
EXTENDS Config

TheCanonical == [h \in {"db", "/run", "127.0.0.1"} |-> h] @@ [Db |-> "db"]

NoSources ==
    [flag |-> << >>, env |-> << >>, pg |-> << >>, vars |-> << >>, profiles |-> None,
     services |-> << >>, passfile |-> "home", files |-> << >>, tokenFiles |-> << >>,
     keychain |-> None, configFile |-> "ownpg.toml", osUser |-> "ann", enabled |-> TRUE]

-----------------------------------------------------------------------------
(* One setting, given in any of the six places it can come from. *)

Places == <<"flag", "env", "profile", "dsn", "service", "pg">>

At(value, place, setting) ==
    IF value[place] = None THEN << >> ELSE setting :> value[place]

Spread(value, setting, keyword) ==
    [NoSources EXCEPT
        !.flag = [profile |-> "p"] @@ At(value, "flag", setting),
        !.env = [dsn |-> At(value, "dsn", keyword)] @@ At(value, "env", setting),
        !.profiles = [p |-> At(value, "profile", setting) @@ [service |-> "s"]],
        !.services = << << >>, [s |-> At(value, "service", keyword)],
                        [s |-> keyword :> Bad] >>,
        !.pg = At(value, "pg", keyword)]

Names == {"flag", "env", "profile", "dsn", "service", "pg"}
\* The values of the six places, each one of its own choices.
Choices(values(_)) == {v \in [Names -> UNION {values(n) : n \in Names}] :
                          \A n \in Names : v[n] \in values(n)}

\* The value in force is the one of the first place that gives the setting, whichever of the
\* others give it too: flags over OWNPG_* over the profile over the connection string over
\* the service section over PG* variables (resolve.rs, libpq.rs `over`).
ASSUME TheStrongestPlaceWins ==
    LET OwnName(n) == {n, None}
    IN  \A v \in Choices(OwnName) :
            Value(Spread(v, "database", "dbname"), "database") =
                FirstOf([i \in 1..6 |-> v[Places[i]]])

\* A start with a database resolves exactly when every place that gives a port gives one that
\* parses: a mistake is reported even where a stronger place hides it.  The profile's port
\* is typed, and the command line's is parsed before.
ASSUME NoPlaceHidesAMistake ==
    LET Texts(n) == IF n \in {"flag", "profile"} THEN {5432, None} ELSE {5432, Bad, None}
    IN  \A v \in Choices(Texts) :
            LET src == Spread(v, "port", "port")
            IN  Resolves([src EXCEPT !.flag = @ @@ [database |-> "app"]])
                    <=> \A n \in Names : v[n] # Bad

-----------------------------------------------------------------------------
(* Passwords. *)

PasswordLine(host, user, password) ==
    [host |-> host, port |-> None, database |-> "app", user |-> user, password |-> password]
Lines == {PasswordLine(h, u, <<h, u>>) : h \in {"localhost", "127.0.0.1"},
                                         u \in {"ann", "postgres", None}}

Logins ==
    {[NoSources EXCEPT
        !.flag = [profile |-> "p", database |-> "app"] @@ flag,
        !.pg = pg,
        !.profiles = [p |-> entry],
        !.keychain = (PasswordAccount([NoSources EXCEPT !.flag = [user |-> "ann"]]) :> "kept"),
        !.files = [home |-> [private |-> private, lines |-> lines]]] :
            flag \in {<< >>, [user |-> "ann"], [host |-> "/run"]},
            pg \in {<< >>, [password |-> "pg"], [hostaddr |-> "db"]},
            entry \in {<< >>, [password_keychain |-> TRUE]},
            private \in BOOLEAN,
            lines \in {<< >>} \union (Lines \X Lines)}

\* The line of the password file that psql would use for a host and a user.
FirstLine(src, host, user, password) ==
    /\ src.files["home"].private
    /\ \E i \in DOMAIN src.files["home"].lines :
          LET OfTarget(j) == LET l == src.files["home"].lines[j]
                             IN  l.host = host /\ l.user \in {user, None}
          IN  /\ OfTarget(i) /\ src.files["home"].lines[i].password = password
              /\ \A j \in 1..(i - 1) : ~OfTarget(j)

\* A password read from the password file is tried only with the user and the host of its
\* line: the one of the first attempt never goes to the superuser of the fallback, nor the
\* other way (resolve.rs, from_password_file).
ASSUME FilePasswordsKeepTheirTarget ==
    \A src \in Logins :
        /\ GivenPassword(src) = None /\ Password(src) # None =>
              FirstLine(src, "localhost", "ann", Password(src))
        /\ GivenPassword(src) = None /\ FallbackPassword(src) # None =>
              /\ FirstLine(src, "127.0.0.1", "postgres", FallbackPassword(src))
              /\ Pick(src, "user").origin = "preset" /\ Value(src, "host") = None
================================================================================
