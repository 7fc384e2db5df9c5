-------------------------------- MODULE MCTools --------------------------------
(***************************************************************************)
(* Tools on a catalogue: every operation of every tool with each subset of *)
(* its arguments, and statements written in SQL that the classifier has to *)
(* tell apart.                                                             *)
(***************************************************************************)
EXTENDS Tools, Requests

-----------------------------------------------------------------------------
(* Conditions. *)

True == [op |-> "const", holds |-> TRUE]
False == [op |-> "const", holds |-> FALSE]
Self == [op |-> "self"]
Narrow == [op |-> "narrow"]
Leaves == {True, False, Self, Narrow}
Joined(op) == {[op |-> op, args |-> <<a, b>>] : a, b \in Leaves}
Wheres == Leaves \union Joined("and") \union Joined("or")
            \union {[op |-> op, args |-> <<a>>] : op \in {"not", "cast", "apply"}, a \in Leaves}
            \union {[op |-> "or", args |-> <<[op |-> "and", args |-> <<True, Self>>], Narrow>>]}
Nested == {[op |-> op, args |-> <<a, b>>] : op \in {"and", "or"}, a, b \in Wheres}
TheConditions == Wheres \union Nested \union {Always}

\* What LossIsAgreedTo (ToolsProofs) supposes of the classifier's recursion over conditions.
ASSUME TheConditionsAreDecided == ConditionsDecided

-----------------------------------------------------------------------------
(* Statements written in SQL. *)

Orders == [schema |-> ServedSchema, name |-> "orders"]
Elsewhere == [schema |-> "other", name |-> "t"]
Bare == [schema |-> NoSchema, name |-> "orders"]
Catalog == [schema |-> NoSchema, name |-> "pg_class"]
Sql(kind, marks) == [Of(kind, marks) EXCEPT !.relations = {Orders}]
Where(kind, e) == [Sql(kind, {}) EXCEPT !.where = e]
Calling(does) == [Sql("SelectStmt", {}) EXCEPT !.functions = {[schema |-> NoSchema, does |-> does]}]
Below(outer, n) == [Sql(outer, {}) EXCEPT !.inner = {n}]

Statements ==
    {Sql("SelectStmt", m) : m \in {{}, {"locking"}, {"into"}}}
        \union {[Statement("SelectStmt") EXCEPT !.relations = {r}] : r \in {Elsewhere, Bare, Catalog}}
        \union {[Statement("SelectStmt") EXCEPT !.relations = {Bare}, !.ctes = {"orders"}]}
        \union {Calling(d) : d \in {"plain", "reach out", "notify or lock", "reset statistics",
                                    "lock in transaction"}}
        \union {[Sql("SelectStmt", {}) EXCEPT !.functions = {[schema |-> "other", does |-> "plain"]}]}
        \union {Below("SelectStmt", [kind |-> k, marks |-> {}, where |-> Always]) :
                    k \in {"DeleteStmt", "UpdateStmt", "InsertStmt"}}
        \union {Where(k, e) : k \in {"DeleteStmt", "UpdateStmt"}, e \in Wheres \union {Always}}
        \union {[Where("DeleteStmt", Always) EXCEPT !.relations = {r}] : r \in {Elsewhere, Bare}}
        \union {Sql("InsertStmt", {}), Sql("MergeStmt", {"mutating"}),
                [Sql("MergeStmt", {"mutating"}) EXCEPT !.where = True]}
        \union {Statement(k) : k \in {"DoStmt", "CallStmt", "VariableSetStmt", "VariableShowStmt"}}
        \union {Sql("CopyStmt", m) : m \in {{}, {"from"}, {"from", "program"}, {"file"}}}
        \union {Sql("TruncateStmt", {}), Sql("VacuumStmt", {}), Sql("CreateStmt", {})}

-----------------------------------------------------------------------------

Views == {[Request("pg_view", "create", g) EXCEPT !.sql = s] :
            g \in {{"query"}, {"query", "materialized"}},
            s \in {s \in Statements : s.kind \in {"SelectStmt", "DeleteStmt"}}}

TheCatalogue ==
    UNION {TableArgs, ColumnSpec, ColumnArgs, ConstraintArgs, IndexArgs, ViewArgs, SequenceArgs,
           RoutineArgs, TriggerArgs, TypeArgs, ExtensionArgs, CommentArgs, PublicationArgs,
           RoleArgs, GrantArgs, PolicyArgs, PrivilegesArgs, InsertArgs, UpdateArgs(Wheres),
           DeleteArgs(Wheres), MergeArgs, CopyArgs(Statements), CountArgs,
           RunQueryArgs(Statements), RunWriteArgs(Statements), ExplainArgs(Statements),
           VacuumArgs, AnalyzeArgs, ReindexArgs, RefreshArgs, BackendArgs, Views}

\* Calls that are made again: two statements a confirmation must not be swapped between.
TheRetried == {Request("pg_delete", "rows", {}), Request("pg_table", "drop", {"cascade"})}
================================================================================
