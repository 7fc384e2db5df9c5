-------------------------------- MODULE Toolbox --------------------------------
(***************************************************************************)
(* The tools that render SQL: what each operation needs, what it refuses,  *)
(* the statement it renders, and the kinds of statement it expects its own *)
(* rendering to parse to (tools/ddl, tools/roles.rs, tools/write.rs,       *)
(* tools/maintenance.rs).                                                  *)
(*                                                                         *)
(* A request is [tool, op, given, foreign, text, sql]: the operation, the  *)
(* arguments given (flags that are set, lists and texts that are not       *)
(* empty), whether a name among them is in another schema, what the SQL in *)
(* an argument holds, and the statement of a tool that takes one.  A tool  *)
(* maps a request to the set of what it renders: one rendering, or none if *)
(* it refuses the arguments.                                               *)
(***************************************************************************)
EXTENDS Classify

Given(r, field) == field \in r.given
Needs(r, fields) == fields \subseteq r.given
MarksOf(r, fields) == r.given \intersect fields

-----------------------------------------------------------------------------
(* SQL inside arguments (render.rs).  `text` is "plain", "refused" (it     *)
(* calls a denied function), "not one expression", "other schema" (a       *)
(* sub-select names a table of another schema), "resets" (it calls a       *)
(* function that resets statistics) or "none".                             *)

\* expression, type_name, operator, partition_bound and returns_type classify a probe.
TextAccepted(r) == r.text \notin {"refused", "not one expression"}

Holding(s, r) ==
    [s EXCEPT !.relations = @ \union IF r.text = "other schema"
                                     THEN {[schema |-> "other", name |-> "t"]} ELSE {},
              !.functions = @ \union IF r.text = "resets"
                                     THEN {[schema |-> NoSchema, does |-> "reset statistics"]}
                                     ELSE {}]

\* QualifiedName::parse refuses a name outside the served schema; `verify` refuses a
\* rendering of another kind than the tool expects.
Rendered(r, s, expected) ==
    IF ~r.foreign /\ TextAccepted(r)
    THEN {[stmt |-> Holding(s, r), expected |-> expected]}
    ELSE {}

-----------------------------------------------------------------------------
(* Shapes of statements. *)

Of(kind, marks) == [Statement(kind) EXCEPT !.marks = marks]
On(kind, marks) ==
    [Of(kind, marks) EXCEPT !.relations = {[schema |-> ServedSchema, name |-> "orders"]}]

\* DROP <object>: the names stand in a list, and for a routine and a type in nodes of their own.
DropOf(object, names, marks) ==
    [Of("DropStmt", {object} \union marks) EXCEPT
        !.objects = {[form |-> IF object \in {"type", "domain"} THEN "type" ELSE "list",
                      names |-> names]}]
DropScoped(r, object) ==
    DropOf(object, <<ServedSchema, "orders">>, MarksOf(r, {"cascade", "concurrently"}))

-----------------------------------------------------------------------------
(* pg_table, pg_column, pg_constraint *)

Table(r) ==
    CASE r.op = "create" ->
            IF /\ Given(r, "columns") \/ Given(r, "like")
               /\ Given(r, "partition_by") => Given(r, "partition_key")
            THEN Rendered(r, IF Given(r, "temporary")
                             THEN [Of("CreateStmt", {}) EXCEPT
                                     !.relations = {[schema |-> NoSchema, name |-> "orders"]}]
                             ELSE On("CreateStmt", {}), {"CreateStmt"})
            ELSE {}
      [] r.op = "drop" -> Rendered(r, DropScoped(r, "table"), {"DropStmt"})
      [] r.op = "rename" /\ Given(r, "new_name") -> Rendered(r, On("RenameStmt", {}), {"RenameStmt"})
      [] r.op = "truncate" ->
            Rendered(r, On("TruncateStmt", MarksOf(r, {"cascade"})), {"TruncateStmt"})
      [] r.op = "set_logged" -> Rendered(r, On("AlterTableStmt", {}), {"AlterTableStmt"})
      [] r.op = "set_unlogged" ->
            Rendered(r, On("AlterTableStmt", {"set unlogged"}), {"AlterTableStmt"})
      [] r.op = "set_owner" /\ Given(r, "owner") ->
            Rendered(r, On("AlterTableStmt", {}), {"AlterTableStmt"})
      [] r.op = "attach_partition" /\ Needs(r, {"partition", "bound"}) ->
            Rendered(r, On("AlterTableStmt", {}), {"AlterTableStmt"})
      [] r.op = "detach_partition" /\ Given(r, "partition") ->
            Rendered(r, On("AlterTableStmt", {"detach"} \union MarksOf(r, {"concurrently"})),
                     {"AlterTableStmt"})
      [] OTHER -> {}

Column(r) ==
    LET alter(marks) == Rendered(r, On("AlterTableStmt", marks), {"AlterTableStmt"})
    IN  CASE r.op = "add" /\ Given(r, "data_type") -> alter({})
          [] r.op = "drop" -> alter({"drop column"} \union MarksOf(r, {"cascade"}))
          [] r.op = "rename" /\ Given(r, "new_name") ->
                Rendered(r, On("RenameStmt", {}), {"RenameStmt"})
          [] r.op = "alter_type" /\ Given(r, "data_type") ->
                alter(IF Given(r, "using") THEN {"retype using"} ELSE {})
          [] r.op = "set_default" /\ Given(r, "default") -> alter({})
          [] r.op = "add_identity" /\ Given(r, "identity") -> alter({})
          [] r.op = "set_storage" /\ Given(r, "storage") -> alter({})
          [] r.op = "set_compression" /\ Given(r, "compression") -> alter({})
          [] r.op \in {"drop_default", "set_not_null", "drop_not_null", "drop_identity",
                       "set_statistics"} -> alter({})
          [] OTHER -> {}

\* What `add` needs, by the kind of the constraint.
ConstraintBody(r) ==
    \/ r.given \intersect {"primary_key", "unique", "not_null"} # {} /\ Given(r, "columns")
    \/ Given(r, "check") /\ Given(r, "expression")
    \/ Given(r, "foreign_key") /\ Needs(r, {"columns", "references"})
    \/ Given(r, "exclude") /\ Given(r, "elements")

Constraint(r) ==
    LET alter(marks) == Rendered(r, On("AlterTableStmt", marks), {"AlterTableStmt"})
    IN  CASE r.op = "add" /\ ConstraintBody(r) -> alter({})
          [] r.op = "validate" /\ Given(r, "name") -> alter({})
          [] r.op = "drop" /\ Given(r, "name") ->
                alter({"drop constraint"} \union MarksOf(r, {"cascade"}))
          [] r.op = "rename" /\ Needs(r, {"name", "new_name"}) ->
                Rendered(r, On("RenameStmt", {}), {"RenameStmt"})
          [] r.op = "alter" /\ Given(r, "name") /\ r.given \intersect {"deferrable", "enforced"} # {} ->
                alter({})
          [] OTHER -> {}

-----------------------------------------------------------------------------
(* pg_index, pg_view, pg_sequence *)

Index(r) ==
    CASE r.op = "create" /\ Needs(r, {"table", "columns"})
                         /\ (Given(r, "if_not_exists") => Given(r, "name")) ->
            Rendered(r, On("IndexStmt", MarksOf(r, {"concurrently"})), {"IndexStmt"})
      [] r.op = "drop" /\ Given(r, "name") -> Rendered(r, DropScoped(r, "index"), {"DropStmt"})
      [] r.op = "rename" /\ Needs(r, {"name", "new_name"}) ->
            Rendered(r, On("RenameStmt", {}), {"RenameStmt"})
      [] r.op = "reindex" /\ (Given(r, "name") \/ Given(r, "table")) ->
            Rendered(r, On("ReindexStmt", MarksOf(r, {"concurrently"})), {"ReindexStmt"})
      [] OTHER -> {}

\* The defining query is itself classified and authorized; only a SELECT is taken.
View(r) ==
    LET materialized == Given(r, "materialized")
        kind == IF materialized THEN "CreateTableAsStmt" ELSE "ViewStmt"
    IN  CASE r.op = "create" /\ Given(r, "query") /\ r.sql.kind = "SelectStmt"
                             /\ ~(materialized /\ Given(r, "check_option")) ->
                Rendered(r, [On(kind, {}) EXCEPT
                                !.relations = @ \union r.sql.relations,
                                !.functions = r.sql.functions, !.ctes = r.sql.ctes,
                                !.inner = Nodes(r.sql)],
                         {"ViewStmt", "CreateTableAsStmt"})
          [] r.op = "drop" ->
                Rendered(r, DropScoped(r, IF materialized THEN "materialized view" ELSE "view"),
                         {"DropStmt"})
          [] r.op = "rename" /\ Given(r, "new_name") ->
                Rendered(r, On("RenameStmt", {}), {"RenameStmt"})
          [] r.op = "refresh" /\ materialized ->
                Rendered(r, On("RefreshMatViewStmt", MarksOf(r, {"concurrently"})),
                         {"RefreshMatViewStmt"})
          [] OTHER -> {}

SequenceTool(r) ==
    CASE r.op = "create" -> Rendered(r, On("CreateSeqStmt", {}), {"CreateSeqStmt"})
      [] r.op = "alter" /\ Given(r, "option") ->
            Rendered(r, On("AlterSeqStmt", {}), {"AlterSeqStmt"})
      [] r.op = "drop" -> Rendered(r, DropScoped(r, "sequence"), {"DropStmt"})
      [] r.op = "rename" /\ Given(r, "new_name") ->
            Rendered(r, On("RenameStmt", {}), {"RenameStmt"})
      [] OTHER -> {}

-----------------------------------------------------------------------------
(* pg_routine, pg_trigger *)

\* config_clauses and definer_search_path: a SECURITY DEFINER routine keeps its path.
Clauses(r) == MarksOf(r, {"property", "set_config", "security_definer"})
PathKept(r) == ~Needs(r, {"security_definer", "search_path"})

\* The statement names the routine in a list of strings, not in a RangeVar.
Routine(r) ==
    LET named(kind) == [Of(kind, {}) EXCEPT
                           !.objects = {[form |-> "list", names |-> <<ServedSchema, "f">>]}]
    IN  CASE r.op = "create" /\ Needs(r, {"language", "body"})
                             /\ (Given(r, "procedure") \/ Given(r, "returns"))
                             /\ ~Given(r, "unsafe_language") /\ PathKept(r) ->
                Rendered(r, named("CreateFunctionStmt"), {"CreateFunctionStmt"})
          [] r.op = "alter" /\ PathKept(r) /\ Given(r, "owner") /\ Clauses(r) = {} ->
                Rendered(r, Of("AlterOwnerStmt", {}), {"AlterOwnerStmt"})
          [] r.op = "alter" /\ PathKept(r) /\ ~Given(r, "owner") /\ Clauses(r) # {} ->
                Rendered(r, named("AlterFunctionStmt"), {"AlterFunctionStmt"})
          [] r.op = "rename" /\ Given(r, "new_name") ->
                Rendered(r, Of("RenameStmt", {}), {"RenameStmt"})
          [] r.op = "drop" ->
                Rendered(r, DropScoped(r, IF Given(r, "procedure") THEN "procedure" ELSE "function"),
                         {"DropStmt"})
          [] OTHER -> {}

\* DROP TRIGGER t ON app.orders names <<app, orders, t>>.
Trigger(r) ==
    LET onTable == Given(r, "table")
        alter == Rendered(r, On("AlterTableStmt", {}), {"AlterTableStmt"})
    IN  CASE r.op = "create" /\ onTable /\ Needs(r, {"timing", "events", "function"}) ->
                Rendered(r, On("CreateTrigStmt", {}), {"CreateTrigStmt"})
          [] r.op = "drop" /\ onTable ->
                Rendered(r, DropOf("trigger", <<ServedSchema, "orders", "t">>,
                                   MarksOf(r, {"cascade"})), {"DropStmt"})
          [] r.op = "rename" /\ onTable /\ Given(r, "new_name") ->
                Rendered(r, On("RenameStmt", {}), {"RenameStmt"})
          [] r.op \in {"enable", "disable"} /\ onTable -> alter
          [] r.op = "create_event" /\ Needs(r, {"event", "function"}) ->
                Rendered(r, Of("CreateEventTrigStmt", {}), {"CreateEventTrigStmt"})
          [] r.op = "drop_event" ->
                Rendered(r, DropOf("event trigger", <<"t">>, MarksOf(r, {"cascade"})), {"DropStmt"})
          [] OTHER -> {}

-----------------------------------------------------------------------------
(* pg_type, pg_extension, pg_comment, pg_publication *)

Type(r) ==
    LET plain(kind) == Rendered(r, Of(kind, {}), {kind})
        attribute(marks) == Rendered(r, On("AlterTableStmt", marks \union MarksOf(r, {"cascade"})),
                                     {"AlterTableStmt"})
    IN  CASE r.op = "create_enum" -> plain("CreateEnumStmt")
          [] r.op = "add_value" /\ Given(r, "value") -> plain("AlterEnumStmt")
          [] r.op = "rename_value" /\ Needs(r, {"value", "new_value"}) -> plain("AlterEnumStmt")
          [] r.op = "create_composite" /\ Given(r, "attributes") ->
                Rendered(r, On("CompositeTypeStmt", {}), {"CompositeTypeStmt"})
          [] r.op \in {"add_attribute", "alter_attribute"} /\ Given(r, "attribute") -> attribute({})
          [] r.op = "drop_attribute" /\ Given(r, "attribute") -> attribute({"drop column"})
          [] r.op = "create_domain" /\ Given(r, "base_type") -> plain("CreateDomainStmt")
          [] \/ r.op \in {"set_not_null", "drop_not_null", "drop_default"}
             \/ r.op = "set_default" /\ Given(r, "default")
             \/ r.op = "add_check" /\ Given(r, "check")
             \/ r.op \in {"drop_constraint", "validate_constraint"} /\ Given(r, "constraint_name") ->
                plain("AlterDomainStmt")
          [] r.op = "create_range" /\ Given(r, "base_type") -> plain("CreateRangeStmt")
          [] r.op = "rename" /\ Given(r, "new_name") -> plain("RenameStmt")
          [] r.op = "set_owner" /\ Given(r, "owner") -> plain("AlterOwnerStmt")
          [] r.op = "drop" -> Rendered(r, DropScoped(r, "type"), {"DropStmt"})
          [] OTHER -> {}

\* refuse_dangerous_extension
Extension(r) ==
    CASE r.op = "create" /\ ~Given(r, "dangerous") ->
            Rendered(r, Of("CreateExtensionStmt", {}), {"CreateExtensionStmt"})
      [] r.op = "update" -> Rendered(r, Of("AlterExtensionStmt", {}), {"AlterExtensionStmt"})
      [] r.op = "drop" ->
            Rendered(r, DropOf("extension", <<"x">>, MarksOf(r, {"cascade"})), {"DropStmt"})
      [] OTHER -> {}

\* A member is needed on a column, a constraint, a trigger or a policy.  The schema and
\* the database are the served ones, or the comment is refused as a foreign name is.
Comment(r) ==
    IF r.op = "on member" /\ ~Given(r, "member") THEN {}
    ELSE Rendered(r, IF r.op = "on column" THEN On("CommentStmt", {}) ELSE Of("CommentStmt", {}),
                  {"CommentStmt"})

Publication(r) ==
    LET tables(kind, marks) == Rendered(r, On(kind, marks), {kind})
    IN  CASE r.op = "create" /\ Given(r, "for_all_tables") /\ ~Given(r, "tables") ->
                Rendered(r, Of("CreatePublicationStmt", {"for all tables"}),
                         {"CreatePublicationStmt"})
          [] r.op = "create" /\ ~Given(r, "for_all_tables") /\ Given(r, "tables") ->
                tables("CreatePublicationStmt", {})
          [] r.op = "add_tables" /\ Given(r, "tables") -> tables("AlterPublicationStmt", {})
          [] r.op = "set_tables" /\ Given(r, "tables") ->
                tables("AlterPublicationStmt", {"set table"})
          [] r.op = "drop_tables" /\ Given(r, "tables") ->
                tables("AlterPublicationStmt", {"drop table"})
          [] r.op = "rename" /\ Given(r, "new_name") ->
                Rendered(r, Of("RenameStmt", {}), {"RenameStmt"})
          [] r.op = "set_owner" /\ Given(r, "owner") ->
                Rendered(r, Of("AlterOwnerStmt", {}), {"AlterOwnerStmt"})
          [] r.op = "drop" -> Rendered(r, DropOf("publication", <<"p">>, {}), {"DropStmt"})
          [] OTHER -> {}

-----------------------------------------------------------------------------
(* pg_role, pg_grant, pg_policy, pg_privileges *)

\* A password in clear is hashed before it is rendered; in a dry run it is not rendered.
Role(r) ==
    LET plain(kind) == Rendered(r, Of(kind, {}), {kind})
    IN  CASE r.op = "create" -> plain("CreateRoleStmt")
          [] r.op = "alter" /\ r.given \intersect {"option", "password"} # {} -> plain("AlterRoleStmt")
          [] r.op = "rename" /\ Given(r, "new_name") -> plain("RenameStmt")
          [] r.op = "drop" -> plain("DropRoleStmt")
          [] r.op \in {"grant_membership", "revoke_membership"} /\ Given(r, "group_role") ->
                plain("GrantRoleStmt")
          [] r.op = "set_config" /\ Needs(r, {"parameter", "value"}) -> plain("AlterRoleSetStmt")
          [] r.op = "reset_config" /\ Given(r, "parameter") -> plain("AlterRoleSetStmt")
          [] OTHER -> {}

\* privilege_list and role_list refuse an empty list; what is in a schema is named, and
\* default privileges cover tables, sequences, routines and types.
Grant(r) ==
    IF ~Needs(r, {"privileges", "roles"}) THEN {}
    ELSE CASE r.op \in {"grant", "revoke"} /\ (Given(r, "names") \/ Given(r, "all_in_schema")) ->
                Rendered(r, IF Given(r, "names") THEN On("GrantStmt", MarksOf(r, {"cascade"}))
                            ELSE Of("GrantStmt", MarksOf(r, {"cascade"})), {"GrantStmt"})
           [] r.op \in {"default_grant", "default_revoke"} /\ ~Given(r, "on_database") ->
                Rendered(r, Of("AlterDefaultPrivilegesStmt", {}), {"AlterDefaultPrivilegesStmt"})
           [] OTHER -> {}

\* DROP POLICY p ON app.orders names <<app, orders, p>>.
Policy(r) ==
    CASE r.op = "create" /\ Given(r, "name") ->
            Rendered(r, On("CreatePolicyStmt", {}), {"CreatePolicyStmt"})
      [] r.op = "alter" /\ Given(r, "name") /\ r.given \intersect {"roles", "using"} # {} ->
            Rendered(r, On("AlterPolicyStmt", {}), {"AlterPolicyStmt"})
      [] r.op = "rename" /\ Needs(r, {"name", "new_name"}) ->
            Rendered(r, On("RenameStmt", {}), {"RenameStmt"})
      [] r.op = "drop" /\ Given(r, "name") ->
            Rendered(r, DropOf("policy", <<ServedSchema, "orders", "p">>, {}), {"DropStmt"})
      [] r.op \in {"enable_rls", "disable_rls", "force_rls", "no_force_rls"} ->
            Rendered(r, On("AlterTableStmt", {}), {"AlterTableStmt"})
      [] OTHER -> {}

\* apply_template wraps its grants in one DO block; its arguments have no `confirm`.
Privileges(r) ==
    IF r.op = "apply_template" /\ Given(r, "template")
    THEN Rendered(r, Of("DoStmt", {}), {"DoStmt"})
    ELSE {}

-----------------------------------------------------------------------------
(* pg_insert, pg_update, pg_delete, pg_merge (write.rs).  `where` of a     *)
(* request is the condition its filter holds.                              *)

Filtered(r, s) == [s EXCEPT !.where = IF Given(r, "filter") THEN r.where ELSE Always]

\* update_targets and column_union are in the fields: a row that names fewer columns
\* ("partial rows") cannot be upserted, and an updated column is one the rows name.
Insert(r) ==
    IF /\ Given(r, "rows")
       /\ Given(r, "on_conflict update") =>
             Given(r, "conflict_columns") /\ ~Given(r, "partial rows")
    THEN Rendered(r, [On("InsertStmt", {}) EXCEPT !.inner = {Node("SelectStmt")}], {"InsertStmt"})
    ELSE {}

Update(r) ==
    IF Given(r, "set")
    THEN Rendered(r, Filtered(r, [On("UpdateStmt", {}) EXCEPT !.inner = {Node("SelectStmt")}]),
                  {"UpdateStmt"})
    ELSE {}

Delete(r) == Rendered(r, Filtered(r, On("DeleteStmt", {})), {"DeleteStmt"})

\* The join is always on named columns, and only MATCHED rows are updated.
Merge(r) ==
    IF Needs(r, {"rows", "match_on"})
    THEN Rendered(r, [On("MergeStmt", {"mutating"}) EXCEPT !.inner = {Node("SelectStmt")}],
                  {"MergeStmt"})
    ELSE {}

-----------------------------------------------------------------------------
(* pg_vacuum, pg_analyze, pg_reindex, pg_refresh, pg_backend               *)
(* (maintenance.rs).  "tables" is given when the list, or the schema, has  *)
(* one.                                                                    *)

Vacuum(r) ==
    IF r.op = "checkpoint" THEN Rendered(r, Of("CheckPointStmt", {}), {"CheckPointStmt"})
    ELSE IF Given(r, "tables") THEN Rendered(r, On("VacuumStmt", {}), {"VacuumStmt"})
    ELSE {}

Analyze(r) ==
    IF Given(r, "tables") /\ (Given(r, "columns") => ~Given(r, "more tables"))
    THEN Rendered(r, On("VacuumStmt", {}), {"VacuumStmt"})
    ELSE {}

Reindex(r) ==
    CASE r.op \in {"index", "table"} /\ Given(r, "name") ->
            Rendered(r, On("ReindexStmt", MarksOf(r, {"concurrently"})), {"ReindexStmt"})
      [] r.op = "schema" ->
            Rendered(r, Of("ReindexStmt", MarksOf(r, {"concurrently"})), {"ReindexStmt"})
      [] OTHER -> {}

Refresh(r) ==
    Rendered(r, On("RefreshMatViewStmt", MarksOf(r, {"concurrently"})), {"RefreshMatViewStmt"})

\* SELECT pg_cancel_backend(pid): the walk notes both functions as denied ones.
Backend(r) ==
    Rendered(r, [Of("SelectStmt", {r.op}) EXCEPT
                    !.functions = {[schema |-> "pg_catalog", does |-> "reach out"]}],
             {"SelectStmt"})

\* The reason a maintenance tool gives of its own for asking.
Forced(r) == \/ r.tool = "pg_vacuum" /\ r.op # "checkpoint" /\ Given(r, "full")
             \/ r.tool = "pg_backend" /\ r.op = "terminate"
================================================================================
