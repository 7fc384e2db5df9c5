------------------------------- MODULE Requests -------------------------------
(***************************************************************************)
(* The arguments of the tools: for every operation of a tool, each subset  *)
(* of the arguments that decide what it renders or refuses.  An argument   *)
(* that only fills in a text of the statement is left out.                 *)
(***************************************************************************)
EXTENDS Toolbox

Request(tool, op, given) ==
    [tool |-> tool, op |-> op, given |-> given, foreign |-> FALSE, text |-> "none",
     sql |-> Statement("SelectStmt"), where |-> [op |-> "narrow"]]

\* An operation with every subset of its arguments, and once with a foreign name.
Forms(tool, op, fields) ==
    {Request(tool, op, g) : g \in SUBSET fields}
        \union {[Request(tool, op, fields) EXCEPT !.foreign = TRUE]}
Simple(tool, ops) == UNION {Forms(tool, op, {}) : op \in ops}
Texts(r) == {[r EXCEPT !.text = x] : x \in {"plain", "refused", "not one expression",
                                            "other schema", "resets"}}

-----------------------------------------------------------------------------
(* pg_table, pg_column, pg_constraint *)

TableArgs ==
    Forms("pg_table", "create", {"columns", "like", "partition_by", "partition_key", "temporary"})
        \union Forms("pg_table", "drop", {"cascade"}) \union Forms("pg_table", "truncate", {"cascade"})
        \union Simple("pg_table", {"set_logged", "set_unlogged"})
        \union Forms("pg_table", "rename", {"new_name"}) \union Forms("pg_table", "set_owner", {"owner"})
        \union Forms("pg_table", "attach_partition", {"partition", "bound"})
        \union Forms("pg_table", "detach_partition", {"partition", "concurrently"})

\* Defaults, generated expressions and checks of a column are SQL.
ColumnSpec == Texts(Request("pg_table", "create", {"columns"}))

ColumnArgs ==
    Forms("pg_column", "add", {"data_type"}) \union Forms("pg_column", "drop", {"cascade"})
        \union Forms("pg_column", "rename", {"new_name"})
        \union Forms("pg_column", "alter_type", {"data_type", "using"})
        \union Forms("pg_column", "set_default", {"default"})
        \union Forms("pg_column", "add_identity", {"identity"})
        \union Forms("pg_column", "set_storage", {"storage"})
        \union Forms("pg_column", "set_compression", {"compression"})
        \union Simple("pg_column", {"drop_default", "set_not_null", "drop_not_null", "drop_identity",
                                    "set_statistics"})
        \union Texts(Request("pg_column", "alter_type", {"data_type", "using"}))

ConstraintArgs ==
    UNION {Forms("pg_constraint", "add", f) :
              f \in {{"primary_key", "columns"}, {"check", "expression"},
                     {"foreign_key", "columns", "references"}, {"exclude", "elements"}}}
        \union Forms("pg_constraint", "validate", {"name"})
        \union Forms("pg_constraint", "drop", {"name", "cascade"})
        \union Forms("pg_constraint", "rename", {"name", "new_name"})
        \union Forms("pg_constraint", "alter", {"name", "deferrable", "enforced"})
        \union Texts(Request("pg_constraint", "add", {"check", "expression"}))

-----------------------------------------------------------------------------
(* pg_index, pg_view, pg_sequence *)

IndexArgs ==
    Forms("pg_index", "create", {"table", "columns", "name", "if_not_exists", "concurrently"})
        \union Forms("pg_index", "drop", {"name", "cascade", "concurrently"})
        \union Forms("pg_index", "rename", {"name", "new_name"})
        \union Forms("pg_index", "reindex", {"name", "table", "concurrently"})
        \union Texts(Request("pg_index", "create", {"table", "columns"}))

ViewArgs ==
    Forms("pg_view", "create", {"query", "materialized", "check_option"})
        \union Forms("pg_view", "drop", {"materialized", "cascade"})
        \union Forms("pg_view", "rename", {"new_name"})
        \union Forms("pg_view", "refresh", {"materialized", "concurrently"})

SequenceArgs ==
    Simple("pg_sequence", {"create"}) \union Forms("pg_sequence", "alter", {"option"})
        \union Forms("pg_sequence", "drop", {"cascade"})
        \union Forms("pg_sequence", "rename", {"new_name"})

-----------------------------------------------------------------------------
(* pg_routine, pg_trigger *)

RoutineArgs ==
    Forms("pg_routine", "create", {"language", "body", "returns", "procedure", "unsafe_language"})
        \union {Request("pg_routine", "create", {"language", "body", "returns"} \union g) :
                    g \in SUBSET {"security_definer", "search_path"}}
        \union Forms("pg_routine", "alter", {"owner", "property", "security_definer", "search_path"})
        \union Forms("pg_routine", "rename", {"new_name"})
        \union Forms("pg_routine", "drop", {"procedure", "cascade"})

TriggerArgs ==
    Forms("pg_trigger", "create", {"table", "timing", "events", "function"})
        \union Texts(Request("pg_trigger", "create", {"table", "timing", "events", "function"}))
        \union Forms("pg_trigger", "drop", {"table", "cascade"})
        \union Forms("pg_trigger", "rename", {"table", "new_name"})
        \union Forms("pg_trigger", "enable", {"table"}) \union Forms("pg_trigger", "disable", {"table"})
        \union Forms("pg_trigger", "create_event", {"event", "function"})
        \union Forms("pg_trigger", "drop_event", {"cascade"})

-----------------------------------------------------------------------------
(* pg_type, pg_extension, pg_comment, pg_publication *)

TypeArgs ==
    Simple("pg_type", {"create_enum", "set_not_null", "drop_not_null", "drop_default"})
        \union Forms("pg_type", "add_value", {"value"})
        \union Forms("pg_type", "rename_value", {"value", "new_value"})
        \union Forms("pg_type", "create_composite", {"attributes"})
        \union UNION {Forms("pg_type", op, {"attribute", "cascade"}) :
                        op \in {"add_attribute", "alter_attribute", "drop_attribute"}}
        \union UNION {Forms("pg_type", op, {"base_type"}) : op \in {"create_domain", "create_range"}}
        \union Forms("pg_type", "set_default", {"default"})
        \union Forms("pg_type", "add_check", {"check"})
        \union UNION {Forms("pg_type", op, {"constraint_name"}) :
                        op \in {"drop_constraint", "validate_constraint"}}
        \union Forms("pg_type", "rename", {"new_name"}) \union Forms("pg_type", "set_owner", {"owner"})
        \union Forms("pg_type", "drop", {"cascade"})

ExtensionArgs ==
    Forms("pg_extension", "create", {"dangerous"}) \union Simple("pg_extension", {"update"})
        \union Forms("pg_extension", "drop", {"cascade"})

CommentArgs ==
    UNION {Forms("pg_comment", op, {"member"}) : op \in {"on object", "on column", "on member"}}

PublicationArgs ==
    Forms("pg_publication", "create", {"for_all_tables", "tables"})
        \union UNION {Forms("pg_publication", op, {"tables"}) :
                        op \in {"add_tables", "set_tables", "drop_tables"}}
        \union Forms("pg_publication", "rename", {"new_name"})
        \union Forms("pg_publication", "set_owner", {"owner"}) \union Simple("pg_publication", {"drop"})

-----------------------------------------------------------------------------
(* pg_role, pg_grant, pg_policy, pg_privileges *)

RoleArgs ==
    Simple("pg_role", {"create", "drop"}) \union Forms("pg_role", "alter", {"option", "password"})
        \union Forms("pg_role", "rename", {"new_name"})
        \union UNION {Forms("pg_role", op, {"group_role"}) :
                        op \in {"grant_membership", "revoke_membership"}}
        \union Forms("pg_role", "set_config", {"parameter", "value"})
        \union Forms("pg_role", "reset_config", {"parameter"})

GrantArgs ==
    UNION {Forms("pg_grant", op, {"privileges", "roles", "names", "all_in_schema"}) :
              op \in {"grant", "revoke"}}
        \union UNION {Forms("pg_grant", op, {"privileges", "roles", "on_database"}) :
                        op \in {"default_grant", "default_revoke"}}

PolicyArgs ==
    Forms("pg_policy", "create", {"name"}) \union Forms("pg_policy", "alter", {"name", "roles", "using"})
        \union Forms("pg_policy", "rename", {"name", "new_name"})
        \union Forms("pg_policy", "drop", {"name"})
        \union Simple("pg_policy", {"enable_rls", "disable_rls", "force_rls", "no_force_rls"})
        \union Texts(Request("pg_policy", "create", {"name"}))

PrivilegesArgs == Forms("pg_privileges", "apply_template", {"template"})

-----------------------------------------------------------------------------
(* pg_insert, pg_update, pg_delete, pg_merge, pg_copy, pg_count *)

InsertArgs ==
    Forms("pg_insert", "rows", {"rows", "on_conflict update", "conflict_columns", "partial rows"})

UpdateArgs(wheres) ==
    {[Request("pg_update", "rows", {"set", "filter"}) EXCEPT !.where = e] : e \in wheres}
        \union {Request("pg_update", "rows", {}), Request("pg_update", "rows", {"set"})}
        \union Texts(Request("pg_update", "rows", {"set", "filter"}))

DeleteArgs(wheres) ==
    {[Request("pg_delete", "rows", {"filter"}) EXCEPT !.where = e] : e \in wheres}
        \union {Request("pg_delete", "rows", {})} \union Texts(Request("pg_delete", "rows", {"filter"}))

MergeArgs == Forms("pg_merge", "rows", {"rows", "match_on"})

\* With a query, `sql` of the request.
CopyArgs(statements) ==
    Forms("pg_copy", "in", {"table", "data"}) \union Forms("pg_copy", "out", {"table"})
        \union {[Request("pg_copy", "out", {"query"}) EXCEPT !.sql = s] : s \in statements}

CountArgs ==
    UNION {Texts(Request("pg_count", "count", g)) : g \in {{"exact", "filter"}, {"filter"}}}
        \union Forms("pg_count", "count", {"exact"})

-----------------------------------------------------------------------------
(* pg_run_query, pg_run_write, pg_explain *)

RunQueryArgs(statements) == {[Request("pg_run_query", "sql", {}) EXCEPT !.sql = s] : s \in statements}
RunWriteArgs(statements) == {[Request("pg_run_write", "sql", {}) EXCEPT !.sql = s] : s \in statements}
ExplainArgs(statements) ==
    {[Request("pg_explain", "sql", g) EXCEPT !.sql = s] : g \in SUBSET {"analyze"}, s \in statements}

-----------------------------------------------------------------------------
(* pg_vacuum, pg_analyze, pg_reindex, pg_refresh, pg_backend *)

VacuumArgs == Simple("pg_vacuum", {"checkpoint"}) \union Forms("pg_vacuum", "vacuum", {"tables", "full"})
AnalyzeArgs == Forms("pg_analyze", "analyze", {"tables", "columns", "more tables"})
ReindexArgs ==
    UNION {Forms("pg_reindex", op, {"name", "concurrently"}) : op \in {"index", "table", "schema"}}
RefreshArgs == Forms("pg_refresh", "refresh", {"concurrently"})
BackendArgs == Simple("pg_backend", {"cancel", "terminate"})
================================================================================
