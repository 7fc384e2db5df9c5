------------------------------- MODULE Classify -------------------------------
(***************************************************************************)
(* The statement classifier (classify.rs): what the server knows of one    *)
(* SQL statement before it runs it.                                        *)
(*                                                                         *)
(* A statement is its parse tree, reduced to what the classifier tells     *)
(* apart: the kind of the top node and of every statement nested in it,    *)
(* the marks on each (a CASCADE, a RETURNING, a subcommand of ALTER        *)
(* TABLE, ...), its WHERE or ON condition, and the names it holds.  A      *)
(* function is known by what the lists of function names say of it.        *)
(***************************************************************************)
EXTENDS Naturals, Sequences, FiniteSets, FiniteSetsExt

CONSTANTS
    Conditions,   \* WHERE and ON conditions of the statements, and what these are made of
    CatalogNames  \* names that begin with "pg_", the catalogs' and anybody's

ServedSchema == "app"
NoSchema == ""
CatalogSchemas == {"pg_catalog", "information_schema", "pg_temp"}

Always == [op |-> "absent"]    \* no WHERE clause

Node(kind) == [kind |-> kind, marks |-> {}, where |-> [op |-> "narrow"]]

Statement(kind) ==
    [kind |-> kind, marks |-> {}, where |-> [op |-> "narrow"],
     inner |-> {},        \* the statements nested in it: sub-selects, CTEs, what EXPLAIN explains
     relations |-> {},    \* [schema, name] of every RangeVar
     objects |-> {},      \* [form, names] of the objects DROP or a routine statement names
     functions |-> {},    \* [schema, does] of calls, casts and operators
     ctes |-> {}]

NodeType == [kind : STRING, marks : SUBSET STRING, where : Conditions]
StatementType ==
    [kind : STRING, marks : SUBSET STRING, where : Conditions, inner : SUBSET NodeType,
     relations : SUBSET [schema : STRING, name : STRING],
     objects : SUBSET [form : STRING, names : Seq(STRING)],
     functions : SUBSET [schema : STRING, does : STRING], ctes : SUBSET STRING]

Nodes(s) == {[kind |-> s.kind, marks |-> s.marks, where |-> s.where]} \union s.inner
Marked(s, mark) == \E n \in Nodes(s) : mark \in n.marks

-----------------------------------------------------------------------------
(* StatementClass: what a kind of statement does. *)

ReadKinds == {"SelectStmt", "VariableShowStmt", "ExplainStmt", "CopyStmt", "RawStmt"}
WriteKinds == {"InsertStmt", "UpdateStmt", "DeleteStmt", "MergeStmt"}
ProcedureKinds == {"DoStmt", "CallStmt"}
MaintenanceKinds ==
    {"VacuumStmt", "ReindexStmt", "ClusterStmt", "CheckPointStmt", "RefreshMatViewStmt"}
DdlKinds ==
    {"CreateStmt", "AlterTableStmt", "DropStmt", "TruncateStmt", "IndexStmt", "ViewStmt",
     "CreateSeqStmt", "AlterSeqStmt", "CreateFunctionStmt", "AlterFunctionStmt", "CreateTrigStmt",
     "CreateEventTrigStmt", "AlterEventTrigStmt", "CreateEnumStmt", "AlterEnumStmt",
     "CreateDomainStmt", "AlterDomainStmt", "CreateRangeStmt", "CompositeTypeStmt",
     "CreateExtensionStmt", "AlterExtensionStmt", "CommentStmt", "CreatePolicyStmt",
     "AlterPolicyStmt", "RenameStmt", "AlterOwnerStmt", "CreateTableAsStmt", "CreatedbStmt",
     "DropdbStmt", "CreatePublicationStmt", "AlterPublicationStmt", "CreateSchemaStmt",
     "AlterObjectSchemaStmt", "RuleStmt", "CreateTableSpaceStmt", "DropTableSpaceStmt"}
RolesKinds ==
    {"CreateRoleStmt", "AlterRoleStmt", "AlterRoleSetStmt", "DropRoleStmt", "GrantStmt",
     "GrantRoleStmt", "AlterDefaultPrivilegesStmt", "DropOwnedStmt", "ReassignOwnedStmt"}

\* Every other kind is refused: SET, LISTEN, PREPARE, LOCK, subscriptions, foreign data, ...
ClassOf(kind) ==
    CASE kind \in ReadKinds -> "read"
      [] kind \in WriteKinds -> "write"
      [] kind \in ProcedureKinds -> "procedure"
      [] kind \in MaintenanceKinds -> "maintenance"
      [] kind \in DdlKinds -> "ddl"
      [] kind \in RolesKinds -> "roles"
      [] OTHER -> "refused"

Ranked == <<"read", "write", "procedure", "maintenance", "ddl", "roles">>
Rank(class) == CHOOSE i \in DOMAIN Ranked : Ranked[i] = class
Strongest(classes) == Ranked[Max({Rank(c) : c \in classes \union {"read"}})]

AllowsReads(mode) == mode \in {"read-only", "read-write"}
AllowsWrites(mode) == mode \in {"write-only", "read-write"}
AllowedIn(class, mode) == IF class = "read" THEN AllowsReads(mode) ELSE AllowsWrites(mode)

-----------------------------------------------------------------------------
(* A condition is [op |-> "const", holds], [op |-> "self"] (a column       *)
(* compared with itself by =, <=, >= or IS NOT DISTINCT FROM), [op |->     *)
(* "narrow"] (any other leaf), or "and", "or", "not", "cast", "apply" over *)
(* its `args`.                                                             *)

Compound(e) == e.op \in {"and", "or", "not", "cast", "apply"}

ASSUME ConditionsAssumption ==
    /\ {Always, [op |-> "narrow"]} \subseteq Conditions
    /\ \A e \in Conditions : Compound(e) => \A i \in DOMAIN e.args : e.args[i] \in Conditions

IsConstant[e \in Conditions] ==
    \/ e.op = "const"
    \/ Compound(e) /\ \A i \in DOMAIN e.args : IsConstant[e.args[i]]

MatchesEveryRow[e \in Conditions] ==
    \/ IsConstant[e]
    \/ e.op = "or" /\ \E i \in DOMAIN e.args : MatchesEveryRow[e.args[i]]
    \/ e.op = "and" /\ e.args # <<>> /\ \A i \in DOMAIN e.args : MatchesEveryRow[e.args[i]]
    \/ e.op = "self"

AbsentOrConstant(where) == where = Always \/ MatchesEveryRow[where]

-----------------------------------------------------------------------------
(* Findings of the walk over the tree. *)

\* destructive_alter, and the two list commands of ALTER PUBLICATION.
DestructiveMarks ==
    {"drop column", "drop constraint", "retype using", "set unlogged", "detach",
     "for all tables", "drop table", "set table"}
DestructiveKinds ==
    {"DropStmt", "TruncateStmt", "DropdbStmt", "DropRoleStmt", "DropOwnedStmt",
     "ReassignOwnedStmt"}

\* The parser sets these marks on commands of ALTER TABLE and of publications.
WellMarked(s) ==
    \A n \in Nodes(s) : n.marks \intersect DestructiveMarks # {} => ClassOf(n.kind) = "ddl"

\* With the test that stops at constants.
NoteDestructiveConstant(n) ==
    \/ n.kind \in DestructiveKinds
    \/ n.marks \intersect DestructiveMarks # {}
    \/ n.kind \in {"DeleteStmt", "UpdateStmt"} /\ (n.where = Always \/ IsConstant[n.where])
    \/ n.kind = "MergeStmt" /\ "mutating" \in n.marks /\ AbsentOrConstant(n.where)

NoteDestructive(n) ==
    \/ n.kind \in DestructiveKinds
    \/ n.marks \intersect DestructiveMarks # {}
    \/ n.kind \in {"DeleteStmt", "UpdateStmt"} /\ AbsentOrConstant(n.where)
    \/ n.kind = "MergeStmt" /\ "mutating" \in n.marks /\ AbsentOrConstant(n.where)

\* What PostgreSQL refuses in a block: CONCURRENTLY is read off IndexStmt; every REINDEX
\* has the `params` that mark it, and no other statement is looked at for CONCURRENTLY.
OutsideWhenConcurrent(n) == n.kind \in {"IndexStmt", "ReindexStmt"} /\ "concurrently" \in n.marks
OutsideTransaction(n) ==
    \/ n.kind = "IndexStmt" /\ "concurrently" \in n.marks
    \/ n.kind \in {"ReindexStmt", "VacuumStmt", "CreatedbStmt", "DropdbStmt",
                   "CreateTableSpaceStmt", "DropTableSpaceStmt"}

\* The kinds the walk meets.  SELECT ... INTO counts as CREATE TABLE AS, unless it stands
\* below a set operation, where the tree holds no node of its own for the SELECT.
KindsFound(s) ==
    {n.kind : n \in Nodes(s)}
        \union IF \E n \in Nodes(s) : n.kind = "SelectStmt" /\ "into" \in n.marks
               THEN {"CreateTableAsStmt"} ELSE {}

\* split_qualified: the last part is the name, the one before it the schema.
SplitQualified(names) ==
    [schema |-> IF Len(names) > 1 THEN names[Len(names) - 1] ELSE NoSchema,
     name |-> names[Len(names)]]

\* The relations of the tree: what a RangeVar names and is no CTE, and the names
\* of a DROP, of CREATE FUNCTION and of ALTER FUNCTION.  A type is no such name.
RelationsFound(s) ==
    {r \in s.relations : r.schema # NoSchema \/ r.name \notin s.ctes}
        \union {SplitQualified(o.names) :
                    o \in {o \in s.objects :
                              /\ s.kind \in {"DropStmt", "CreateFunctionStmt", "AlterFunctionStmt"}
                              /\ o.form # "type"}}

-----------------------------------------------------------------------------
(* classify and authorize. *)

\* What a DROP ... CASCADE or ALTER TABLE ... CASCADE removes by name.
AddressableObjects ==
    {"table", "view", "materialized view", "sequence", "index", "type", "domain", "function",
     "procedure", "trigger", "policy", "extension", "schema"}
CascadeTargets(s) ==
    IF "cascade" \notin s.marks THEN {}
    ELSE IF s.kind = "DropStmt" THEN s.objects
    ELSE IF s.kind = "AlterTableStmt" /\ s.marks \intersect {"drop column", "drop constraint"} # {}
    THEN {[form |-> "list", names |-> <<r.schema, r.name>>] : r \in s.relations}
    ELSE {}
CascadeRefused(s) ==
    /\ s.kind = "DropStmt" /\ "cascade" \in s.marks
    /\ s.marks \intersect AddressableObjects = {}

ExplainAnalyzes(s) == s.kind = "ExplainStmt" /\ "analyze" \in s.marks

\* Denied and notifying functions are refused; a reset or a transaction lock writes.
FunctionDenied(f) == f.does = "reach out"
FunctionRefused(f) == f.does \in {"reach out", "notify or lock"}
FunctionWrites(f) == f.does \in {"reset statistics", "lock in transaction"}

ClassFound(s) ==
    LET kinds == {k \in KindsFound(s) : ClassOf(k) # "refused"}
        strongest == IF s.kind = "ExplainStmt" /\ ~ExplainAnalyzes(s) THEN {}
                     ELSE {ClassOf(k) : k \in kinds}
        executes == s.kind # "ExplainStmt" \/ ExplainAnalyzes(s)
        writes == \/ \E f \in s.functions : ~FunctionRefused(f) /\ FunctionWrites(f)
                  \/ executes /\ Marked(s, "locking")
                  \/ \E n \in Nodes(s) : n.kind = "CopyStmt" /\ "from" \in n.marks
    IN  Strongest(strongest \union IF writes THEN {"write"} ELSE {})

RefusalsFound(s) ==
    \/ \E k \in KindsFound(s) : ClassOf(k) = "refused"
    \/ \E f \in s.functions : FunctionRefused(f)
    \/ CascadeRefused(s)
    \/ \E n \in Nodes(s) : n.kind = "CopyStmt" /\ n.marks \intersect {"program", "file"} # {}

Classification(s) ==
    LET class == ClassFound(s)
    IN  [class |-> class,
         kind |-> s.kind,
         destructive |-> \/ class # "read" /\ \E n \in Nodes(s) : NoteDestructive(n)
                         \/ s.kind \in {"DoStmt", "CallStmt", "CreateFunctionStmt"},
         refused |-> RefusalsFound(s),
         relations |-> RelationsFound(s),
         functions |-> s.functions,
         outside |-> \E n \in Nodes(s) : OutsideTransaction(n),
         analyze |-> ExplainAnalyzes(s),
         returnsRows |-> s.kind = "SelectStmt",
         targets |-> IF CascadeRefused(s) THEN {} ELSE CascadeTargets(s)]

InScope(schema) == schema = ServedSchema \/ schema \in CatalogSchemas

RelationAllowed(r, pooled) ==
    IF r.schema # NoSchema THEN InScope(r.schema) ELSE ~pooled \/ r.name \in CatalogNames

FunctionAllowed(f) == f.schema = NoSchema \/ InScope(f.schema)

Authorized(c, mode, pooled) ==
    /\ ~c.refused
    /\ \A r \in c.relations : RelationAllowed(r, pooled)
    /\ \A f \in c.functions : FunctionAllowed(f)
    /\ AllowedIn(c.class, mode)
    /\ c.returnsRows => AllowsReads(mode)
================================================================================
