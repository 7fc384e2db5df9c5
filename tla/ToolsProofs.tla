------------------------------ MODULE ToolsProofs ------------------------------
(***************************************************************************)
(* Theorems about Tools, for every catalogue of requests, every access     *)
(* mode, any calls, principals and confirmations.                          *)
(***************************************************************************)
EXTENDS Tools, TLAPS

-------------------------------------------------------------------------------
(* The class of a statement                                                *)

Classes == {"read", "write", "procedure", "maintenance", "ddl", "roles"}

\* The classes in the order of `Ranked` (classify.rs).
LEMMA Ranks ==
    /\ Rank("read") = 1 /\ Rank("write") = 2 /\ Rank("procedure") = 3
    /\ Rank("maintenance") = 4 /\ Rank("ddl") = 5 /\ Rank("roles") = 6
    /\ \A c \in Classes : Rank(c) \in 1 .. 6 /\ Ranked[Rank(c)] = c
  <1>1. DOMAIN Ranked = 1 .. 6
    BY DEF Ranked
  <1>2. /\ Ranked[1] = "read" /\ Ranked[2] = "write" /\ Ranked[3] = "procedure"
        /\ Ranked[4] = "maintenance" /\ Ranked[5] = "ddl" /\ Ranked[6] = "roles"
    BY DEF Ranked
  <1>3. /\ Rank("read") = 1 /\ Rank("write") = 2 /\ Rank("procedure") = 3
        /\ Rank("maintenance") = 4 /\ Rank("ddl") = 5 /\ Rank("roles") = 6
    BY <1>1, <1>2 DEF Rank
  <1>4. QED
    BY <1>2, <1>3 DEF Classes

\* A set of ranks has a greatest.
LEMMA Greatest ==
    ASSUME NEW S \in SUBSET (1 .. 6), S # {}
    PROVE  Max(S) \in S /\ \A x \in S : x <= Max(S)
  <1>1. \E x \in S : \A y \in S : x >= y
    <2>1. CASE 6 \in S
      BY <2>1
    <2>2. CASE 6 \notin S /\ 5 \in S
      BY <2>2
    <2>3. CASE 6 \notin S /\ 5 \notin S /\ 4 \in S
      BY <2>3
    <2>4. CASE 6 \notin S /\ 5 \notin S /\ 4 \notin S /\ 3 \in S
      BY <2>4
    <2>5. CASE S \subseteq {1, 2} /\ 2 \in S
      BY <2>5
    <2>6. CASE S \subseteq {1}
      <3>1. S = {1}
        BY <2>6
      <3>2. QED
        BY <3>1
    <2>7. QED
      BY <2>1, <2>2, <2>3, <2>4, <2>5, <2>6
  <1>2. QED
    BY <1>1 DEF Max

\* The strongest of some classes is one of them, or a read, and no weaker than any.
LEMMA StrongestIs ==
    ASSUME NEW C \in SUBSET Classes
    PROVE  /\ Strongest(C) \in C \union {"read"}
           /\ \A c \in C : Rank(c) <= Rank(Strongest(C))
  <1> DEFINE S == {Rank(c) : c \in C \union {"read"}}
  <1>1. S \in SUBSET (1 .. 6) /\ S # {}
    BY Ranks DEF Classes
  <1>2. Max(S) \in S /\ \A x \in S : x <= Max(S)
    BY <1>1, Greatest
  <1>3. PICK c \in C \union {"read"} : Max(S) = Rank(c)
    BY <1>2
  <1>4. Strongest(C) = c
    BY <1>3, Ranks DEF Strongest, Classes
  <1>5. QED
    BY <1>2, <1>3, <1>4

\* What the walk makes of a statement (classify.rs): every statement in it that is
\* not refused counts, and so does a function that writes.
LEMMA ClassIs ==
    ASSUME NEW s
    PROVE  /\ ClassFound(s) \in Classes
           /\ (\E f \in s.functions : ~FunctionRefused(f) /\ FunctionWrites(f))
                 => ClassFound(s) # "read"
           /\ s.kind # "ExplainStmt" \/ ExplainAnalyzes(s) =>
                 \A k \in KindsFound(s) : ClassOf(k) # "refused" =>
                    Rank(ClassOf(k)) <= Rank(ClassFound(s))
  <1> DEFINE found == IF s.kind = "ExplainStmt" /\ ~ExplainAnalyzes(s) THEN {}
                      ELSE {ClassOf(k) : k \in {k \in KindsFound(s) : ClassOf(k) # "refused"}}
             writes == \/ \E f \in s.functions : ~FunctionRefused(f) /\ FunctionWrites(f)
                       \/ (s.kind # "ExplainStmt" \/ ExplainAnalyzes(s)) /\ Marked(s, "locking")
                       \/ \E n \in Nodes(s) : n.kind = "CopyStmt" /\ "from" \in n.marks
             C == found \union IF writes THEN {"write"} ELSE {}
  <1>1. ClassFound(s) = Strongest(C)
    BY DEF ClassFound
  <1>2. \A k : ClassOf(k) # "refused" => ClassOf(k) \in Classes
    BY DEF ClassOf, Classes
  <1>3. C \in SUBSET Classes
    BY <1>2 DEF Classes
  <1>4. writes => "write" \in C
    OBVIOUS
  <1>5. s.kind # "ExplainStmt" \/ ExplainAnalyzes(s) =>
            \A k \in KindsFound(s) : ClassOf(k) # "refused" => ClassOf(k) \in C
    OBVIOUS
  <1>6. (\E f \in s.functions : ~FunctionRefused(f) /\ FunctionWrites(f)) => writes
    OBVIOUS
  <1> HIDE DEF C, writes, found
  <1>7. Strongest(C) \in C \union {"read"} /\ \A c \in C : Rank(c) <= Rank(Strongest(C))
    BY <1>3, StrongestIs
  <1>8. Strongest(C) \in Classes
    BY <1>3, <1>7 DEF Classes
  <1>9. writes => Strongest(C) # "read"
    BY <1>4, <1>7, Ranks
  <1>10. QED
    BY <1>1, <1>5, <1>6, <1>7, <1>8, <1>9

\* Every kind in the tree of a statement is a kind the walk finds.
LEMMA KindsInTree ==
    ASSUME NEW s, NEW n \in Nodes(s)
    PROVE  n.kind \in KindsFound(s)
  BY DEF KindsFound

\* The statement itself is among the nodes the classifier walks.
LEMMA TopNode ==
    ASSUME NEW s
    PROVE  /\ s.kind \in KindsFound(s)
           /\ \E n \in Nodes(s) : n.kind = s.kind /\ n.marks = s.marks /\ n.where = s.where
  <1> DEFINE top == [kind |-> s.kind, marks |-> s.marks, where |-> s.where]
  <1>1. top \in Nodes(s) /\ top.kind = s.kind /\ top.marks = s.marks /\ top.where = s.where
    BY DEF Nodes
  <1>2. QED
    BY <1>1, KindsInTree

\* What is classified as a read holds nothing that writes (classify.rs).
LEMMA ReadsOnly ==
    ASSUME NEW s, ClassFound(s) = "read", s.kind # "ExplainStmt" \/ ExplainAnalyzes(s)
    PROVE  \A n \in Nodes(s) : ClassOf(n.kind) \in {"read", "refused"}
  <1>1. ASSUME NEW n \in Nodes(s), ClassOf(n.kind) # "refused"
        PROVE  ClassOf(n.kind) = "read"
    <2>1. n.kind \in KindsFound(s)
      BY KindsInTree
    <2>2. Rank(ClassOf(n.kind)) <= 1
      BY <1>1, <2>1, ClassIs, Ranks
    <2>3. ClassOf(n.kind) \in Classes
      BY <1>1 DEF ClassOf, Classes
    <2>4. QED
      BY <2>2, <2>3, Ranks DEF Classes
  <1>2. QED
    BY <1>1

\* Other sessions, statistics, the session and what lies beyond the database are out of
\* the reach of a statement that is read and not refused, though READ ONLY lets them pass.
LEMMA ReadsAreHarmless ==
    ASSUME NEW s, ClassFound(s) = "read", ~RefusalsFound(s)
    PROVE  Effects(s) \subseteq {"rows", "schema", "storage", "row locks"}
  <1> DEFINE Harmless == {"rows", "schema", "storage", "row locks"}
  <1>1. ASSUME NEW n \in Nodes(s)
        PROVE  KindEffects(n) \subseteq Harmless
    <2>1. ClassOf(n.kind) # "refused"
      BY KindsInTree DEF RefusalsFound
    <2>2. n.kind # "VariableSetStmt"
      BY <2>1 DEF ClassOf, ReadKinds, WriteKinds, ProcedureKinds, MaintenanceKinds, DdlKinds,
                  RolesKinds
    <2>3. QED
      BY <2>2 DEF KindEffects
  <1>2. ASSUME NEW f \in s.functions
        PROVE  FunctionEffects(f) = {}
    <2>1. ~FunctionRefused(f) /\ ~FunctionWrites(f)
      BY ClassIs DEF RefusalsFound
    <2>2. QED
      BY <2>1 DEF FunctionEffects, FunctionRefused, FunctionWrites
  <1>3. ~\E n \in Nodes(s) : n.kind = "CopyStmt" /\ n.marks \intersect {"program", "file"} # {}
    BY DEF RefusalsFound
  <1>4. QED
    BY <1>1, <1>2, <1>3 DEF Effects

-------------------------------------------------------------------------------
(* What the tools render                                                   *)

Parts == {"kind", "marks", "where", "inner", "relations", "objects", "functions", "ctes"}

\* What the parser and the renderers keep to: a condition is one of the conditions, a
\* destructive subcommand stands in a DDL statement, a tool never renders an EXPLAIN, and
\* a DROP and an ALTER TABLE name what they are about.
WellMade(s) ==
    /\ DOMAIN s = Parts
    /\ s.kind # "ExplainStmt"
    /\ \A n \in Nodes(s) : n.where \in Conditions
    /\ WellMarked(s)
    /\ s.kind = "DropStmt" => s.objects # {}
    /\ s.kind = "AlterTableStmt" => s.relations # {}

\* The kinds of DDL are in no other list (classify.rs).
LEMMA DdlClass == \A kind \in DdlKinds : ClassOf(kind) = "ddl"
  <1>1. DdlKinds \intersect (ReadKinds \union WriteKinds) = {}
    BY DEF ReadKinds, WriteKinds, DdlKinds
  <1>2. DdlKinds \intersect (ProcedureKinds \union MaintenanceKinds \union RolesKinds) = {}
    BY DEF ProcedureKinds, MaintenanceKinds, RolesKinds, DdlKinds
  <1>3. ASSUME NEW kind \in DdlKinds
        PROVE  ClassOf(kind) = "ddl"
    <2>1. /\ kind \notin ReadKinds /\ kind \notin WriteKinds /\ kind \notin ProcedureKinds
          /\ kind \notin MaintenanceKinds /\ kind \notin RolesKinds
      BY <1>1, <1>2
    <2>2. QED
      BY <2>1 DEF ClassOf
  <1>4. QED
    BY <1>3

\* What a statement with nothing marked or named holds.
LEMMA FreshStatement ==
    ASSUME NEW kind
    PROVE  LET s == Statement(kind)
           IN  /\ DOMAIN s = Parts
               /\ s.kind = kind /\ s.marks = {} /\ s.where = [op |-> "narrow"]
               /\ s.inner = {} /\ s.relations = {} /\ s.objects = {}
               /\ s.functions = {} /\ s.ctes = {}
  BY DEF Statement, Parts

\* One with marks.
LEMMA OfIs ==
    ASSUME NEW kind, NEW marks
    PROVE  LET s == Of(kind, marks)
           IN  /\ DOMAIN s = Parts
               /\ s.kind = kind /\ s.marks = marks /\ s.where = [op |-> "narrow"]
               /\ s.inner = {} /\ s.relations = {} /\ s.objects = {}
               /\ s.functions = {} /\ s.ctes = {}
  BY FreshStatement DEF Of, Parts

\* One on a table of the served schema.
LEMMA OnIs ==
    ASSUME NEW kind, NEW marks
    PROVE  LET s == On(kind, marks)
           IN  /\ DOMAIN s = Parts
               /\ s.kind = kind /\ s.marks = marks /\ s.where = [op |-> "narrow"]
               /\ s.inner = {} /\ s.relations = {[schema |-> ServedSchema, name |-> "orders"]}
               /\ s.objects = {} /\ s.functions = {} /\ s.ctes = {}
               /\ s.relations # {}
  <1> DEFINE one == [schema |-> ServedSchema, name |-> "orders"]
  <1>1. {one} # {}
    OBVIOUS
  <1>2. On(kind, marks) = [Of(kind, marks) EXCEPT !.relations = {one}]
    BY DEF On
  <1>3. LET s == On(kind, marks)
        IN  /\ DOMAIN s = Parts
            /\ s.kind = kind /\ s.marks = marks /\ s.where = [op |-> "narrow"]
            /\ s.inner = {} /\ s.relations = {one}
            /\ s.objects = {} /\ s.functions = {} /\ s.ctes = {}
    <2> HIDE DEF one
    <2>1. QED
      BY <1>2, OfIs DEF Parts
  <1>4. QED
    BY <1>1, <1>3

\* A DROP of named objects.
LEMMA DropIs ==
    ASSUME NEW object, NEW names, NEW marks
    PROVE  LET s == DropOf(object, names, marks)
           IN  /\ DOMAIN s = Parts
               /\ s.kind = "DropStmt" /\ s.marks = {object} \union marks
               /\ s.where = [op |-> "narrow"]
               /\ s.inner = {} /\ s.relations = {} /\ s.objects # {}
               /\ s.functions = {} /\ s.ctes = {}
  <1> DEFINE one == [form |-> IF object \in {"type", "domain"} THEN "type" ELSE "list",
                     names |-> names]
  <1>1. {one} # {}
    OBVIOUS
  <1>2. DropOf(object, names, marks)
            = [Of("DropStmt", {object} \union marks) EXCEPT !.objects = {one}]
    BY DEF DropOf
  <1> HIDE DEF one
  <1>3. QED
    BY <1>1, <1>2, OfIs DEF Parts

\* A statement with nothing nested in it.
LEMMA FlatIsWellMade ==
    ASSUME NEW s, DOMAIN s = Parts, s.inner = {}, s.where \in Conditions,
           s.kind # "ExplainStmt",
           s.marks \intersect DestructiveMarks = {} \/ ClassOf(s.kind) = "ddl",
           s.kind = "DropStmt" => s.objects # {},
           s.kind = "AlterTableStmt" => s.relations # {}
    PROVE  WellMade(s)
  BY DEF WellMade, WellMarked, Nodes

\* Holding adds names to a statement and changes nothing else.
LEMMA HoldingIs ==
    ASSUME NEW s, NEW r, DOMAIN s = Parts
    PROVE  LET h == Holding(s, r)
           IN  /\ DOMAIN h = Parts
               /\ h.kind = s.kind /\ h.marks = s.marks /\ h.where = s.where /\ h.inner = s.inner
               /\ h.objects = s.objects /\ s.relations \subseteq h.relations
               /\ h.ctes = s.ctes
               /\ r.text = "none" => h.relations = s.relations
  BY DEF Holding, Parts

\* Rendering keeps a statement well made, and names what the request's text names.
LEMMA RenderedIs ==
    ASSUME NEW s, NEW r, NEW expected, WellMade(s), NEW q \in Rendered(r, s, expected)
    PROVE  /\ WellMade(q.stmt)
           /\ q.stmt.kind = s.kind
           /\ r.text = "none" => q.stmt.relations = s.relations
  <1>1. q.stmt = Holding(s, r)
    BY DEF Rendered
  <1>2. DOMAIN s = Parts
    BY DEF WellMade
  <1>3. Nodes(q.stmt) = Nodes(s)
    BY <1>1, <1>2, HoldingIs DEF Nodes
  <1>4. QED
    BY <1>1, <1>2, <1>3, HoldingIs DEF WellMade, WellMarked

\* A rendered DROP names what it drops.
LEMMA DropRendered ==
    ASSUME NEW r, NEW object, NEW names, NEW marks, NEW expected,
           NEW q \in Rendered(r, DropOf(object, names, marks), expected)
    PROVE  WellMade(q.stmt)
  <1>1. ClassOf("DropStmt") = "ddl"
    BY DdlClass DEF DdlKinds
  <1> DEFINE s == DropOf(object, names, marks)
  <1>2. /\ DOMAIN s = Parts /\ s.kind = "DropStmt" /\ s.where = [op |-> "narrow"]
        /\ s.inner = {} /\ s.objects # {}
    BY DropIs
  <1> HIDE DEF s
  <1>3. WellMade(s)
    BY <1>1, <1>2, FlatIsWellMade, ConditionsAssumption
  <1>4. QED
    BY <1>3, RenderedIs DEF s

\* Kinds of DDL, and marks that are not destructive.
LEMMA OfRendered ==
    ASSUME NEW r, NEW kind, NEW marks, NEW expected,
           kind \notin {"ExplainStmt", "DropStmt", "AlterTableStmt"},
           marks \intersect DestructiveMarks = {} \/ ClassOf(kind) = "ddl",
           NEW q \in Rendered(r, Of(kind, marks), expected)
    PROVE  WellMade(q.stmt)
  BY OfIs, FlatIsWellMade, RenderedIs, ConditionsAssumption

\* So is one on a table.
LEMMA OnRendered ==
    ASSUME NEW r, NEW kind, NEW marks, NEW expected,
           kind \notin {"ExplainStmt", "DropStmt"},
           marks \intersect DestructiveMarks = {} \/ ClassOf(kind) = "ddl",
           NEW q \in Rendered(r, On(kind, marks), expected)
    PROVE  WellMade(q.stmt)
  <1> DEFINE s == On(kind, marks)
  <1>1. /\ DOMAIN s = Parts /\ s.kind = kind /\ s.marks = marks /\ s.where = [op |-> "narrow"]
        /\ s.inner = {} /\ s.relations # {}
    BY OnIs
  <1> HIDE DEF s
  <1>2. WellMade(s)
    BY <1>1, FlatIsWellMade, ConditionsAssumption
  <1>3. QED
    BY <1>2, RenderedIs DEF s


AllWellMade(renderings) == \A q \in renderings : WellMade(q.stmt)

\* The same facts of the whole set a renderer may return.
LEMMA RenderingsAreWellMade ==
    /\ AllWellMade({})
    /\ \A r, object, names, marks, expected :
          AllWellMade(Rendered(r, DropOf(object, names, marks), expected))
    /\ \A r, kind, marks, expected :
          (/\ kind \notin {"ExplainStmt", "DropStmt", "AlterTableStmt"}
           /\ marks \intersect DestructiveMarks = {} \/ ClassOf(kind) = "ddl")
             => AllWellMade(Rendered(r, Of(kind, marks), expected))
    /\ \A r, kind, marks, expected :
          (/\ kind \notin {"ExplainStmt", "DropStmt"}
           /\ marks \intersect DestructiveMarks = {} \/ ClassOf(kind) = "ddl")
             => AllWellMade(Rendered(r, On(kind, marks), expected))
    /\ \A r, s, expected : WellMade(s) => AllWellMade(Rendered(r, s, expected))
  <1>1. AllWellMade({})
    BY DEF AllWellMade
  <1>2. \A r, object, names, marks, expected :
            AllWellMade(Rendered(r, DropOf(object, names, marks), expected))
    BY DropRendered DEF AllWellMade
  <1>3. \A r, kind, marks, expected :
            (/\ kind \notin {"ExplainStmt", "DropStmt", "AlterTableStmt"}
             /\ marks \intersect DestructiveMarks = {} \/ ClassOf(kind) = "ddl")
               => AllWellMade(Rendered(r, Of(kind, marks), expected))
    BY OfRendered DEF AllWellMade
  <1>4. \A r, kind, marks, expected :
            (/\ kind \notin {"ExplainStmt", "DropStmt"}
             /\ marks \intersect DestructiveMarks = {} \/ ClassOf(kind) = "ddl")
               => AllWellMade(Rendered(r, On(kind, marks), expected))
    BY OnRendered DEF AllWellMade
  <1>5. \A r, s, expected : WellMade(s) => AllWellMade(Rendered(r, s, expected))
    BY RenderedIs DEF AllWellMade
  <1>6. QED
    BY <1>1, <1>2, <1>3, <1>4, <1>5

\* The tools that render with On, Of and DropOf.
LEMMA PlainRenderings ==
    ASSUME NEW r
    PROVE  /\ AllWellMade(Table(r)) /\ AllWellMade(Column(r)) /\ AllWellMade(Constraint(r))
           /\ AllWellMade(Index(r)) /\ AllWellMade(SequenceTool(r)) /\ AllWellMade(Trigger(r))
           /\ AllWellMade(Type(r)) /\ AllWellMade(Extension(r)) /\ AllWellMade(Comment(r))
           /\ AllWellMade(Publication(r)) /\ AllWellMade(Role(r)) /\ AllWellMade(Grant(r))
           /\ AllWellMade(Policy(r)) /\ AllWellMade(Privileges(r)) /\ AllWellMade(Vacuum(r))
           /\ AllWellMade(Analyze(r)) /\ AllWellMade(Reindex(r)) /\ AllWellMade(Refresh(r))
  <1> DEFINE bare == {[schema |-> NoSchema, name |-> "orders"]}
             temporary == [Of("CreateStmt", {}) EXCEPT !.relations = bare]
  <1>0. WellMade(temporary)
    <2>1. /\ DOMAIN temporary = Parts /\ temporary.kind = "CreateStmt" /\ temporary.marks = {}
          /\ temporary.where = [op |-> "narrow"] /\ temporary.inner = {}
      BY OfIs DEF Parts
    <2> HIDE DEF temporary
    <2>2. QED
      BY <2>1, FlatIsWellMade, ConditionsAssumption
  <1>1. AllWellMade(Table(r))
    BY <1>0, RenderingsAreWellMade, DdlClass DEF Table, DropScoped, MarksOf, DestructiveMarks, DdlKinds
  <1>2. AllWellMade(Column(r))
    BY RenderingsAreWellMade, DdlClass DEF Column, DropScoped, MarksOf, DestructiveMarks, DdlKinds
  <1>3. AllWellMade(Constraint(r))
    BY RenderingsAreWellMade, DdlClass DEF Constraint, DropScoped, MarksOf, DestructiveMarks, DdlKinds
  <1>4. AllWellMade(Index(r))
    BY RenderingsAreWellMade, DdlClass DEF Index, DropScoped, MarksOf, DestructiveMarks, DdlKinds
  <1>5. AllWellMade(SequenceTool(r))
    BY RenderingsAreWellMade, DdlClass DEF SequenceTool, DropScoped, MarksOf, DestructiveMarks, DdlKinds
  <1>6. AllWellMade(Trigger(r))
    BY RenderingsAreWellMade, DdlClass DEF Trigger, DropScoped, MarksOf, DestructiveMarks, DdlKinds
  <1>7. AllWellMade(Type(r))
    BY RenderingsAreWellMade, DdlClass DEF Type, DropScoped, MarksOf, DestructiveMarks, DdlKinds
  <1>8. AllWellMade(Extension(r))
    BY RenderingsAreWellMade, DdlClass DEF Extension, DropScoped, MarksOf, DestructiveMarks, DdlKinds
  <1>9. AllWellMade(Comment(r))
    BY RenderingsAreWellMade, DdlClass DEF Comment, DropScoped, MarksOf, DestructiveMarks, DdlKinds
  <1>10. AllWellMade(Publication(r))
    BY RenderingsAreWellMade, DdlClass DEF Publication, DropScoped, MarksOf, DestructiveMarks, DdlKinds
  <1>11. AllWellMade(Role(r))
    BY RenderingsAreWellMade, DdlClass DEF Role, DropScoped, MarksOf, DestructiveMarks, DdlKinds
  <1>12. AllWellMade(Grant(r))
    BY RenderingsAreWellMade, DdlClass DEF Grant, DropScoped, MarksOf, DestructiveMarks, DdlKinds
  <1>13. AllWellMade(Policy(r))
    BY RenderingsAreWellMade, DdlClass DEF Policy, DropScoped, MarksOf, DestructiveMarks, DdlKinds
  <1>14. AllWellMade(Privileges(r))
    BY RenderingsAreWellMade, DdlClass DEF Privileges, DropScoped, MarksOf, DestructiveMarks, DdlKinds
  <1>15. AllWellMade(Vacuum(r))
    BY RenderingsAreWellMade, DdlClass DEF Vacuum, DropScoped, MarksOf, DestructiveMarks, DdlKinds
  <1>16. AllWellMade(Analyze(r))
    BY RenderingsAreWellMade, DdlClass DEF Analyze, DropScoped, MarksOf, DestructiveMarks, DdlKinds
  <1>17. AllWellMade(Reindex(r))
    BY RenderingsAreWellMade, DdlClass DEF Reindex, DropScoped, MarksOf, DestructiveMarks, DdlKinds
  <1>18. AllWellMade(Refresh(r))
    BY RenderingsAreWellMade, DdlClass DEF Refresh, DropScoped, MarksOf, DestructiveMarks, DdlKinds
  <1>19. QED
    BY <1>1, <1>2, <1>3, <1>4, <1>5, <1>6, <1>7, <1>8, <1>9, <1>10, <1>11, <1>12, <1>13, <1>14, <1>15, <1>16, <1>17, <1>18

\* The tools that render a condition, a statement below theirs, or names of their own.
LEMMA OtherRenderings ==
    ASSUME NEW r \in Catalogue \union Retried
    PROVE  /\ AllWellMade(View(r)) /\ AllWellMade(Routine(r))
           /\ AllWellMade(Insert(r)) /\ AllWellMade(Update(r))
           /\ AllWellMade(Delete(r)) /\ AllWellMade(Merge(r))
           /\ r.tool = "pg_backend" => AllWellMade(Backend(r))
  <1>1. ASSUME NEW kind, kind \in {"CreateFunctionStmt", "AlterFunctionStmt"},
               NEW names, NEW expected
        PROVE  AllWellMade(Rendered(r, [Of(kind, {}) EXCEPT !.objects = names], expected))
    <2> DEFINE s == [Of(kind, {}) EXCEPT !.objects = names]
    <2>1. /\ DOMAIN s = Parts /\ s.kind = kind /\ s.marks = {} /\ s.inner = {}
          /\ s.where = [op |-> "narrow"]
      BY OfIs DEF Parts
    <2> HIDE DEF s
    <2>2. WellMade(s)
      BY <1>1, <2>1, FlatIsWellMade, ConditionsAssumption
    <2>3. QED
      BY <2>2, RenderingsAreWellMade DEF s
  <1>2. AllWellMade(Routine(r))
    BY <1>1, RenderingsAreWellMade, DdlClass DEF Routine, DropScoped, MarksOf, DestructiveMarks, DdlKinds
  <1>3. ASSUME NEW kind, kind \in {"InsertStmt", "UpdateStmt", "MergeStmt"}, NEW marks,
               marks \intersect DestructiveMarks = {}
        PROVE  WellMade([On(kind, marks) EXCEPT !.inner = {Node("SelectStmt")}])
    <2> DEFINE s == [On(kind, marks) EXCEPT !.inner = {Node("SelectStmt")}]
    <2>1. /\ DOMAIN s = Parts /\ s.kind = kind /\ s.marks = marks
          /\ s.inner = {Node("SelectStmt")} /\ s.where = [op |-> "narrow"]
      BY OnIs DEF Parts
    <2> HIDE DEF s
    <2>2. \A n \in Nodes(s) : n.where = [op |-> "narrow"] /\ n.marks \intersect DestructiveMarks = {}
      BY <1>3, <2>1 DEF Nodes, Node
    <2>3. QED
      BY <1>3, <2>1, <2>2, ConditionsAssumption DEF WellMade, WellMarked, s
  <1>4. AllWellMade(Insert(r)) /\ AllWellMade(Merge(r))
    BY <1>3, RenderingsAreWellMade DEF Insert, Merge, DestructiveMarks
  <1>5. ASSUME NEW s, WellMade(s), s.kind \in WriteKinds
        PROVE  WellMade(Filtered(r, s))
    <2>1. r.where \in Conditions /\ Always \in Conditions
      BY RequestsAssumption, ConditionsAssumption
    <2> DEFINE w == IF Given(r, "filter") THEN r.where ELSE Always
               f == Filtered(r, s)
    <2>2. /\ DOMAIN f = Parts /\ f.kind = s.kind /\ f.marks = s.marks /\ f.inner = s.inner
          /\ f.where = w /\ f.objects = s.objects /\ f.relations = s.relations
      BY <1>5 DEF Filtered, WellMade, Parts
    <2>3. w \in Conditions
      BY <2>1
    <2> HIDE DEF w, f
    <2>4. ASSUME NEW n \in Nodes(f)
          PROVE  \E m \in Nodes(s) : n.kind = m.kind /\ n.marks = m.marks
                                    /\ (n.where = w \/ n.where = m.where)
      <3> DEFINE top(t) == [kind |-> t.kind, marks |-> t.marks, where |-> t.where]
      <3>1. top(s) \in Nodes(s) /\ \A m \in s.inner : m \in Nodes(s)
        BY DEF Nodes
      <3>2. n = top(f) \/ n \in s.inner
        BY <2>2 DEF Nodes
      <3>3. CASE n = top(f)
        BY <2>2, <3>1, <3>3
      <3>4. CASE n \in s.inner
        BY <3>1, <3>4
      <3>5. QED
        BY <3>2, <3>3, <3>4
    <2>5. WellMarked(f) /\ \A n \in Nodes(f) : n.where \in Conditions
      BY <1>5, <2>3, <2>4 DEF WellMade, WellMarked
    <2>6. QED
      BY <1>5, <2>2, <2>5 DEF WellMade, WriteKinds, f
  <1>6. AllWellMade(Update(r)) /\ AllWellMade(Delete(r))
    <2>1. WellMade([On("UpdateStmt", {}) EXCEPT !.inner = {Node("SelectStmt")}])
      BY <1>3
    <2>2. WellMade(On("DeleteStmt", {}))
      BY OnIs, FlatIsWellMade, ConditionsAssumption
    <2>3. [On("UpdateStmt", {}) EXCEPT !.inner = {Node("SelectStmt")}].kind = "UpdateStmt"
      BY OnIs DEF Parts
    <2>4. On("DeleteStmt", {}).kind = "DeleteStmt"
      BY OnIs
    <2>5. QED
      BY <1>5, <2>1, <2>2, <2>3, <2>4, RenderingsAreWellMade DEF Update, Delete, WriteKinds
  <1>7. AllWellMade(View(r))
    <2>1. ASSUME NEW kind, kind \in {"CreateTableAsStmt", "ViewStmt"}
          PROVE  WellMade([On(kind, {}) EXCEPT !.relations = @ \union r.sql.relations,
                                               !.functions = r.sql.functions, !.ctes = r.sql.ctes,
                                               !.inner = Nodes(r.sql)])
      <3> DEFINE s == [On(kind, {}) EXCEPT !.relations = @ \union r.sql.relations,
                                           !.functions = r.sql.functions, !.ctes = r.sql.ctes,
                                           !.inner = Nodes(r.sql)]
      <3>1. /\ DOMAIN s = Parts /\ s.kind = kind /\ s.marks = {}
            /\ s.inner = Nodes(r.sql) /\ s.where = [op |-> "narrow"]
        BY OnIs DEF Parts
      <3> HIDE DEF s
      <3>2. \A n \in Nodes(r.sql) : n.where \in Conditions
        BY RequestsAssumption DEF Nodes, StatementType, NodeType
      <3>3. WellMarked(r.sql)
        BY RequestsAssumption
      <3>4. QED
        BY <2>1, <3>1, <3>2, <3>3, ConditionsAssumption DEF WellMade, WellMarked, Nodes, s
    <2>2. QED
      BY <2>1, RenderingsAreWellMade, DdlClass
         DEF View, DropScoped, MarksOf, DestructiveMarks, DdlKinds
  <1>8. r.tool = "pg_backend" => AllWellMade(Backend(r))
    <2> SUFFICES ASSUME r.tool = "pg_backend"
                 PROVE  AllWellMade(Backend(r))
      OBVIOUS
    <2> DEFINE reach == {[schema |-> "pg_catalog", does |-> "reach out"]}
               s == [Of("SelectStmt", {r.op}) EXCEPT !.functions = reach]
    <2>1. r.op \in {"cancel", "terminate"}
      BY RequestsAssumption
    <2>2. /\ DOMAIN s = Parts /\ s.kind = "SelectStmt" /\ s.marks = {r.op} /\ s.inner = {}
          /\ s.where = [op |-> "narrow"]
      BY OfIs DEF Parts
    <2> HIDE DEF s
    <2>3. WellMade(s)
      BY <2>1, <2>2, FlatIsWellMade, ConditionsAssumption DEF DestructiveMarks
    <2>4. QED
      BY <2>3, RenderingsAreWellMade DEF Backend, s
  <1>9. QED
    BY <1>2, <1>4, <1>6, <1>7, <1>8

\* What any tool that renders makes of a request.
LEMMA RenderingIsWellMade ==
    ASSUME NEW r \in Catalogue \union Retried
    PROVE  AllWellMade(Rendering(r))
  <1>1. AllWellMade({})
    BY RenderingsAreWellMade
  <1>2. QED
    BY <1>1, PlainRenderings, OtherRenderings DEF Rendering

\* The maintenance tools name a relation of the served schema or none, and take nothing down.
LEMMA MaintenanceRenders ==
    ASSUME NEW r \in Catalogue \union Retried, r.tool \in Maintenance, NEW q \in Rendering(r)
    PROVE  /\ \A x \in q.stmt.relations : x.schema = ServedSchema
           /\ q.stmt.kind \notin {"DropStmt", "AlterTableStmt"}
  <1> DEFINE Kinds == {"CheckPointStmt", "VacuumStmt", "ReindexStmt", "RefreshMatViewStmt"}
  <1>1. r.text = "none"
    BY RequestsAssumption
  <1>2. ASSUME NEW kind \in Kinds, NEW marks, NEW expected,
               \/ q \in Rendered(r, On(kind, marks), expected)
               \/ q \in Rendered(r, Of(kind, marks), expected)
        PROVE  /\ \A x \in q.stmt.relations : x.schema = ServedSchema
               /\ q.stmt.kind \notin {"DropStmt", "AlterTableStmt"}
    <2>1. PICK s \in {On(kind, marks), Of(kind, marks)} : q.stmt = Holding(s, r)
      BY <1>2 DEF Rendered
    <2>2. /\ DOMAIN s = Parts /\ s.kind = kind
          /\ s.relations \subseteq {[schema |-> ServedSchema, name |-> "orders"]}
      BY OnIs, OfIs
    <2>3. q.stmt.kind = kind /\ q.stmt.relations = s.relations
      BY <1>1, <2>1, <2>2, HoldingIs
    <2>4. QED
      BY <2>2, <2>3
  <1>3. CASE r.tool = "pg_backend"
    <2> DEFINE s == [Of("SelectStmt", {r.op}) EXCEPT
                         !.functions = {[schema |-> "pg_catalog", does |-> "reach out"]}]
    <2>1. DOMAIN s = Parts /\ s.kind = "SelectStmt" /\ s.relations = {}
      BY OfIs DEF Parts
    <2>2. q \in Backend(r)
      BY <1>3 DEF Rendering
    <2>3. q \in Rendered(r, s, {"SelectStmt"})
      BY <2>2 DEF Backend
    <2> HIDE DEF s
    <2>4. q.stmt = Holding(s, r)
      BY <2>3 DEF Rendered
    <2>5. QED
      BY <1>1, <2>1, <2>4, HoldingIs
  <1>4. CASE r.tool = "pg_vacuum"
    BY <1>2, <1>4 DEF Rendering, Vacuum
  <1>5. CASE r.tool = "pg_analyze"
    BY <1>2, <1>5 DEF Rendering, Analyze
  <1>6. CASE r.tool = "pg_reindex"
    BY <1>2, <1>6 DEF Rendering, Reindex
  <1>7. CASE r.tool = "pg_refresh"
    BY <1>2, <1>7 DEF Rendering, Refresh
  <1>8. QED
    BY <1>3, <1>4, <1>5, <1>6, <1>7 DEF Maintenance

-------------------------------------------------------------------------------
(* What the classifier's word on a statement is worth                      *)

\* What classify (classify.rs) reports, part by part.
LEMMA ClassificationIs ==
    ASSUME NEW s
    PROVE  LET c == Classification(s)
           IN  /\ c.class = ClassFound(s)
               /\ c.kind = s.kind
               /\ c.destructive = (\/ ClassFound(s) # "read" /\ \E n \in Nodes(s) : NoteDestructive(n)
                                   \/ s.kind \in {"DoStmt", "CallStmt", "CreateFunctionStmt"})
               /\ c.refused = RefusalsFound(s)
               /\ c.relations = RelationsFound(s)
               /\ c.outside = (\E n \in Nodes(s) : OutsideTransaction(n))
               /\ c.targets = IF CascadeRefused(s) THEN {} ELSE CascadeTargets(s)
  BY DEF Classification

\* The classes of the kinds that lose data or must stand alone.
LEMMA KindClasses ==
    /\ \A kind \in {"DropStmt", "AlterTableStmt", "TruncateStmt", "IndexStmt", "CreatedbStmt",
                    "DropdbStmt"} : ClassOf(kind) = "ddl"
    /\ \A kind \in {"ReindexStmt", "VacuumStmt"} : ClassOf(kind) = "maintenance"
    /\ \A kind \in {"DropRoleStmt", "DropOwnedStmt"} : ClassOf(kind) = "roles"
    /\ \A kind \in {"DeleteStmt", "UpdateStmt"} : ClassOf(kind) = "write"
    /\ \A kind \in {"DoStmt", "CallStmt"} : ClassOf(kind) = "procedure"
  <1>1. \A kind \in {"DropStmt", "AlterTableStmt", "TruncateStmt", "IndexStmt", "CreatedbStmt",
                     "DropdbStmt"} : ClassOf(kind) = "ddl"
    BY DdlClass DEF DdlKinds
  <1>2. \A kind \in {"ReindexStmt", "VacuumStmt"} : ClassOf(kind) = "maintenance"
    BY DEF ClassOf, ReadKinds, WriteKinds, ProcedureKinds, MaintenanceKinds, DdlKinds, RolesKinds
  <1>3. \A kind \in {"DropRoleStmt", "DropOwnedStmt"} : ClassOf(kind) = "roles"
    BY DEF ClassOf, ReadKinds, WriteKinds, ProcedureKinds, MaintenanceKinds, DdlKinds, RolesKinds
  <1>4. \A kind \in {"DeleteStmt", "UpdateStmt"} : ClassOf(kind) = "write"
    BY DEF ClassOf, ReadKinds, WriteKinds, ProcedureKinds, MaintenanceKinds, DdlKinds, RolesKinds
  <1>5. \A kind \in {"DoStmt", "CallStmt"} : ClassOf(kind) = "procedure"
    BY DEF ClassOf, ReadKinds, WriteKinds, ProcedureKinds, MaintenanceKinds, DdlKinds, RolesKinds
  <1>6. QED
    BY <1>1, <1>2, <1>3, <1>4, <1>5

\* A statement is in no weaker a class than its own kind.
LEMMA AtLeastItsKind ==
    ASSUME NEW s, s.kind # "ExplainStmt", NEW n \in Nodes(s), ClassOf(n.kind) # "refused"
    PROVE  Rank(ClassOf(n.kind)) <= Rank(ClassFound(s))
  BY KindsInTree, ClassIs

\* What PostgreSQL wants alone is found to run outside a transaction, and is no read.
LEMMA AloneIsFound ==
    ASSUME NEW s, NeedsAlone(s), ~Unmarked(s)
    PROVE  Classification(s).outside /\ ClassFound(s) # "read"
  <1>1. PICK n \in Nodes(s) : n.kind = s.kind /\ n.marks = s.marks
    BY TopNode
  <1>2. s.kind # "ExplainStmt" /\ ClassOf(n.kind) \in {"ddl", "maintenance"}
    BY <1>1, KindClasses DEF NeedsAlone, Unmarked
  <1>3. ClassFound(s) # "read"
    BY <1>2, AtLeastItsKind, Ranks
  <1>4. OutsideTransaction(n)
    BY <1>1 DEF NeedsAlone, Unmarked, OutsideTransaction
  <1>5. QED
    BY <1>3, <1>4, ClassificationIs

\* The relations of an authorized statement are in scope, or left to the search path,
\* which a pooler does not keep.
Named(s) ==
    \A x \in s.relations :
        \/ InScope(x.schema)
        \/ x.schema = NoSchema /\ (pooled => x.name \in s.ctes \union CatalogNames)

\* What is authorized names nothing outside the served schema.
LEMMA AuthorizedNames ==
    ASSUME NEW s, Authorized(Classification(s), mode, pooled)
    PROVE  Named(s)
  <1>1. \A x \in RelationsFound(s) : RelationAllowed(x, pooled)
    BY ClassificationIs DEF Authorized
  <1>2. QED
    BY <1>1 DEF Named, RelationsFound, RelationAllowed

\* What an authorized statement takes down by CASCADE has targets to list.
LEMMA CascadeIsFound ==
    ASSUME NEW s, Cascades(s), Listed(s),
           s.kind = "DropStmt" => s.objects # {},
           s.kind = "AlterTableStmt" => s.relations # {}
    PROVE  /\ ~Classification(s).refused => Classification(s).targets # {}
           /\ ClassFound(s) \notin {"read", "write", "procedure"}
  <1>1. PICK n \in Nodes(s) : n.kind = s.kind /\ n.marks = s.marks
    BY TopNode
  <1>2. s.kind \in {"DropStmt", "AlterTableStmt"}
    BY DEF Cascades, Listed
  <1>3. ClassFound(s) \notin {"read", "write", "procedure"}
    BY <1>1, <1>2, KindClasses, AtLeastItsKind, Ranks
  <1>4. CascadeTargets(s) # {}
    BY <1>2 DEF Cascades, CascadeTargets
  <1>5. RefusalsFound(s) \/ ~CascadeRefused(s)
    BY DEF RefusalsFound
  <1>6. QED
    BY <1>3, <1>4, <1>5, ClassificationIs

\* What loses something is called destructive.
LEMMA LossIsFound ==
    ASSUME ConditionsDecided, NEW s, Loses(s), Decided(s), WellMarked(s),
           \A n \in Nodes(s) : n.where \in Conditions,
           s.kind # "ExplainStmt" \/ ClassFound(s) # "read"
    PROVE  Classification(s).destructive
  <1>1. ASSUME NEW n \in Nodes(s), NoteDestructive(n),
               ClassOf(n.kind) \in {"write", "ddl", "roles"}
        PROVE  Classification(s).destructive
    <2>1. ClassFound(s) # "read"
      BY <1>1, AtLeastItsKind, Ranks
    <2>2. QED
      BY <1>1, <2>1, ClassificationIs
  <1>2. CASE s.kind \in {"DoStmt", "CallStmt"}
    BY <1>2, ClassificationIs
  <1>3. CASE s.kind \in {"DropStmt", "TruncateStmt", "DropRoleStmt", "DropOwnedStmt", "DropdbStmt"}
    <2>1. PICK n \in Nodes(s) : n.kind = s.kind
      BY TopNode
    <2>2. NoteDestructive(n)
      BY <1>3, <2>1 DEF NoteDestructive, DestructiveKinds
    <2>3. ClassOf(n.kind) \in {"write", "ddl", "roles"}
      BY <1>3, <2>1, KindClasses
    <2>4. QED
      BY <1>1, <2>2, <2>3
  <1>4. ASSUME NEW n \in Nodes(s), n.kind \in {"DeleteStmt", "UpdateStmt"}, PicksEveryRow(n.where)
        PROVE  Classification(s).destructive
    <2>1. AbsentOrConstant(n.where)
      BY <1>4 DEF ConditionsDecided, Decided
    <2>2. NoteDestructive(n)
      BY <1>4, <2>1 DEF NoteDestructive
    <2>3. QED
      BY <1>1, <1>4, <2>2, KindClasses
  <1>5. ASSUME NEW n \in Nodes(s),
               n.marks \intersect {"drop column", "drop constraint", "retype using", "set table",
                                   "drop table"} # {}
        PROVE  Classification(s).destructive
    <2>1. n.marks \intersect DestructiveMarks # {}
      BY <1>5 DEF DestructiveMarks
    <2>2. QED
      BY <1>1, <2>1 DEF NoteDestructive, WellMarked
  <1>6. QED
    BY <1>2, <1>3, <1>4, <1>5 DEF Loses

-------------------------------------------------------------------------------
(* What a prepared call can be                                             *)

HarmlessRead(p) ==
    /\ p.route \in {"read", "rollback"}
    /\ Effects(p.stmt) \subseteq {"rows", "schema", "storage", "row locks"}
OutsideFound(p) ==
    NeedsAlone(p.stmt) /\ ~Unmarked(p.stmt) =>
        p.route \notin {"read", "rollback"} /\ p.found.outside
CascadeFound(p) ==
    Cascades(p.stmt) /\ Listed(p.stmt) => p.route = "execute" /\ p.found.targets # {}
LossFound(p) ==
    ConditionsDecided /\ Loses(p.stmt) /\ Decided(p.stmt) =>
        \/ p.route \in {"read", "rollback"}
        \/ p.route \in {"execute", "maintain"} /\ p.found.destructive

Sound(r, p) ==
    /\ mode = "read-only" /\ r.tool \in ReadTools => HarmlessRead(p)
    /\ OutsideFound(p)
    /\ Named(p.stmt)
    /\ CascadeFound(p)
    /\ LossFound(p)

\* A statement that passed the check was classified and authorized as it stands.
LEMMA CheckedIs ==
    ASSUME NEW s, NEW route, NEW p \in Checked(s, route)
    PROVE  /\ p.stmt = s /\ p.found = Classification(s) /\ p.route = route
           /\ Authorized(p.found, mode, pooled) /\ ~p.found.refused
           /\ Named(s)
           /\ mode = "read-only" => p.found.class = "read"
  <1>1. /\ p.stmt = s /\ p.found = Classification(s) /\ p.route = route
        /\ Authorized(p.found, mode, pooled)
    BY DEF Checked, Prepared
  <1>2. QED
    BY <1>1, AuthorizedNames DEF Authorized, AllowedIn, AllowsWrites

\* A statement of a kind that neither runs alone nor cascades, on its way to a place where
\* nothing stays of it.
LEMMA ReadsAreSound ==
    ASSUME NEW r, NEW p, p.route \in {"read", "rollback"}, Named(p.stmt),
           p.stmt.kind \in {"SelectStmt", "ExplainStmt", "CopyStmt"},
           mode = "read-only" /\ r.tool \in ReadTools => HarmlessRead(p)
    PROVE  Sound(r, p)
  BY DEF Sound, OutsideFound, CascadeFound, LossFound, NeedsAlone, Cascades

\* pg_run_query prepares a sound statement, or refuses.
LEMMA RunQueryIsSound ==
    ASSUME NEW r \in Catalogue \union Retried, NEW p \in RunQuery(r)
    PROVE  Sound(r, p)
  <1>1. p \in Checked(r.sql, "read") /\ p.found.class = "read"
    BY DEF RunQuery
  <1>2. /\ p.stmt = r.sql /\ p.found = Classification(r.sql) /\ p.route = "read"
        /\ ~p.found.refused /\ Named(r.sql)
    BY <1>1, CheckedIs
  <1>3. ClassFound(p.stmt) = "read" /\ ~RefusalsFound(p.stmt)
    BY <1>1, <1>2, ClassificationIs
  <1>4. HarmlessRead(p)
    BY <1>2, <1>3, ReadsAreHarmless DEF HarmlessRead
  <1>5. OutsideFound(p)
    BY <1>3, AloneIsFound DEF OutsideFound
  <1>6. ~(Cascades(p.stmt) /\ Listed(p.stmt))
    <2> SUFFICES ASSUME Cascades(p.stmt), Listed(p.stmt)
                 PROVE  FALSE
      OBVIOUS
    <2>1. p.stmt.kind \in {"DropStmt", "AlterTableStmt"}
      BY DEF Cascades, Listed
    <2>2. PICK n \in Nodes(p.stmt) : n.kind = p.stmt.kind
      BY TopNode
    <2>3. QED
      BY <1>3, <2>1, <2>2, KindClasses, AtLeastItsKind, Ranks
  <1>7. QED
    BY <1>2, <1>4, <1>5, <1>6 DEF Sound, CascadeFound, LossFound

\* So does pg_count, which counts the rows of a condition.
LEMMA CountIsSound ==
    ASSUME NEW r, NEW p \in Count(r)
    PROVE  Sound(r, p)
  <1> DEFINE w == [On("SelectStmt", {}) EXCEPT !.where = r.where]
             counted == Holding(w, r)
             whole == On("SelectStmt", {})
  <1>1. CASE p \in Checked(counted, "read")
    <2>1. DOMAIN w = Parts /\ w.kind = "SelectStmt"
      BY OnIs DEF Parts
    <2> HIDE DEF w
    <2>2. counted.kind = "SelectStmt"
      BY <2>1, HoldingIs
    <2> HIDE DEF counted
    <2>3. /\ p.stmt = counted /\ p.found = Classification(counted) /\ p.route = "read"
          /\ ~p.found.refused /\ Named(p.stmt)
          /\ mode = "read-only" => p.found.class = "read"
      BY <1>1, CheckedIs
    <2>4. mode = "read-only" => HarmlessRead(p)
      BY <2>3, ClassificationIs, ReadsAreHarmless DEF HarmlessRead
    <2>5. QED
      BY <2>2, <2>3, <2>4, ReadsAreSound
  <1>2. CASE p \in Prepared(whole, Classification(whole), "read")
    <2>1. p.stmt = whole /\ p.route = "read"
      BY <1>2 DEF Prepared
    <2>2. /\ whole.kind = "SelectStmt" /\ whole.marks = {} /\ whole.inner = {}
          /\ whole.functions = {}
          /\ whole.relations = {[schema |-> ServedSchema, name |-> "orders"]}
      BY OnIs
    <2> HIDE DEF whole
    <2>3. Named(whole)
      BY <2>2 DEF Named, InScope
    <2>4. \A n \in Nodes(whole) : n.kind = "SelectStmt" /\ n.marks = {}
      BY <2>2 DEF Nodes
    <2>5. \A n \in Nodes(whole) : KindEffects(n) = {}
      <3>1. /\ "SelectStmt" \notin WriteKinds \union ProcedureKinds
            /\ "SelectStmt" \notin MaintenanceKinds \union RolesKinds
        BY DEF WriteKinds, ProcedureKinds, MaintenanceKinds, RolesKinds
      <3>2. "SelectStmt" \notin DdlKinds
        BY DEF DdlKinds
      <3>3. QED
        BY <2>4, <3>1, <3>2 DEF KindEffects
    <2>6. Effects(whole) \subseteq {"rows", "schema", "storage", "row locks"}
      BY <2>2, <2>4, <2>5 DEF Effects
    <2>7. HarmlessRead(p)
      BY <2>1, <2>6 DEF HarmlessRead
    <2>8. QED
      BY <2>1, <2>2, <2>3, <2>7, ReadsAreSound
  <1>3. QED
    BY <1>1, <1>2 DEF Count

\* So does pg_explain, whose statement may be executed to be measured.
LEMMA ExplainIsSound ==
    ASSUME NEW r \in Catalogue \union Retried, NEW p \in Explain(r)
    PROVE  Sound(r, p)
  <1> DEFINE s == Explained(r)
  <1>1. s.kind = "ExplainStmt"
    BY RequestsAssumption DEF Explained, StatementType
  <1> HIDE DEF s
  <1>2. PICK q \in Checked(s, "read") :
           p = IF q.found.class = "read" THEN q ELSE [q EXCEPT !.route = "rollback"]
    BY DEF Explain, s
  <1>3. /\ q.stmt = s /\ q.found = Classification(s) /\ q.route = "read"
        /\ ~q.found.refused /\ Named(s)
        /\ mode = "read-only" => q.found.class = "read"
    BY <1>2, CheckedIs
  <1>4. DOMAIN q = {"stmt", "found", "route"}
    BY <1>2 DEF Checked, Prepared
  <1>5. p.stmt = s /\ p.found = q.found /\ p.route \in {"read", "rollback"}
    BY <1>2, <1>3, <1>4
  <1>6. mode = "read-only" => HarmlessRead(p)
    <2> SUFFICES ASSUME mode = "read-only"
                 PROVE  HarmlessRead(p)
      OBVIOUS
    <2>1. ClassFound(s) = "read" /\ ~RefusalsFound(s)
      BY <1>3, ClassificationIs
    <2>2. Effects(s) \subseteq {"rows", "schema", "storage", "row locks"}
      BY <2>1, ReadsAreHarmless
    <2>3. QED
      BY <1>5, <2>2 DEF HarmlessRead
  <1>7. QED
    BY <1>1, <1>3, <1>5, <1>6, ReadsAreSound

\* So does pg_run_write.
LEMMA RunWriteIsSound ==
    ASSUME NEW r \in Catalogue \union Retried, r.tool \notin ReadTools, NEW p \in RunWrite(r)
    PROVE  Sound(r, p)
  <1>1. p \in Checked(r.sql, "execute") /\ p.found.class \in {"write", "procedure"}
    BY DEF RunWrite
  <1>2. /\ p.stmt = r.sql /\ p.found = Classification(r.sql) /\ p.route = "execute"
        /\ Named(r.sql)
    BY <1>1, CheckedIs
  <1>3. ClassFound(p.stmt) \in {"write", "procedure"}
    BY <1>1, <1>2, ClassificationIs
  <1>4. OutsideFound(p)
    BY <1>2, AloneIsFound DEF OutsideFound
  <1>5. ~(Cascades(p.stmt) /\ Listed(p.stmt))
    <2> SUFFICES ASSUME Cascades(p.stmt), Listed(p.stmt)
                 PROVE  FALSE
      OBVIOUS
    <2>1. p.stmt.kind \in {"DropStmt", "AlterTableStmt"}
      BY DEF Cascades, Listed
    <2>2. PICK n \in Nodes(p.stmt) : n.kind = p.stmt.kind
      BY TopNode
    <2>3. QED
      BY <1>3, <2>1, <2>2, KindClasses, AtLeastItsKind, Ranks
  <1>6. WellMarked(r.sql) /\ \A n \in Nodes(r.sql) : n.where \in Conditions
    BY RequestsAssumption DEF Nodes, StatementType, NodeType
  <1>7. LossFound(p)
    BY <1>2, <1>3, <1>6, LossIsFound DEF LossFound
  <1>8. QED
    BY <1>2, <1>4, <1>5, <1>7 DEF Sound, CascadeFound

\* So does pg_copy, in either direction.
LEMMA CopyIsSound ==
    ASSUME NEW r, r.tool \notin ReadTools, NEW p \in Copy(r)
    PROVE  Sound(r, p)
  <1> DEFINE in == On("CopyStmt", {"from"})
             whole == On("CopyStmt", {})
             out == [whole EXCEPT !.inner = Nodes(r.sql), !.relations = r.sql.relations,
                                  !.functions = r.sql.functions, !.ctes = r.sql.ctes]
  <1>1. CASE p \in Prepared(in, Classification(in), "copy")
    <2>1. p.stmt = in /\ p.route = "copy"
      BY <1>1 DEF Prepared
    <2>2. /\ in.kind = "CopyStmt" /\ in.marks = {"from"} /\ in.inner = {}
          /\ in.relations = {[schema |-> ServedSchema, name |-> "orders"]}
      BY OnIs
    <2> HIDE DEF in
    <2>3. Named(in)
      BY <2>2 DEF Named, InScope
    <2>4. \A n \in Nodes(in) : n.kind = "CopyStmt" /\ n.marks = {"from"}
      BY <2>2 DEF Nodes
    <2>5. ~Loses(in) /\ ~Cascades(in) /\ ~NeedsAlone(in)
      BY <2>2, <2>4 DEF Loses, Cascades, NeedsAlone
    <2>6. QED
      BY <2>1, <2>3, <2>5 DEF Sound, OutsideFound, CascadeFound, LossFound
  <1>2. CASE \E q \in Checked(r.sql, "read") : p = [q EXCEPT !.stmt = out, !.found = Classification(out)]
    <2>1. PICK q \in Checked(r.sql, "read") :
             p = [q EXCEPT !.stmt = out, !.found = Classification(out)]
      BY <1>2
    <2>2. q.route = "read" /\ Named(r.sql) /\ DOMAIN q = {"stmt", "found", "route"}
      BY CheckedIs DEF Checked, Prepared
    <2>3. out.kind = "CopyStmt" /\ out.relations = r.sql.relations /\ out.ctes = r.sql.ctes
      BY OnIs DEF Parts
    <2> HIDE DEF out
    <2>4. p.stmt = out /\ p.route = "read"
      BY <2>1, <2>2
    <2>5. Named(out)
      BY <2>2, <2>3 DEF Named
    <2>6. QED
      BY <2>3, <2>4, <2>5, ReadsAreSound
  <1>3. CASE p \in Prepared(whole, Classification(whole), "read")
    <2>1. p.stmt = whole /\ p.route = "read"
      BY <1>3 DEF Prepared
    <2>2. /\ whole.kind = "CopyStmt"
          /\ whole.relations = {[schema |-> ServedSchema, name |-> "orders"]}
      BY OnIs
    <2> HIDE DEF whole
    <2>3. Named(whole)
      BY <2>2 DEF Named, InScope
    <2>4. QED
      BY <2>1, <2>2, <2>3, ReadsAreSound
  <1>4. QED
    BY <1>1, <1>2, <1>3 DEF Copy

\* So do the tools that render their statement from structured arguments.
LEMMA RenderIsSound ==
    ASSUME NEW r \in Catalogue \union Retried, r.tool \notin ReadTools, NEW p \in Render(r)
    PROVE  Sound(r, p)
  <1>1. PICK q \in Rendering(r) :
            \/ /\ r.tool \in Maintenance
               /\ p \in Prepared(q.stmt, [Classification(q.stmt) EXCEPT
                                             !.destructive = @ \/ Forced(r)], "maintain")
            \/ /\ r.tool \notin Maintenance
               /\ p \in Checked(q.stmt, "execute")
    BY DEF Render
  <1>2. WellMade(q.stmt)
    BY RenderingIsWellMade DEF AllWellMade
  <1>3. /\ p.stmt = q.stmt
        /\ p.found.outside = Classification(q.stmt).outside
        /\ Classification(q.stmt).destructive => p.found.destructive
        /\ p.route \in {"execute", "maintain"}
    <2>1. CASE r.tool \in Maintenance
      <3> DEFINE c == Classification(q.stmt)
      <3>1. {"destructive", "outside"} \subseteq DOMAIN c /\ c.destructive \in BOOLEAN
        BY DEF Classification
      <3> HIDE DEF c
      <3>2. /\ p.stmt = q.stmt /\ p.route = "maintain"
            /\ p.found = [c EXCEPT !.destructive = @ \/ Forced(r)]
        BY <1>1, <2>1 DEF Prepared, c
      <3>3. p.found.outside = c.outside /\ (c.destructive => p.found.destructive)
        BY <3>1, <3>2
      <3>4. QED
        BY <3>2, <3>3 DEF c
    <2>2. CASE r.tool \notin Maintenance
      BY <1>1, <2>2, CheckedIs
    <2>3. QED
      BY <2>1, <2>2
  <1>4. OutsideFound(p)
    BY <1>3, AloneIsFound DEF OutsideFound
  <1>5. LossFound(p)
    BY <1>2, <1>3, LossIsFound DEF LossFound, WellMade
  <1>6. Named(p.stmt) /\ CascadeFound(p)
    <2>1. CASE r.tool \in Maintenance
      BY <1>3, <2>1, MaintenanceRenders DEF Named, InScope, CascadeFound, Cascades, Listed
    <2>2. CASE r.tool \notin Maintenance
      <3>1. /\ p.found = Classification(q.stmt) /\ p.route = "execute" /\ ~p.found.refused
            /\ Named(q.stmt)
        BY <1>1, <2>2, CheckedIs
      <3>2. CascadeFound(p)
        BY <1>2, <1>3, <3>1, CascadeIsFound DEF CascadeFound, WellMade
      <3>3. QED
        BY <1>3, <3>1, <3>2
    <2>3. QED
      BY <2>1, <2>2
  <1>7. QED
    BY <1>4, <1>5, <1>6 DEF Sound

\* Whatever a tool prepares is sound.
LEMMA PreparedIsSound ==
    ASSUME NEW r \in Catalogue \union Retried, NEW p \in Prepare(r)
    PROVE  Sound(r, p)
  <1>1. CASE r.tool = "pg_run_query"
    BY <1>1, RunQueryIsSound DEF Prepare
  <1>2. CASE r.tool = "pg_count"
    BY <1>2, CountIsSound DEF Prepare
  <1>3. CASE r.tool = "pg_explain"
    BY <1>3, ExplainIsSound DEF Prepare
  <1>4. CASE r.tool = "pg_run_write"
    BY <1>4, RunWriteIsSound DEF Prepare, ReadTools
  <1>5. CASE r.tool = "pg_copy"
    BY <1>5, CopyIsSound DEF Prepare, ReadTools
  <1>6. CASE r.tool \notin {"pg_run_query", "pg_count", "pg_explain", "pg_run_write", "pg_copy"}
    BY <1>6, RenderIsSound DEF Prepare, ReadTools
  <1>7. QED
    BY <1>1, <1>2, <1>3, <1>4, <1>5, <1>6

-------------------------------------------------------------------------------
(* The calls                                                               *)

Fields == {"stage", "request", "principal", "confirm", "dryRun", "handle", "elicits", "pending",
           "answer", "prepared", "present", "listed", "verdict", "place", "dropped"}
Shaped == DOMAIN call = Calls /\ \A c \in Calls : DOMAIN call[c] = Fields

Confirmed == {"confirmed_argument", "confirmed_elicitation"}

\* A call that is under way or has run holds a sound statement of a tool that is offered;
\* its listing was of all there was when it was due; it was cleared by the gate, unless
\* nothing asked for one; and it ran where it had to.
WorkSound(c) ==
    call[c].stage \in {"prepared", "listed", "cleared", "ran"} =>
        Offered(call[c].request.tool) /\ Sound(call[c].request, call[c].prepared)
ListingSound(c) ==
    call[c].stage \in {"listed", "cleared", "ran"} =>
        /\ ~ListingRefused(call[c].listed)
        /\ call[c].prepared.route = "execute" /\ call[c].prepared.found.targets # {} =>
              call[c].listed = call[c].present
ClearedSound(c) ==
    call[c].stage \in {"cleared", "ran"} /\ Destroys(c) => call[c].verdict \in Confirmed
RunSound(c) ==
    call[c].stage = "ran" =>
        /\ ~HandleRefused(c) /\ call[c].place = PlaceOf(c)
        /\ ~Cascades(call[c].prepared.stmt) => call[c].dropped = {}
CallSound(c) == WorkSound(c) /\ ListingSound(c) /\ ClearedSound(c) /\ RunSound(c)

CallsSound ==
    /\ menu \subseteq Catalogue \union Retried
    /\ Shaped
    /\ \A c \in Calls : CallSound(c)

\* A call that has not been made.
LEMMA IdleIs == DOMAIN Idle = Fields /\ Idle.stage = "idle" /\ Idle.verdict = None
                /\ Idle.pending = None
  BY DEF Idle, Fields

\* A step of one call leaves the others and the shape of their table.
LEMMA OthersStay ==
    ASSUME Shaped, NEW c \in Calls, NEW state, DOMAIN state = Fields, Becomes(c, state)
    PROVE  /\ call'[c] = state
           /\ \A d \in Calls : d # c => call'[d] = call[d]
           /\ Shaped'
  BY DEF Shaped, Becomes

\* A call that has not moved is as sound as it was.
LEMMA SameCall ==
    ASSUME NEW c \in Calls, call'[c] = call[c], mode' = mode, pooled' = pooled, CallSound(c)
    PROVE  CallSound(c)'
  BY DEF CallSound, WorkSound, ListingSound, ClearedSound, RunSound, Offered, Sound, Named,
         Destroys, HandleRefused, PlaceOf

\* Before any call there is nothing to be sound.
LEMMA CallsStart == Init => CallsSound
  <1> SUFFICES ASSUME Init
               PROVE  CallsSound
    OBVIOUS
  <1>1. menu \subseteq Catalogue \union Retried
    BY DEF Init
  <1>2. DOMAIN call = Calls /\ \A c \in Calls : call[c] = Idle
    BY DEF Init
  <1>3. QED
    BY <1>1, <1>2, IdleIs
       DEF CallsSound, Shaped, CallSound, WorkSound, ListingSound, ClearedSound, RunSound

\* One call moves, and the server stays as it is.
LEMMA OneMoves ==
    ASSUME CallsSound, NEW c \in Calls, NEW state, DOMAIN state = Fields, Becomes(c, state),
           mode' = mode, pooled' = pooled, menu' = menu, CallSound(c)'
    PROVE  CallsSound'
  <1>1. Shaped' /\ \A d \in Calls : d # c => call'[d] = call[d]
    BY OthersStay DEF CallsSound
  <1>2. \A d \in Calls : CallSound(d)'
    BY <1>1, SameCall DEF CallsSound
  <1>3. QED
    BY <1>1, <1>2 DEF CallsSound

\* What arrives is refused, or holds a sound statement and no verdict.
LEMMA ArrivedIs ==
    ASSUME NEW r \in Catalogue \union Retried, NEW p, NEW confirm, NEW elicits, NEW dryRun,
           NEW handle, NEW answer, NEW pending
    PROVE  LET k == Arrived(r, p, confirm, elicits, dryRun, handle, answer, pending)
           IN  /\ DOMAIN k = Fields /\ k.request = r /\ k.principal = p /\ k.pending = pending
               /\ k.answer = answer /\ k.verdict = None
               /\ k.stage \in {"refused", "prepared"}
               /\ k.stage = "prepared" => Sound(r, k.prepared)
  <1> DEFINE made == Prepare(r)
             stage == IF made = {} THEN "refused" ELSE "prepared"
             prepared == IF made = {} THEN None ELSE CHOOSE m \in made : TRUE
             k == Arrived(r, p, confirm, elicits, dryRun, handle, answer, pending)
  <1>1. k = [Idle EXCEPT
                !.stage = stage, !.request = r, !.principal = p, !.confirm = confirm,
                !.dryRun = dryRun, !.handle = handle, !.elicits = elicits,
                !.pending = pending, !.answer = answer, !.prepared = prepared]
    BY DEF Arrived
  <1>2. stage \in {"refused", "prepared"} /\ (stage = "prepared" => prepared \in made)
    OBVIOUS
  <1>3. stage = "prepared" => Sound(r, prepared)
    BY <1>2, PreparedIsSound
  <1> HIDE DEF made, stage, prepared, k
  <1>4. /\ DOMAIN k = Fields /\ k.request = r /\ k.principal = p /\ k.pending = pending
        /\ k.answer = answer /\ k.verdict = None /\ k.stage = stage /\ k.prepared = prepared
    BY <1>1, IdleIs DEF Fields
  <1>5. QED
    BY <1>2, <1>3, <1>4 DEF k

\* tools/call up to the end of the tool's own preparation.
LEMMA ArriveKeeps ==
    ASSUME CallsSound, NEW c \in Calls, NEW r \in menu, NEW p, NEW confirm, NEW elicits,
           Arrive(c, r, p, confirm, elicits)
    PROVE  CallsSound'
  <1>1. PICK dryRun, handle \in BOOLEAN, answer \in {"accepted", "declined", "missing"},
             pending \in sent \union {None} :
             Becomes(c, Arrived(r, p, confirm, elicits, dryRun, handle, answer, pending))
    BY DEF Arrive
  <1>2. PICK state : state = Arrived(r, p, confirm, elicits, dryRun, handle, answer, pending)
    OBVIOUS
  <1>3. Becomes(c, state)
    BY <1>1, <1>2
  <1>4. /\ Offered(r.tool)
        /\ mode' = mode /\ pooled' = pooled /\ menu' = menu
    BY DEF Arrive
  <1>5. r \in Catalogue \union Retried
    BY DEF CallsSound
  <1>6. /\ DOMAIN state = Fields /\ state.request = r
        /\ state.stage \in {"refused", "prepared"}
        /\ state.stage = "prepared" => Sound(r, state.prepared)
    BY <1>2, <1>5, ArrivedIs
  <1>7. call'[c] = state
    BY <1>3, <1>6, OthersStay DEF CallsSound
  <1>8. Offered(r.tool)' /\ (state.stage = "prepared" => Sound(r, state.prepared)')
    BY <1>4, <1>6 DEF Offered, Sound, Named
  <1>9. CallSound(c)'
    BY <1>6, <1>7, <1>8 DEF CallSound, WorkSound, ListingSound, ClearedSound, RunSound
  <1>10. QED
    BY <1>3, <1>4, <1>6, <1>9, OneMoves

\* The listing of what a CASCADE takes with it, or its refusal.
LEMMA ListKeeps ==
    ASSUME CallsSound, NEW c \in Calls, List(c)
    PROVE  CallsSound'
  <1> DEFINE listed == Listing(call[c].prepared)
             stage == IF ListingRefused(listed) THEN "refused"
                      ELSE IF call[c].dryRun THEN "replied" ELSE "listed"
             state == [call[c] EXCEPT !.listed = listed, !.present = dependents, !.stage = stage]
  <1>1. /\ call[c].stage = "prepared" /\ Becomes(c, state)
        /\ mode' = mode /\ pooled' = pooled /\ menu' = menu
    BY DEF List
  <1>2. WorkSound(c) /\ DOMAIN call[c] = Fields
    BY DEF CallsSound, CallSound, Shaped
  <1>3. /\ stage \in {"refused", "replied", "listed"}
        /\ stage = "listed" => ~ListingRefused(listed)
    OBVIOUS
  <1>4. call[c].prepared.route = "execute" /\ call[c].prepared.found.targets # {} =>
            listed = dependents
    BY DEF Listing
  <1> HIDE DEF stage, listed
  <1>5. /\ DOMAIN state = Fields /\ state.stage = stage /\ state.listed = listed
        /\ state.present = dependents
        /\ state.request = call[c].request /\ state.prepared = call[c].prepared
    BY <1>2 DEF Fields
  <1> HIDE DEF state
  <1>6. call'[c] = state
    BY <1>1, <1>5, OthersStay DEF CallsSound
  <1>7. WorkSound(c)'
    BY <1>1, <1>2, <1>3, <1>5, <1>6 DEF WorkSound, Offered, Sound, Named
  <1>8. ListingSound(c)'
    BY <1>3, <1>4, <1>5, <1>6 DEF ListingSound
  <1>9. ClearedSound(c)' /\ RunSound(c)'
    BY <1>3, <1>5, <1>6 DEF ClearedSound, RunSound
  <1>10. QED
    BY <1>1, <1>5, <1>7, <1>8, <1>9, OneMoves DEF CallSound

\* A call moves on with what it has prepared and listed.
LEMMA MovesOn ==
    ASSUME CallsSound, NEW c \in Calls, NEW state, Becomes(c, state), DOMAIN state = Fields,
           mode' = mode, pooled' = pooled, menu' = menu,
           state.request = call[c].request, state.prepared = call[c].prepared,
           state.listed = call[c].listed, state.present = call[c].present,
           state.handle = call[c].handle,
           \/ state.stage \notin {"prepared", "listed", "cleared", "ran"}
           \/ /\ call[c].stage = "listed" /\ state.stage = "cleared"
              /\ Destroys(c) => state.verdict \in Confirmed
           \/ /\ call[c].stage = "cleared" /\ state.stage = "ran"
              /\ state.verdict = call[c].verdict
              /\ ~HandleRefused(c) /\ state.place = PlaceOf(c)
              /\ ~Cascades(call[c].prepared.stmt) => state.dropped = {}
    PROVE  CallsSound'
  <1>1. call'[c] = state
    BY OthersStay DEF CallsSound
  <1>2. CallSound(c)
    BY DEF CallsSound
  <1>3. /\ Destroys(c)' = Destroys(c) /\ HandleRefused(c)' = HandleRefused(c)
        /\ PlaceOf(c)' = PlaceOf(c)
    BY <1>1 DEF Destroys, HandleRefused, PlaceOf
  <1>4. WorkSound(c)'
    BY <1>1, <1>2 DEF CallSound, WorkSound, Offered, Sound, Named
  <1>5. ListingSound(c)'
    BY <1>1, <1>2 DEF CallSound, ListingSound
  <1>6. ClearedSound(c)'
    BY <1>1, <1>2, <1>3 DEF CallSound, ClearedSound
  <1>7. RunSound(c)'
    BY <1>1, <1>2, <1>3 DEF CallSound, RunSound
  <1>8. QED
    BY <1>4, <1>5, <1>6, <1>7, OneMoves DEF CallSound

\* What destroys nothing needs no confirmation.
LEMMA UngatedKeeps ==
    ASSUME CallsSound, NEW c \in Calls, Ungated(c)
    PROVE  CallsSound'
  <1>1. PICK state : state = [call[c] EXCEPT !.stage = "cleared", !.verdict = "allowed"]
    OBVIOUS
  <1>2. /\ call[c].stage = "listed" /\ ~Destroys(c) /\ Becomes(c, state)
        /\ mode' = mode /\ pooled' = pooled /\ menu' = menu
    BY <1>1 DEF Ungated
  <1>3. DOMAIN call[c] = Fields
    BY DEF CallsSound, Shaped
  <1>4. /\ DOMAIN state = Fields /\ state.stage = "cleared"
        /\ state.request = call[c].request /\ state.prepared = call[c].prepared
        /\ state.listed = call[c].listed /\ state.present = call[c].present
        /\ state.handle = call[c].handle
    BY <1>1, <1>3 DEF Fields
  <1>5. QED
    BY <1>2, <1>4, MovesOn

\* What the gate is asked of call `c`, and what it says.
AskedStatement(c) == [tool |-> call[c].request.tool, sql |-> call[c].prepared.stmt]
Asked(c) ==
    [confirm |-> call[c].confirm, pending |-> call[c].pending, answer |-> call[c].answer,
     elicits |-> call[c].elicits, principal |-> call[c].principal,
     statement |-> AskedStatement(c)]
Said(c) == Gate!Check(gate, Asked(c), now, None)
Sealed(c) == Gate!Seal(gate, CHOOSE n \in Unused : TRUE, AskedStatement(c), call[c].principal, now)
StageAfter(verdict) ==
    CASE verdict \in Confirmed -> "cleared"
      [] verdict = "ask" -> "asked"
      [] OTHER -> "refused"

\* A decision of the gate changes the gate, the verdict and the stage of its call.
LEMMA GatedIs ==
    ASSUME NEW c \in Calls, Gated(c)
    PROVE  /\ call[c].stage = "listed" /\ Destroys(c)
           /\ Becomes(c, [call[c] EXCEPT !.verdict = Said(c).verdict,
                                         !.stage = StageAfter(Said(c).verdict)])
           /\ gate' = Said(c).gate
           /\ sent' = IF Said(c).verdict = "ask" THEN sent \union {Sealed(c)} ELSE sent
           /\ UNCHANGED <<mode, pooled, menu, dependents, now, starts>>
  BY DEF Gated, Said, Asked, Sealed, AskedStatement, StageAfter, Confirmed

\* A decision of the gate clears a call only with a confirmation.
LEMMA GatedKeeps ==
    ASSUME CallsSound, NEW c \in Calls, Gated(c)
    PROVE  CallsSound'
  <1>1. PICK verdict : verdict = Said(c).verdict
    OBVIOUS
  <1>2. PICK state : state = [call[c] EXCEPT !.verdict = verdict, !.stage = StageAfter(verdict)]
    OBVIOUS
  <1>3. /\ call[c].stage = "listed" /\ Becomes(c, state)
        /\ mode' = mode /\ pooled' = pooled /\ menu' = menu
    BY <1>1, <1>2, GatedIs
  <1>4. DOMAIN call[c] = Fields
    BY DEF CallsSound, Shaped
  <1>5. /\ DOMAIN state = Fields /\ state.stage = StageAfter(verdict) /\ state.verdict = verdict
        /\ state.request = call[c].request /\ state.prepared = call[c].prepared
        /\ state.listed = call[c].listed /\ state.present = call[c].present
        /\ state.handle = call[c].handle
    BY <1>2, <1>4 DEF Fields
  <1>6. /\ state.stage \in {"cleared", "asked", "refused"}
        /\ state.stage = "cleared" => verdict \in Confirmed
    BY <1>5 DEF StageAfter, Confirmed
  <1>7. QED
    BY <1>3, <1>5, <1>6, MovesOn

\* A statement that must stand alone is refused in a handle.
LEMMA RunRefusedKeeps ==
    ASSUME CallsSound, NEW c \in Calls, RunRefused(c)
    PROVE  CallsSound'
  <1>1. PICK state : state = [call[c] EXCEPT !.stage = "refused"]
    OBVIOUS
  <1>2. Becomes(c, state) /\ mode' = mode /\ pooled' = pooled /\ menu' = menu
    BY <1>1 DEF RunRefused
  <1>3. DOMAIN call[c] = Fields
    BY DEF CallsSound, Shaped
  <1>4. /\ DOMAIN state = Fields /\ state.stage = "refused"
        /\ state.request = call[c].request /\ state.prepared = call[c].prepared
        /\ state.listed = call[c].listed /\ state.present = call[c].present
        /\ state.handle = call[c].handle
    BY <1>1, <1>3 DEF Fields
  <1>5. QED
    BY <1>2, <1>4, MovesOn

\* A cleared statement runs in the place its route gives it.
LEMMA RunKeeps ==
    ASSUME CallsSound, NEW c \in Calls, Run(c)
    PROVE  CallsSound'
  <1>1. PICK gone : gone = IF Cascades(call[c].prepared.stmt) THEN dependents ELSE {}
    OBVIOUS
  <1>2. PICK place : place = PlaceOf(c)
    OBVIOUS
  <1>3. PICK state : state = [call[c] EXCEPT !.stage = "ran", !.place = place, !.dropped = gone]
    OBVIOUS
  <1>4. /\ call[c].stage = "cleared" /\ ~HandleRefused(c) /\ Becomes(c, state)
        /\ mode' = mode /\ pooled' = pooled /\ menu' = menu
    BY <1>1, <1>2, <1>3 DEF Run
  <1>5. DOMAIN call[c] = Fields
    BY DEF CallsSound, Shaped
  <1>6. /\ DOMAIN state = Fields /\ state.stage = "ran"
        /\ state.place = place /\ state.dropped = gone
        /\ state.verdict = call[c].verdict
        /\ state.request = call[c].request /\ state.prepared = call[c].prepared
        /\ state.listed = call[c].listed /\ state.present = call[c].present
        /\ state.handle = call[c].handle
    BY <1>3, <1>5 DEF Fields
  <1>7. QED
    BY <1>1, <1>2, <1>4, <1>6, MovesOn

\* What happens around the calls.
LEMMA NothingMoves ==
    ASSUME CallsSound, call' = call, mode' = mode, pooled' = pooled, menu' = menu
    PROVE  CallsSound'
  BY SameCall DEF CallsSound, Shaped

\* A restart takes the calls of the process with it.
LEMMA RestartKeeps ==
    ASSUME CallsSound, Restart
    PROVE  CallsSound'
  <1>1. /\ mode' = mode /\ pooled' = pooled /\ menu' = menu
        /\ DOMAIN call' = Calls
        /\ \A c \in Calls : \/ call'[c] = call[c]
                            \/ call'[c] = [call[c] EXCEPT !.stage = "lost"]
    BY DEF Restart
  <1>2. Shaped'
    BY <1>1 DEF CallsSound, Shaped
  <1>3. ASSUME NEW c \in Calls
        PROVE  CallSound(c)'
    <2>1. CallSound(c) /\ DOMAIN call[c] = Fields
      BY DEF CallsSound, Shaped
    <2>2. CASE call'[c] = call[c]
      BY <1>1, <2>1, <2>2, SameCall
    <2>3. CASE call'[c] = [call[c] EXCEPT !.stage = "lost"]
      <3>1. call'[c].stage = "lost"
        BY <2>1, <2>3 DEF Fields
      <3>2. QED
        BY <3>1 DEF CallSound, WorkSound, ListingSound, ClearedSound, RunSound
    <2>4. QED
      BY <1>1, <2>2, <2>3
  <1>4. QED
    BY <1>1, <1>2, <1>3 DEF CallsSound

\* Whatever the calls in flight, what is refused to one is never run by another: each holds
\* a statement its tool may run, listed, confirmed and placed as the server decided for it.
THEOREM CallsStaySound == Spec => []CallsSound
  <1>1. ASSUME CallsSound, Next
        PROVE  CallsSound'
    <2>1. ASSUME NEW c \in Calls, NEW r \in menu, NEW p \in Principals,
                 NEW confirm \in BOOLEAN, NEW elicits \in BOOLEAN,
                 Arrive(c, r, p, confirm, elicits)
          PROVE  CallsSound'
      BY <1>1, <2>1, ArriveKeeps
    <2>2. ASSUME NEW c \in Calls,
                 List(c) \/ Ungated(c) \/ Gated(c) \/ RunRefused(c) \/ Run(c)
          PROVE  CallsSound'
      BY <1>1, <2>2, ListKeeps, UngatedKeeps, GatedKeeps, RunRefusedKeeps, RunKeeps
    <2>3. ASSUME NEW d, Depend(d)
          PROVE  CallsSound'
      BY <1>1, <2>3, NothingMoves DEF Depend
    <2>4. CASE Tick
      BY <1>1, <2>4, NothingMoves DEF Tick
    <2>5. CASE Restart
      BY <1>1, <2>5, RestartKeeps
    <2>6. QED
      BY <1>1, <2>1, <2>2, <2>3, <2>4, <2>5 DEF Next
  <1>2. CallsSound /\ UNCHANGED vars => CallsSound'
    BY NothingMoves DEF vars
  <1>3. QED
    BY <1>1, <1>2, CallsStart, PTL DEF Spec

-------------------------------------------------------------------------------

\* In read-only mode no call changes anything (classify.rs): what a READ ONLY transaction
\* lets pass, the classifier keeps out.
THEOREM NothingChangesReadOnly == Spec => []ReadOnlyChangesNothing
  <1>1. CallsSound => ReadOnlyChangesNothing
    <2> SUFFICES ASSUME CallsSound, mode = "read-only", NEW c \in Calls, Ran(c)
                 PROVE  EffectsIn(StatementRun(c), call[c].place) = {}
      BY DEF ReadOnlyChangesNothing
    <2>1. WorkSound(c) /\ RunSound(c) /\ call[c].stage = "ran"
      BY DEF CallsSound, CallSound, Ran
    <2>2. call[c].request.tool \in ReadTools
      BY <2>1 DEF WorkSound, Offered, AllowsWrites
    <2>3. HarmlessRead(call[c].prepared)
      BY <2>1, <2>2 DEF WorkSound, Sound
    <2>4. call[c].place \in {"read only", "rolled back"}
      BY <2>1, <2>3 DEF RunSound, PlaceOf, HarmlessRead
    <2>5. QED
      BY <2>3, <2>4 DEF EffectsIn, StatementRun, Stopped, HarmlessRead
  <1>2. QED
    BY <1>1, CallsStaySound, PTL

\* What PostgreSQL refuses in a transaction block is sent in none, whoever opened it.
THEOREM OutsideEveryBlock == Spec => []OutsideBlocks
  <1>1. CallsSound => OutsideBlocks
    <2> SUFFICES ASSUME CallsSound, NEW c \in Calls, Ran(c), NeedsAlone(StatementRun(c)),
                        ~Unmarked(StatementRun(c))
                 PROVE  call[c].place = "alone"
      BY DEF OutsideBlocks
    <2>1. WorkSound(c) /\ RunSound(c) /\ call[c].stage = "ran"
      BY DEF CallsSound, CallSound, Ran
    <2>2. OutsideFound(call[c].prepared)
      BY <2>1 DEF WorkSound, Sound
    <2>3. call[c].prepared.route \notin {"read", "rollback"} /\ call[c].prepared.found.outside
      BY <2>2 DEF OutsideFound, StatementRun
    <2>4. QED
      BY <2>1, <2>3 DEF RunSound, HandleRefused, PlaceOf
  <1>2. QED
    BY <1>1, CallsStaySound, PTL

\* What a call reads, changes or takes down with it is in the served schema.
THEOREM OnlyServedSchema == Spec => []ServedSchemaOnly
  <1>1. CallsSound => ServedSchemaOnly
    <2> SUFFICES ASSUME CallsSound, NEW c \in Calls, Ran(c)
                 PROVE  /\ Named(StatementRun(c))
                        /\ Listed(StatementRun(c)) =>
                              OutsideServed(call[c].dropped \intersect call[c].present) = {}
      BY DEF ServedSchemaOnly, Named
    <2>1. WorkSound(c) /\ ListingSound(c) /\ RunSound(c) /\ call[c].stage = "ran"
      BY DEF CallsSound, CallSound, Ran
    <2>2. Named(StatementRun(c)) /\ CascadeFound(call[c].prepared)
      BY <2>1 DEF WorkSound, Sound, StatementRun
    <2>3. ASSUME Listed(StatementRun(c))
          PROVE  OutsideServed(call[c].dropped \intersect call[c].present) = {}
      <3>1. CASE ~Cascades(StatementRun(c))
        BY <2>1, <3>1 DEF RunSound, StatementRun, OutsideServed
      <3>2. CASE Cascades(StatementRun(c))
        <4>1. call[c].listed = call[c].present
          BY <2>1, <2>2, <2>3, <3>2 DEF CascadeFound, ListingSound, StatementRun
        <4>2. OutsideServed(call[c].present) = {}
          BY <2>1, <4>1 DEF ListingSound, ListingRefused
        <4>3. QED
          BY <4>2 DEF OutsideServed
      <3>3. QED
        BY <3>1, <3>2
    <2>4. QED
      BY <2>2, <2>3
  <1>2. QED
    BY <1>1, CallsStaySound, PTL

\* Where the classifier's test of a condition decides those without a `not`, what is
\* dropped, emptied or overwritten in every row was agreed to.
THEOREM LossIsAgreedTo ==
    ASSUME ConditionsDecided
    PROVE  Spec => []LossNeedsConsent
  <1>1. CallsSound => LossNeedsConsent
    <2> SUFFICES ASSUME CallsSound, NEW c \in Calls, Ran(c), Loses(StatementRun(c)),
                        Decided(StatementRun(c))
                 PROVE  call[c].verdict \in Confirmed \/ Stopped(call[c].place) # {}
      BY DEF LossNeedsConsent, Confirmed
    <2>1. WorkSound(c) /\ ClearedSound(c) /\ RunSound(c) /\ call[c].stage = "ran"
      BY DEF CallsSound, CallSound, Ran
    <2>2. LossFound(call[c].prepared)
      BY <2>1 DEF WorkSound, Sound
    <2>3. CASE call[c].prepared.route \in {"read", "rollback"}
      <3>1. call[c].place \in {"read only", "rolled back"}
        BY <2>1, <2>3 DEF RunSound, PlaceOf
      <3>2. QED
        BY <3>1 DEF Stopped
    <2>4. CASE call[c].prepared.route \in {"execute", "maintain"}
                 /\ call[c].prepared.found.destructive
      BY <2>1, <2>4 DEF ClearedSound, Destroys
    <2>5. QED
      BY <2>2, <2>3, <2>4, ConditionsDecided DEF LossFound, StatementRun
  <1>2. QED
    BY <1>1, CallsStaySound, PTL

-------------------------------------------------------------------------------
(* The gate                                                                *)

\* The process started when `p` was sealed.
Reborn(p) == \E i \in 2..Len(starts) : starts[i] = p.issuedAt

\* Nothing more can be had for `p`: it is too old, of an earlier process, or in the ledger
\* for as long as it could be of use.
Done(p) ==
    \/ now - p.issuedAt > Ttl
    \/ p.issuedAt < gate.startedAt
    \/ Reborn(p)
    \/ \E entry \in gate.consumed : entry.nonce = p.nonce /\ entry.at >= p.issuedAt

ByPrompt(c) == call[c].verdict = "confirmed_elicitation"

Clocked ==
    /\ now \in Nat
    /\ starts \in Seq(Nat) /\ Len(starts) >= 1
    /\ DOMAIN gate = {"consumed", "startedAt", "key"}
    /\ gate.startedAt \in Nat
    /\ \A entry \in gate.consumed : entry.at \in Nat
    /\ \A p \in sent : p.issuedAt \in Nat /\ p.issuedAt <= now

Answerable(c) ==
    /\ call[c].answer \in {"accepted", "declined", "missing"}
    /\ call[c].pending \in sent \union {None}

\* What an answer to the prompt has cleared was shown to this principal and is done with.
AnsweredOnce(c) ==
    ByPrompt(c) =>
        /\ call[c].pending \in sent
        /\ call[c].pending.principal = call[c].principal
        /\ Done(call[c].pending)
NotShared(c, d) ==
    c # d /\ ByPrompt(c) /\ ByPrompt(d) /\ call[c].pending = call[d].pending =>
        Reborn(call[c].pending)

GateSound ==
    /\ Clocked
    /\ Shaped
    /\ \A c \in Calls : Answerable(c) /\ AnsweredOnce(c)
    /\ \A c, d \in Calls : NotShared(c, d)

\* A process that starts has sealed nothing.
LEMMA GateStarts == Init => GateSound
  <1> SUFFICES ASSUME Init
               PROVE  GateSound
    OBVIOUS
  <1>1. /\ now = 0 /\ starts = <<0>> /\ sent = {}
        /\ gate = [consumed |-> {}, startedAt |-> 0, key |-> IF KeyFile THEN 0 ELSE 1]
    BY DEF Init, Gate!NewGate
  <1>2. Clocked
    BY <1>1 DEF Clocked
  <1>3. DOMAIN call = Calls /\ \A c \in Calls : call[c] = Idle
    BY DEF Init
  <1>4. \A c \in Calls : ~ByPrompt(c) /\ Answerable(c)
    <2>1. Idle.verdict # "confirmed_elicitation" /\ Idle.answer = "missing"
      BY ToolsAssumption, IdleIs DEF Idle
    <2>2. QED
      BY <1>3, <2>1, IdleIs DEF ByPrompt, Answerable
  <1>5. QED
    BY <1>2, <1>3, <1>4, IdleIs DEF GateSound, Shaped, AnsweredOnce, NotShared

\* The gate's word (confirm.rs): it says "confirmed by the prompt" only of a confirmation
\* that opens, is this principal's and of this process, and is not in the ledger; then it
\* is.  Nothing else adds to the ledger, and only what is too old leaves it.
LEMMA CheckIs ==
    ASSUME NEW g, DOMAIN g = {"consumed", "startedAt", "key"}, NEW t, NEW request,
           request.answer \in {"accepted", "declined", "missing"}
    PROVE  LET said == Gate!Check(g, request, t, None)
               p == request.pending
           IN  /\ \/ said.gate = g
                  \/ said.gate = [g EXCEPT !.consumed = Gate!Unexpired(g.consumed, t)]
                  \/ /\ said.verdict = "confirmed_elicitation"
                     /\ said.gate = [g EXCEPT !.consumed = Gate!Unexpired(g.consumed, t)
                                          \union {[nonce |-> p.nonce, at |-> t]}]
               /\ said.verdict = "confirmed_elicitation" =>
                     /\ p # None /\ Gate!Opens(g, p, t)
                     /\ Gate!Matches(g, p, request.statement, request.principal)
                     /\ ~Gate!Spent(Gate!Unexpired(g.consumed, t), p.nonce)
                     /\ said.gate = [g EXCEPT !.consumed = Gate!Unexpired(g.consumed, t)
                                          \union {[nonce |-> p.nonce, at |-> t]}]
  <1> DEFINE p == request.pending
             spent == Gate!Consume(g, p.nonce, t)
             kept == [g EXCEPT !.consumed = Gate!Unexpired(g.consumed, t)]
             added == [g EXCEPT !.consumed = Gate!Unexpired(g.consumed, t)
                                   \union {[nonce |-> p.nonce, at |-> t]}]
             said == Gate!Check(g, request, t, None)
  <1>1. \/ Gate!Spent(Gate!Unexpired(g.consumed, t), p.nonce) /\ ~spent.ok /\ spent.gate = kept
        \/ ~Gate!Spent(Gate!Unexpired(g.consumed, t), p.nonce) /\ spent.ok /\ spent.gate = added
    BY DEF Gate!Consume, Gate!ConsumeUnchecked
  <1>2. \/ said.verdict # "confirmed_elicitation" /\ said.gate = g
        \/ /\ said.verdict = IF spent.ok THEN "confirmed_elicitation" ELSE "required"
           /\ said.gate = spent.gate
           /\ p # None /\ Gate!Opens(g, p, t)
           /\ Gate!Matches(g, p, request.statement, request.principal)
    BY DEF Gate!Check
  <1> HIDE DEF said, spent, kept, added, p
  <1>3. QED
    BY <1>1, <1>2 DEF said, kept, added, p

\* What has been answered stays answered: the clock goes on, the ledger loses only what is
\* too old, and a process that starts again is of a later time.
LEMMA DoneStays ==
    ASSUME Clocked, NEW p \in sent, Done(p), now' \in Nat, now <= now',
           starts' = starts, gate'.startedAt = gate.startedAt,
           \A entry \in gate.consumed : now' - entry.at > Ttl \/ entry \in gate'.consumed
    PROVE  Done(p)'
  <1>1. CASE now - p.issuedAt > Ttl
    BY <1>1, ToolsAssumption DEF Done, Clocked
  <1>2. CASE p.issuedAt < gate.startedAt \/ Reborn(p)
    BY <1>2 DEF Done, Reborn
  <1>3. ASSUME NEW entry \in gate.consumed, entry.nonce = p.nonce, entry.at >= p.issuedAt
        PROVE  Done(p)'
    <2>1. entry.at \in Nat /\ p.issuedAt \in Nat
      BY DEF Clocked
    <2>2. CASE now' - entry.at > Ttl
      BY <1>3, <2>1, <2>2, ToolsAssumption DEF Done
    <2>3. CASE entry \in gate'.consumed
      BY <1>3, <2>3 DEF Done
    <2>4. QED
      BY <2>2, <2>3
  <1>4. QED
    BY <1>1, <1>2, <1>3 DEF Done

\* A step that leaves what the calls have been told.
LEMMA AnswersStay ==
    ASSUME GateSound, Clocked', Shaped', sent \subseteq sent',
           \A p \in sent : (Done(p) => Done(p)') /\ (Reborn(p) => Reborn(p)'),
           \A c \in Calls :
              /\ Answerable(c)'
              /\ ByPrompt(c)' => /\ ByPrompt(c)
                                 /\ call'[c].pending = call[c].pending
                                 /\ call'[c].principal = call[c].principal
    PROVE  GateSound'
  <1>1. \A c \in Calls : AnsweredOnce(c)'
    BY DEF GateSound, AnsweredOnce
  <1>2. \A c, d \in Calls : NotShared(c, d)'
    <2> SUFFICES ASSUME NEW c \in Calls, NEW d \in Calls, c # d, ByPrompt(c)', ByPrompt(d)',
                        call'[c].pending = call'[d].pending
                 PROVE  Reborn(call[c].pending)'
      BY DEF NotShared
    <2>1. NotShared(c, d) /\ AnsweredOnce(c) /\ ByPrompt(c) /\ ByPrompt(d)
      BY DEF GateSound
    <2>2. call[c].pending = call[d].pending
      OBVIOUS
    <2>3. QED
      BY <2>1, <2>2 DEF NotShared, AnsweredOnce
  <1>3. QED
    BY <1>1, <1>2 DEF GateSound

\* A call moves on without the gate.
LEMMA WithoutTheGate ==
    ASSUME GateSound, UNCHANGED <<gate, now, starts, sent>>,
           NEW c \in Calls, NEW state, DOMAIN state = Fields, Becomes(c, state),
           state.answer \in {"accepted", "declined", "missing"},
           state.pending \in sent \union {None},
           \/ state.verdict # "confirmed_elicitation"
           \/ /\ state.verdict = call[c].verdict
              /\ state.pending = call[c].pending /\ state.principal = call[c].principal
    PROVE  GateSound'
  <1>1. /\ Shaped' /\ call'[c] = state
        /\ \A d \in Calls : d # c => call'[d] = call[d]
    BY OthersStay DEF GateSound
  <1>2. Clocked'
    BY DEF GateSound, Clocked
  <1>3. \A p \in sent : (Done(p) => Done(p)') /\ (Reborn(p) => Reborn(p)')
    BY DEF Done, Reborn
  <1>4. ASSUME NEW d \in Calls
        PROVE  /\ Answerable(d)'
               /\ ByPrompt(d)' => /\ ByPrompt(d)
                                  /\ call'[d].pending = call[d].pending
                                  /\ call'[d].principal = call[d].principal
    <2>1. Answerable(d)
      BY DEF GateSound
    <2>2. CASE d = c
      BY <1>1, <2>2 DEF Answerable, ByPrompt
    <2>3. CASE d # c
      BY <1>1, <2>1, <2>3 DEF Answerable, ByPrompt
    <2>4. QED
      BY <2>2, <2>3
  <1>5. QED
    BY <1>1, <1>2, <1>3, <1>4, AnswersStay

\* Only the gate answers a prompt: no other step of a call makes one confirmed.
LEMMA CallsLeaveTheGate ==
    ASSUME GateSound, CallsSound, NEW c \in Calls,
           \/ \E r \in menu, p \in Principals, confirm \in BOOLEAN, elicits \in BOOLEAN :
                 Arrive(c, r, p, confirm, elicits)
           \/ List(c) \/ Ungated(c) \/ RunRefused(c) \/ Run(c)
    PROVE  GateSound'
  <1>1. Answerable(c) /\ DOMAIN call[c] = Fields
    BY DEF GateSound, Shaped
  <1>2. ASSUME NEW r \in menu, NEW p \in Principals, NEW confirm \in BOOLEAN,
               NEW elicits \in BOOLEAN, Arrive(c, r, p, confirm, elicits)
        PROVE  GateSound'
    <2>1. PICK dryRun, handle \in BOOLEAN, answer \in {"accepted", "declined", "missing"},
               pending \in sent \union {None} :
               Becomes(c, Arrived(r, p, confirm, elicits, dryRun, handle, answer, pending))
      BY <1>2 DEF Arrive
    <2>2. PICK state : state = Arrived(r, p, confirm, elicits, dryRun, handle, answer, pending)
      OBVIOUS
    <2>3. r \in Catalogue \union Retried
      BY DEF CallsSound
    <2>4. /\ DOMAIN state = Fields /\ state.answer = answer /\ state.pending = pending
          /\ state.verdict = None
      BY <2>2, <2>3, ArrivedIs
    <2>5. UNCHANGED <<gate, now, starts, sent>>
      BY <1>2 DEF Arrive
    <2>6. QED
      BY <2>1, <2>2, <2>4, <2>5, ToolsAssumption, WithoutTheGate
  <1>3. ASSUME List(c)
        PROVE  GateSound'
    <2>1. PICK listed, stage :
             Becomes(c, [call[c] EXCEPT !.listed = listed, !.present = dependents,
                                        !.stage = stage])
      BY <1>3 DEF List
    <2>2. PICK state : state = [call[c] EXCEPT !.listed = listed, !.present = dependents,
                                               !.stage = stage]
      OBVIOUS
    <2>3. /\ DOMAIN state = Fields /\ state.answer = call[c].answer
          /\ state.pending = call[c].pending /\ state.verdict = call[c].verdict
          /\ state.principal = call[c].principal
      BY <1>1, <2>2 DEF Fields
    <2>4. UNCHANGED <<gate, now, starts, sent>>
      BY <1>3 DEF List
    <2>5. QED
      BY <1>1, <2>1, <2>2, <2>3, <2>4, WithoutTheGate DEF Answerable
  <1>4. ASSUME Ungated(c)
        PROVE  GateSound'
    <2>1. PICK state : state = [call[c] EXCEPT !.stage = "cleared", !.verdict = "allowed"]
      OBVIOUS
    <2>2. /\ DOMAIN state = Fields /\ state.answer = call[c].answer
          /\ state.pending = call[c].pending /\ state.verdict = "allowed"
      BY <1>1, <2>1 DEF Fields
    <2>3. Becomes(c, state) /\ UNCHANGED <<gate, now, starts, sent>>
      BY <1>4, <2>1 DEF Ungated
    <2>4. QED
      BY <1>1, <2>2, <2>3, WithoutTheGate DEF Answerable
  <1>5. ASSUME RunRefused(c)
        PROVE  GateSound'
    <2>1. PICK state : state = [call[c] EXCEPT !.stage = "refused"]
      OBVIOUS
    <2>2. /\ DOMAIN state = Fields /\ state.answer = call[c].answer
          /\ state.pending = call[c].pending /\ state.verdict = call[c].verdict
          /\ state.principal = call[c].principal
      BY <1>1, <2>1 DEF Fields
    <2>3. Becomes(c, state) /\ UNCHANGED <<gate, now, starts, sent>>
      BY <1>5, <2>1 DEF RunRefused
    <2>4. QED
      BY <1>1, <2>2, <2>3, WithoutTheGate DEF Answerable
  <1>6. ASSUME Run(c)
        PROVE  GateSound'
    <2>1. PICK gone : gone = IF Cascades(call[c].prepared.stmt) THEN dependents ELSE {}
      OBVIOUS
    <2>2. PICK state : state = [call[c] EXCEPT !.stage = "ran", !.place = PlaceOf(c),
                                               !.dropped = gone]
      OBVIOUS
    <2>3. /\ DOMAIN state = Fields /\ state.answer = call[c].answer
          /\ state.pending = call[c].pending /\ state.verdict = call[c].verdict
          /\ state.principal = call[c].principal
      BY <1>1, <2>2 DEF Fields
    <2>4. Becomes(c, state) /\ UNCHANGED <<gate, now, starts, sent>>
      BY <1>6, <2>1, <2>2 DEF Run
    <2>5. QED
      BY <1>1, <2>3, <2>4, WithoutTheGate DEF Answerable
  <1>7. QED
    BY <1>2, <1>3, <1>4, <1>5, <1>6

\* The gate decides on a call.  What it confirms by the prompt was not confirmed before,
\* but in the second a process starts in.
LEMMA GateDecides ==
    ASSUME GateSound, NEW c \in Calls, Gated(c)
    PROVE  GateSound'
  <1>0. PICK p : p = call[c].pending
    OBVIOUS
  <1> DEFINE said == Said(c)
             verdict == said.verdict
             state == [call[c] EXCEPT !.verdict = verdict, !.stage = StageAfter(verdict)]
             left == Gate!Unexpired(gate.consumed, now)
             entered == [nonce |-> p.nonce, at |-> now]
  <1>1. /\ Becomes(c, state)
        /\ gate' = said.gate /\ now' = now /\ starts' = starts
        /\ sent' = IF verdict = "ask" THEN sent \union {Sealed(c)} ELSE sent
    BY GatedIs
  <1>2. /\ \/ said.gate = gate
           \/ said.gate = [gate EXCEPT !.consumed = left]
           \/ said.gate = [gate EXCEPT !.consumed = left \union {entered}]
        /\ verdict = "confirmed_elicitation" =>
              /\ p # None /\ Gate!Opens(gate, p, now)
              /\ Gate!Matches(gate, p, AskedStatement(c), call[c].principal)
              /\ ~Gate!Spent(left, p.nonce)
              /\ said.gate = [gate EXCEPT !.consumed = left \union {entered}]
    <2>1. /\ DOMAIN gate = {"consumed", "startedAt", "key"}
          /\ Asked(c).answer \in {"accepted", "declined", "missing"}
          /\ Asked(c).pending = p /\ Asked(c).principal = call[c].principal
          /\ Asked(c).statement = AskedStatement(c)
      BY <1>0 DEF GateSound, Clocked, Answerable, Asked
    <2>2. QED
      BY <2>1, CheckIs DEF Said
  <1>3. Clocked /\ Shaped /\ Answerable(c)
    BY DEF GateSound
  <1>4. /\ DOMAIN state = Fields /\ state.verdict = verdict /\ state.answer = call[c].answer
        /\ state.pending = p /\ state.principal = call[c].principal
    BY <1>0, <1>3 DEF Fields, Shaped
  <1>5. Sealed(c).issuedAt = now
    BY DEF Sealed, Gate!Seal
  <1>6. left \subseteq gate.consumed
        /\ \A entry \in gate.consumed : now - entry.at > Ttl \/ entry \in left
    BY DEF Gate!Unexpired, Gate!Stale
  <1> HIDE DEF state, said, verdict, left
  <1>7. /\ call'[c] = state /\ Shaped' /\ \A d \in Calls : d # c => call'[d] = call[d]
    BY <1>1, <1>3, <1>4, OthersStay
  <1>8. /\ DOMAIN gate' = {"consumed", "startedAt", "key"}
        /\ gate'.startedAt = gate.startedAt
        /\ gate'.consumed \subseteq gate.consumed \union {entered}
        /\ left \subseteq gate'.consumed
        /\ verdict = "confirmed_elicitation" => entered \in gate'.consumed
    BY <1>1, <1>2, <1>3, <1>6 DEF Clocked
  <1>9. entered.nonce = p.nonce /\ entered.at = now
    OBVIOUS
  <1> HIDE DEF entered
  <1>10. sent \subseteq sent' /\ \A q \in sent' : q \in sent \/ q.issuedAt = now
    BY <1>1, <1>5
  <1>11. Clocked'
    <2>1. \A entry \in gate'.consumed : entry.at \in Nat
      BY <1>3, <1>8, <1>9 DEF Clocked
    <2>2. \A q \in sent' : q.issuedAt \in Nat /\ q.issuedAt <= now
      BY <1>3, <1>10 DEF Clocked
    <2>3. QED
      BY <1>1, <1>3, <1>8, <2>1, <2>2 DEF Clocked
  <1>12. \A q \in sent : (Done(q) => Done(q)') /\ (Reborn(q) => Reborn(q)')
    <2>1. \A entry \in gate.consumed : now' - entry.at > Ttl \/ entry \in gate'.consumed
      BY <1>1, <1>6, <1>8
    <2>2. now' \in Nat /\ now <= now'
      BY <1>1, <1>3 DEF Clocked
    <2>3. QED
      BY <1>1, <1>3, <1>8, <2>1, <2>2, DoneStays DEF Reborn
  <1>13. ASSUME NEW d \in Calls, d # c
         PROVE  /\ Answerable(d)' /\ ByPrompt(d)' = ByPrompt(d)
                /\ call'[d] = call[d]
    <2>1. Answerable(d) /\ call'[d] = call[d]
      BY <1>7, <1>13 DEF GateSound
    <2>2. QED
      BY <1>10, <2>1 DEF Answerable, ByPrompt
  <1>14. Answerable(c)'
    BY <1>0, <1>3, <1>4, <1>7, <1>10 DEF Answerable
  <1>15. CASE verdict # "confirmed_elicitation"
    <2>1. ~ByPrompt(c)'
      BY <1>4, <1>7, <1>15 DEF ByPrompt
    <2>2. QED
      BY <1>7, <1>10, <1>11, <1>12, <1>13, <1>14, <2>1, AnswersStay
  <1>16. CASE verdict = "confirmed_elicitation"
    <2>1. /\ p \in sent /\ p.principal = call[c].principal
          /\ p.issuedAt \in Nat /\ p.issuedAt <= now
          /\ now - p.issuedAt <= Ttl /\ ~(p.issuedAt < gate.startedAt)
          /\ ~Gate!Spent(left, p.nonce)
      BY <1>0, <1>2, <1>3, <1>16 DEF Answerable, Clocked, Gate!Opens, Gate!Matches
    <2>2. Done(p)'
      <3>1. entered \in gate'.consumed /\ entered.nonce = p.nonce /\ entered.at >= p.issuedAt
        BY <1>3, <1>8, <1>9, <1>16, <2>1 DEF Clocked
      <3>2. QED
        BY <3>1 DEF Done
    <2>3. Done(p) => Reborn(p)
      <3>1. ASSUME NEW entry \in gate.consumed, entry.nonce = p.nonce, entry.at >= p.issuedAt
            PROVE  FALSE
        <4>1. entry.at \in Nat
          BY <1>3 DEF Clocked
        <4>2. entry \in left
          BY <1>3, <1>6, <2>1, <3>1, <4>1, ToolsAssumption DEF Clocked
        <4>3. QED
          BY <2>1, <3>1, <4>2 DEF Gate!Spent
      <3>2. ~(now - p.issuedAt > Ttl)
        BY <1>3, <2>1, ToolsAssumption DEF Clocked
      <3>3. QED
        BY <2>1, <3>1, <3>2 DEF Done
    <2>4. AnsweredOnce(c)'
      BY <1>4, <1>7, <1>10, <2>1, <2>2 DEF AnsweredOnce
    <2>5. ASSUME NEW d \in Calls, d # c
          PROVE  AnsweredOnce(d)'
      <3>1. AnsweredOnce(d)
        BY DEF GateSound
      <3>2. QED
        BY <1>10, <1>12, <1>13, <2>5, <3>1 DEF AnsweredOnce
    <2>6. ASSUME NEW d \in Calls, d # c, ByPrompt(d)', call'[d].pending = p
          PROVE  Reborn(p)'
      <3>1. ByPrompt(d) /\ call[d].pending = p
        BY <1>13, <2>6
      <3>2. Done(p)
        BY <3>1 DEF GateSound, AnsweredOnce
      <3>3. QED
        BY <1>12, <2>1, <2>3, <3>2
    <2>7. ASSUME NEW d \in Calls, NEW e \in Calls
          PROVE  NotShared(d, e)'
      <3>1. CASE d = c
        BY <1>4, <1>7, <2>6, <3>1 DEF NotShared
      <3>2. CASE e = c
        BY <1>4, <1>7, <2>6, <3>2 DEF NotShared
      <3>3. CASE d # c /\ e # c
        <4>1. NotShared(d, e) /\ AnsweredOnce(d)
          BY DEF GateSound
        <4>2. call'[d] = call[d] /\ call'[e] = call[e]
          BY <1>13, <3>3
        <4>3. QED
          BY <1>12, <4>1, <4>2 DEF NotShared, AnsweredOnce, ByPrompt
      <3>4. QED
        BY <3>1, <3>2, <3>3
    <2>8. \A d \in Calls : Answerable(d)' /\ AnsweredOnce(d)'
      BY <1>13, <1>14, <2>4, <2>5
    <2>9. QED
      BY <1>7, <1>11, <2>7, <2>8 DEF GateSound
  <1>17. QED
    BY <1>15, <1>16

\* Time alone confirms nothing, and what is done with stays so.
LEMMA NobodyAnswers ==
    ASSUME GateSound, UNCHANGED <<gate, starts, sent, call>>, now' \in Nat, now <= now'
    PROVE  GateSound'
  <1>1. Clocked /\ Shaped
    BY DEF GateSound
  <1>2. Clocked'
    BY <1>1 DEF Clocked
  <1>3. Shaped'
    BY <1>1 DEF Shaped
  <1>4. \A p \in sent : (Done(p) => Done(p)') /\ (Reborn(p) => Reborn(p)')
    BY <1>1, DoneStays DEF Reborn
  <1>5. \A c \in Calls : /\ Answerable(c)' /\ ByPrompt(c)' = ByPrompt(c)
                         /\ call'[c] = call[c]
    BY DEF GateSound, Answerable, ByPrompt
  <1>6. QED
    BY <1>2, <1>3, <1>4, <1>5, AnswersStay

\* A restart empties the ledger, and refuses every prompt sealed before it.
LEMMA RestartForgets ==
    ASSUME GateSound, Restart
    PROVE  GateSound'
  <1>1. Clocked /\ Shaped
    BY DEF GateSound
  <1>2. /\ now' = now /\ sent' = sent /\ starts' = Append(starts, now)
        /\ gate' = [consumed |-> {}, startedAt |-> now,
                    key |-> IF KeyFile THEN 0 ELSE Len(starts) + 1]
    BY DEF Restart, Gate!NewGate
  <1>3. /\ starts' \in Seq(Nat) /\ Len(starts') = Len(starts) + 1
        /\ starts'[Len(starts) + 1] = now
        /\ \A i \in 1..Len(starts) : starts'[i] = starts[i]
    BY <1>1, <1>2 DEF Clocked
  <1>4. Clocked'
    BY <1>1, <1>2, <1>3 DEF Clocked
  <1>5. /\ DOMAIN call' = Calls
        /\ \A c \in Calls : \/ call'[c] = call[c]
                            \/ call'[c] = [call[c] EXCEPT !.stage = "lost"]
    BY DEF Restart
  <1>6. \A c \in Calls :
            /\ DOMAIN call'[c] = Fields /\ call'[c].verdict = call[c].verdict
            /\ call'[c].pending = call[c].pending /\ call'[c].principal = call[c].principal
            /\ call'[c].answer = call[c].answer
    BY <1>1, <1>5 DEF Shaped, Fields
  <1>7. Shaped'
    BY <1>5, <1>6 DEF Shaped
  <1>8. ASSUME NEW p \in sent
        PROVE  Done(p)' /\ (Reborn(p) => Reborn(p)')
    <2>1. p.issuedAt \in Nat /\ p.issuedAt <= now /\ Len(starts) \in Nat /\ Len(starts) >= 1
          /\ now \in Nat
      BY <1>1 DEF Clocked
    <2>2. Reborn(p) => Reborn(p)'
      BY <1>3, <2>1 DEF Reborn
    <2>3. CASE p.issuedAt < now
      <3>1. gate'.startedAt = now
        BY <1>2
      <3>2. QED
        BY <2>2, <2>3, <3>1 DEF Done
    <2>4. CASE p.issuedAt = now
      <3>1. Len(starts) + 1 \in 2..Len(starts')
        BY <1>3, <2>1
      <3>2. Reborn(p)'
        BY <1>3, <2>4, <3>1 DEF Reborn
      <3>3. QED
        BY <3>2 DEF Done
    <2>5. QED
      BY <2>1, <2>2, <2>3, <2>4
  <1>9. \A c \in Calls : Answerable(c)' /\ ByPrompt(c)' = ByPrompt(c)
    BY <1>2, <1>6 DEF GateSound, Answerable, ByPrompt
  <1>10. QED
    BY <1>2, <1>4, <1>6, <1>7, <1>8, <1>9, AnswersStay

\* What was confirmed by a prompt is done with: it is too old, of an earlier process, or in
\* the ledger of the gate (confirm.rs) for as long as it would open.
THEOREM GateStaysSound == Spec => []GateSound
  <1>1. ASSUME CallsSound, GateSound, Next
        PROVE  GateSound'
    <2>1. ASSUME NEW c \in Calls,
                 \/ \E r \in menu, p \in Principals, confirm \in BOOLEAN, elicits \in BOOLEAN :
                       Arrive(c, r, p, confirm, elicits)
                 \/ List(c) \/ Ungated(c) \/ RunRefused(c) \/ Run(c)
          PROVE  GateSound'
      BY <1>1, <2>1, CallsLeaveTheGate
    <2>2. ASSUME NEW c \in Calls, Gated(c)
          PROVE  GateSound'
      BY <1>1, <2>2, GateDecides
    <2>3. ASSUME NEW d, Depend(d)
          PROVE  GateSound'
      BY <1>1, <2>3, NobodyAnswers DEF Depend, GateSound, Clocked
    <2>4. CASE Tick
      BY <1>1, <2>4, NobodyAnswers DEF Tick, GateSound, Clocked
    <2>5. CASE Restart
      BY <1>1, <2>5, RestartForgets
    <2>6. QED
      BY <1>1, <2>1, <2>2, <2>3, <2>4, <2>5 DEF Next
  <1>2. GateSound /\ UNCHANGED vars => GateSound'
    BY NobodyAnswers DEF vars, GateSound, Clocked
  <1>3. QED
    BY <1>1, <1>2, GateStarts, CallsStaySound, PTL DEF Spec

\* A prompt that was agreed to lets one statement through, for the principal it was shown
\* to (confirm.rs), however often it is sent again and whatever the clock and the process
\* do, but for a confirmation of the second a process starts in.
THEOREM PromptsAreSpentOnce == Spec => []ConfirmedOnce
  <1>1. GateSound => ConfirmedOnce
    BY DEF GateSound, ConfirmedOnce, AnsweredOnce, NotShared, ByPrompt, Reborn
  <1>2. QED
    BY <1>1, GateStaysSound, PTL
===============================================================================
