----------------------------- MODULE Warehouse -----------------------------
(***************************************************************************)
(* What the sink readers predict, stated without them: the tables and      *)
(* materialized views a warehouse has after it executed the DDL files.     *)
(* The warehouse is not in src/; this is what ClickHouse, Snowflake and    *)
(* BigQuery document of the statements the readers understand.             *)
(*                                                                         *)
(* A warehouse is [tables, views], functions from qualified names.  A      *)
(* table is [cols, listed, topics]: its columns [name, pos] in order,      *)
(* whether the files list them, the topics of its Kafka engine.  A view is *)
(* [target, refreshable, columns, pos].                                    *)
(***************************************************************************)
EXTENDS Schemas

CONSTANT Database       \* the segment unqualified names are resolved in

EmptyWarehouse == [tables |-> [q \in {} |-> {}], views |-> [q \in {} |-> {}]]

Place(n) == IF Len(n) = 1 THEN <<Database>> \o n ELSE n
Places(ns) == {Place(n) : n \in ToSet(ns)}

Without(f, qs) == [q \in DOMAIN f \ qs |-> f[q]]
Put(f, q, x) == [p \in DOMAIN f \cup {q} |-> IF p = q THEN x ELSE f[p]]

NamesIn(cols) == {c.name : c \in ToSet(cols)}

(* No column list gives two columns one name. *)
NamesOnce(items) ==
    \A j, k \in {i \in DOMAIN items : items[i].kind = "column"} :
        items[j].name = items[k].name => j = k

(* The columns of a column list, all of them at the statement. *)
ColumnsOf(items, at) ==
    LET cols[k \in 0..Len(items)] ==
            IF k = 0 THEN <<>>
            ELSE IF items[k].kind # "column" THEN cols[k - 1]
            ELSE Append(cols[k - 1], [name |-> items[k].name, pos |-> at])
    IN  cols[Len(items)]

ColumnAt(cols, n) == SelectInSeq(cols, LAMBDA c : c.name = n)

-----------------------------------------------------------------------------
(* CREATE TABLE.  guard is "", "modified" (EXTERNAL, TRANSIENT...),        *)
(* "replace" or "unless" (IF NOT EXISTS); form "columns", or "query" for a *)
(* table whose columns are those of a query or another table.              *)

CreateLegal(w, st) ==
    LET taken == CASE st.guard \in {"", "modified"} -> DOMAIN w.tables \cup DOMAIN w.views
                   [] st.guard = "replace" -> DOMAIN w.views
                   [] st.guard = "unless" -> {}
    IN  /\ Place(st.name) \notin taken
        /\ st.form = "columns" => NamesOnce(st.body[1])

NewTable(st, at) ==
    [cols |-> IF st.form = "columns" THEN ColumnsOf(st.body[1], at) ELSE <<>>,
     listed |-> st.form = "columns", topics |-> st.topics]

CreateDone(w, st, at) ==
    IF st.guard = "unless" /\ Place(st.name) \in DOMAIN w.tables \cup DOMAIN w.views THEN w
    ELSE [w EXCEPT !.tables = Put(@, Place(st.name), NewTable(st, at))]

-----------------------------------------------------------------------------
(* ALTER TABLE: its clauses, from left to right, one for each column that  *)
(* a clause names.  lenient is IF [NOT] EXISTS; ADD says where: at the     *)
(* end, first, or after a column.                                          *)

ClauseLegal(cols, a) ==
    CASE a.op = "add" ->
            /\ a.lenient \/ a.col \notin NamesIn(cols)
            /\ a.where.kind = "after" => a.where.col \in NamesIn(cols)
      [] a.op = "drop" -> a.lenient \/ a.col \in NamesIn(cols)
      [] a.op = "rename" -> a.col \in NamesIn(cols) /\ a.to \notin NamesIn(cols)

Inserted(cols, where, column) ==
    CASE column.name \in NamesIn(cols) -> cols
      [] column.name \notin NamesIn(cols) /\ where.kind = "end" -> Append(cols, column)
      [] column.name \notin NamesIn(cols) /\ where.kind = "first" -> InsertAt(cols, 1, column)
      [] column.name \notin NamesIn(cols) /\ where.kind = "after" ->
            InsertAt(cols, ColumnAt(cols, where.col) + 1, column)

ClauseDone(cols, a, at) ==
    CASE a.op = "add" -> Inserted(cols, a.where, [name |-> a.col, pos |-> at])
      [] a.op = "drop" ->
            IF ColumnAt(cols, a.col) = 0 THEN cols ELSE RemoveAt(cols, ColumnAt(cols, a.col))
      [] a.op = "rename" -> [cols EXCEPT ![ColumnAt(cols, a.col)].name = a.to]

(* c is <<>> once a clause is refused. *)
Clause(c, a, at) ==
    IF c # <<>> /\ ClauseLegal(c[1], a) THEN <<ClauseDone(c[1], a, at)>> ELSE <<>>

AlteredColumns(cols, st, at) ==
    LET after[k \in 0..Len(st.actions)] ==
            IF k = 0 THEN <<cols>> ELSE Clause(after[k - 1], st.actions[k], at)
    IN  after[Len(st.actions)]

AlterLegal(w, st, at) ==
    /\ Place(st.name) \in DOMAIN w.tables
    /\ w.tables[Place(st.name)].listed => AlteredColumns(w.tables[Place(st.name)].cols, st, at) # <<>>

AlterDone(w, st, at) ==
    IF w.tables[Place(st.name)].listed
    THEN [w EXCEPT !.tables[Place(st.name)].cols = AlteredColumns(@, st, at)[1]]
    ELSE w

-----------------------------------------------------------------------------
(* RENAME TABLE a TO b, c TO d: from left to right. *)

RenameOne(c, p) ==      \* c is <<>> once a rename is refused
    IF c # <<>> /\ Place(p.from) \in DOMAIN c[1] /\ Place(p.to) \notin DOMAIN c[1]
    THEN <<Put(Without(c[1], {Place(p.from)}), Place(p.to), c[1][Place(p.from)])>>
    ELSE <<>>

RenamedTables(w, st) ==
    LET after[k \in 0..Len(st.pairs)] ==
            IF k = 0 THEN <<w.tables>> ELSE RenameOne(after[k - 1], st.pairs[k])
    IN  after[Len(st.pairs)]

Swapped(f, p, q) == [f EXCEPT ![p] = f[q], ![q] = f[p]]

-----------------------------------------------------------------------------
Legal(w, st, at) ==
    CASE st.op = "create" -> CreateLegal(w, st)
      [] st.op = "alter" -> AlterLegal(w, st, at)
      [] st.op = "drop" -> st.ifExists \/ Places(st.names) \subseteq DOMAIN w.tables
      [] st.op = "exchange" -> {Place(st.a), Place(st.b)} \subseteq DOMAIN w.tables
      [] st.op = "rename" -> RenamedTables(w, st) # <<>>
                             /\ DOMAIN RenamedTables(w, st)[1] \cap DOMAIN w.views = {}
      [] st.op = "createview" ->
            /\ Place(st.target) \in DOMAIN w.tables
            /\ Place(st.name) \notin DOMAIN w.tables
            /\ st.guard = "" => Place(st.name) \notin DOMAIN w.views
      [] st.op = "dropview" -> st.ifExists \/ Place(st.name) \in DOMAIN w.views
      [] OTHER -> TRUE

ViewOf(st, at) ==
    [target |-> Place(st.target), refreshable |-> st.refreshable, columns |-> st.columns, pos |-> at]

Executed(w, st, at) ==
    CASE st.op = "create" -> CreateDone(w, st, at)
      [] st.op = "alter" -> AlterDone(w, st, at)
      [] st.op = "drop" -> [w EXCEPT !.tables = Without(@, Places(st.names))]
      [] st.op = "exchange" -> [w EXCEPT !.tables = Swapped(@, Place(st.a), Place(st.b))]
      [] st.op = "rename" -> [w EXCEPT !.tables = RenamedTables(w, st)[1]]
      [] st.op = "createview" ->
            IF st.guard = "unless" /\ Place(st.name) \in DOMAIN w.views THEN w
            ELSE [w EXCEPT !.views = Put(@, Place(st.name), ViewOf(st, at))]
      [] st.op = "dropview" -> [w EXCEPT !.views = Without(@, {Place(st.name)})]
      [] OTHER -> w

-----------------------------------------------------------------------------
(* What a view does wrong when it inserts: a refreshable one matches its   *)
(* target by position, a streaming one by name.                            *)
Broken(w, v) ==
    /\ v.target \in DOMAIN w.tables /\ w.tables[v.target].listed
    /\ LET cols == w.tables[v.target].cols
       IN  IF v.refreshable THEN v.columns # [k \in DOMAIN cols |-> cols[k].name]
           ELSE ~(ToSet(v.columns) \subseteq NamesIn(cols))
=============================================================================
