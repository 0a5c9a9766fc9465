----------------------------- MODULE SinkReader -----------------------------
(***************************************************************************)
(* The sink readers (internal/sink/sqlddl, and internal/sink/clickhouse as *)
(* its hook), one action per kind of statement, beside a warehouse that    *)
(* executes the same files.  Files follow each other as one sequence of    *)
(* statements: the readers keep nothing about a file but the positions.    *)
(*                                                                         *)
(* body is what the first parenthesis after the name holds, <<>> when      *)
(* there is none.  A clause that names several columns is one action for   *)
(* each.  alterTable sees those of a list in parentheses; of ADD COLUMN    *)
(* a, b the comma ends the clause, and b begins with no keyword.           *)
(***************************************************************************)
EXTENDS Rules, Warehouse

CONSTANTS
    Sink,           \* the dialect: "clickhouse", "bigquery", "snowflake" or "iceberg"
    Statements,     \* the statements DDL files are written with
    Sections,       \* the sections files have: {"up"}, or {"up", "down"}
    MaxLines        \* bound on the statements and markers that are explored

ASSUME SinkBoundsAssumption == MaxLines \in Nat /\ "up" \in Sections

VARIABLES
    line,       \* statements and markers so far, in all files
    section,    \* the section of the file; a runner executes up sections
    warehouse,
    r           \* the reader: [tables, views, crashed]

vars == <<line, section, warehouse, r>>

At == [file |-> "ddl", line |-> line]

Init ==
    /\ line = 0 /\ section = "up"
    /\ warehouse = EmptyWarehouse
    /\ r = [tables |-> <<>>, views |-> <<>>, crashed |-> FALSE]

-----------------------------------------------------------------------------
\* Mutant: a table is found by its qualified name only.
Find_FullName(tables, n) == SelectInSeq(tables, LAMBDA t : t.name = n)

(* Tables.Find: by qualified name, else the first of that last segment. *)
Find(tables, n) ==
    LET full == SelectInSeq(tables, LAMBDA t : t.name = n)
        last == SelectInSeq(tables, LAMBDA t : LastSegment(t.name) = LastSegment(n))
    IN  IF full # 0 THEN full ELSE last

Removed(tables, n) ==
    IF Find(tables, n) = 0 THEN tables ELSE RemoveAt(tables, Find(tables, n))

-----------------------------------------------------------------------------
(* Created: the first topic of a Kafka engine. *)
TopicRead(topics) == IF topics = <<>> \/ Sink # "clickhouse" THEN <<>> ELSE Head(topics)

TableRead(st, at) ==
    [sink |-> Sink, name |-> st.name, topic |-> TopicRead(st.topics),
     columns |-> ColumnsOf(st.body[1], at), pos |-> at]

\* Mutant: a table that is created again is there twice.
Creating_KeepsOld(s, st, at) ==
    CASE st.body = <<>> -> s
      [] st.body # <<>> /\ Find(s.tables, st.name) = 0 ->
            [s EXCEPT !.tables = Append(@, TableRead(st, at))]
      [] st.body # <<>> /\ Find(s.tables, st.name) # 0 /\ st.guard = "unless" -> s
      [] st.body # <<>> /\ Find(s.tables, st.name) # 0 /\ st.guard # "unless" ->
            [s EXCEPT !.tables = Append(@, TableRead(st, at))]

\* Mutant: a table that is replaced keeps its columns.
Creating_KeepsColumns(s, st, at) ==
    LET i == Find(s.tables, st.name)
    IN  CASE st.body = <<>> -> s
          [] st.body # <<>> /\ i = 0 -> [s EXCEPT !.tables = Append(@, TableRead(st, at))]
          [] st.body # <<>> /\ i # 0 /\ st.guard = "unless" -> s
          [] st.body # <<>> /\ i # 0 /\ st.guard # "unless" -> [s EXCEPT !.tables[i].pos = at]

(* createTable.  The test for IF NOT EXISTS slices the three words before  *)
(* the name; with CREATE TABLE alone there are two, and the slice panics.  *)
Creating(s, st, at) ==
    LET known == Find(s.tables, st.name) # 0
    IN  CASE st.body = <<>> -> s
          [] st.body # <<>> /\ ~known -> [s EXCEPT !.tables = Append(@, TableRead(st, at))]
          [] st.body # <<>> /\ known /\ st.guard = "unless" -> s
          [] st.body # <<>> /\ known /\ st.guard = "" -> [s EXCEPT !.crashed = TRUE]
          [] st.body # <<>> /\ known /\ st.guard \in {"modified", "replace"} ->
                [s EXCEPT !.tables = Append(Removed(@, st.name), TableRead(st, at))]

-----------------------------------------------------------------------------
\* Mutant: a column that is there already is declared again.
AddSinkColumn_Moves(cols, c, at) ==
    Append(SelectSeq(cols, LAMBDA x : x.name # c), [name |-> c, pos |-> at])

AddSinkColumn(cols, c, at) ==
    IF ColumnAt(cols, c) # 0 THEN cols ELSE Append(cols, [name |-> c, pos |-> at])

DropSinkColumn(cols, c) ==
    IF ColumnAt(cols, c) = 0 THEN cols ELSE RemoveAt(cols, ColumnAt(cols, c))

(* Wherever ADD COLUMN says, the column goes to the end; a renamed column  *)
(* keeps its position.                                                     *)
Act(cols, a, at) ==
    CASE ~a.seen -> cols
      [] a.seen /\ a.op = "add" -> AddSinkColumn(cols, a.col, at)
      [] a.seen /\ a.op = "drop" -> DropSinkColumn(cols, a.col)
      [] a.seen /\ a.op = "rename" ->
            IF ColumnAt(cols, a.col) = 0 THEN cols
            ELSE [cols EXCEPT ![ColumnAt(cols, a.col)].name = a.to]

Acted(cols, actions, at) ==
    LET after[k \in 0..Len(actions)] ==
            IF k = 0 THEN cols ELSE Act(after[k - 1], actions[k], at)
    IN  after[Len(actions)]

Altering(s, st, at) ==
    LET i == Find(s.tables, st.name)
    IN  IF i = 0 THEN s ELSE [s EXCEPT !.tables[i].columns = Acted(@, st.actions, at)]

(* DROP TABLE looks at one word, to which a comma belongs. *)
Dropping(s, st) ==
    IF Len(st.names) = 1 THEN [s EXCEPT !.tables = Removed(@, st.names[1])] ELSE s

-----------------------------------------------------------------------------
(* What the ClickHouse hook claims. *)

Exchanging(s, st) ==
    LET i == Find(s.tables, st.a)
        j == Find(s.tables, st.b)
    IN  IF i = 0 \/ j = 0 THEN s
        ELSE [s EXCEPT !.tables[i].name = s.tables[j].name, !.tables[j].name = s.tables[i].name]

RenamePair(tables, p) ==
    IF Find(tables, p.from) = 0 THEN tables
    ELSE [tables EXCEPT ![Find(tables, p.from)].name = p.to]

Renamed(tables, pairs) ==
    LET after[k \in 0..Len(pairs)] ==
            IF k = 0 THEN tables ELSE RenamePair(after[k - 1], pairs[k])
    IN  after[Len(pairs)]

Renaming(s, st) == [s EXCEPT !.tables = Renamed(@, st.pairs)]

(* parseView. *)
ViewRead(st, at) ==
    [name |-> st.name, target |-> st.target, refreshable |-> st.refreshable,
     columns |-> st.columns, pos |-> at]

(* Whatever OR REPLACE or IF NOT EXISTS says. *)
AddView(s, st, at) == [s EXCEPT !.views = Append(@, ViewRead(st, at))]

\* Mutant: DROP VIEW is skipped.
DropView_Not(s, st) == s

DropView(s, st) ==
    LET k == SelectInSeq(s.views, LAMBDA v : v.name = st.name)
    IN  IF k = 0 THEN s ELSE [s EXCEPT !.views = RemoveAt(@, k)]

-----------------------------------------------------------------------------
HookClaims == {"exchange", "rename", "createview", "dropview"}

Claimed(s, st, at) ==
    CASE st.op = "exchange" -> Exchanging(s, st)
      [] st.op = "rename" -> Renaming(s, st)
      [] st.op = "createview" -> AddView(s, st, at)
      [] st.op = "dropview" -> DropView(s, st)

(* Apply; the other dialects have no hook and skip what it claims. *)
Read(s, st, at) ==
    CASE st.op = "create" -> Creating(s, st, at)
      [] st.op = "alter" -> Altering(s, st, at)
      [] st.op = "drop" -> Dropping(s, st)
      [] st.op \in HookClaims -> IF Sink = "clickhouse" THEN Claimed(s, st, at) ELSE s

(* The reader reads every statement, the runner those of up sections. *)
Statement(op) ==
    /\ ~r.crashed /\ line < MaxLines
    /\ \E st \in {x \in Statements : x.op = op} :
          /\ section = "up" => Legal(warehouse, st, At)
          /\ warehouse' = IF section = "up" THEN Executed(warehouse, st, At) ELSE warehouse
          /\ r' = Read(r, st, At)
    /\ line' = line + 1
    /\ UNCHANGED section

CreateTable == Statement("create")
AlterTable == Statement("alter")
DropTable == Statement("drop")
ExchangeTables == Statement("exchange")
RenameTables == Statement("rename")
CreateMaterializedView == Statement("createview")
DropMaterializedView == Statement("dropview")

(* A comment to the readers. *)
Marker ==
    /\ ~r.crashed /\ line < MaxLines
    /\ section' \in Sections
    /\ line' = line + 1
    /\ UNCHANGED <<warehouse, r>>

AllRead == (r.crashed \/ line = MaxLines) /\ UNCHANGED vars

Next ==
    \/ CreateTable \/ AlterTable \/ DropTable \/ ExchangeTables \/ RenameTables
    \/ CreateMaterializedView \/ DropMaterializedView \/ Marker \/ AllRead

Spec == Init /\ [][Next]_vars

-----------------------------------------------------------------------------
(* The statements the readers follow, whatever their order.                *)

(* What a parser leaves of a statement. *)
Written(st) ==
    CASE st.op = "create" ->
            /\ st.guard \in {"", "modified", "replace", "unless"}
            /\ st.form \in {"columns", "query"}
            /\ st.form = "columns" => st.body # <<>>
            /\ st.body # <<>> => IsSequence(st.body[1])
      [] st.op = "alter" ->
            /\ IsSequence(st.actions)
            /\ \A k \in DOMAIN st.actions :
                  /\ st.actions[k].op \in {"add", "drop", "rename"}
                  /\ st.actions[k].op = "add" =>
                        st.actions[k].where.kind \in {"end", "first", "after"}
                  /\ st.actions[k].seen \in BOOLEAN
      [] st.op = "drop" -> IsSequence(st.names)
      [] st.op = "rename" -> IsSequence(st.pairs)
      [] st.op = "createview" -> IsSequence(st.columns)
      [] st.op \in {"exchange", "dropview"} -> TRUE

(* The names it has for tables and for views, and the tables it moves. *)
TableNames(st) ==
    CASE st.op \in {"create", "alter"} -> {st.name}
      [] st.op = "drop" -> ToSet(st.names)
      [] st.op = "exchange" -> {st.a, st.b}
      [] st.op = "rename" -> UNION {{p.from, p.to} : p \in ToSet(st.pairs)}
      [] st.op = "createview" -> {st.target}
      [] st.op = "dropview" -> {}

ViewNames(st) == IF st.op \in {"createview", "dropview"} THEN {st.name} ELSE {}

Moved(st) ==
    CASE st.op = "exchange" -> {st.a, st.b}
      [] st.op = "rename" -> {p.from : p \in ToSet(st.pairs)}
      [] OTHER -> {}

IsQuery(st) == st.op = "create" /\ st.form = "query"

Named(sts) == UNION {TableNames(st) : st \in sts}

(* One place for each last segment. *)
OneDatabase(sts) ==
    /\ \A n \in Named(sts) : IsSequence(n) /\ Len(n) > 0
    /\ \A m, n \in Named(sts) : LastSegment(m) = LastSegment(n) => Place(m) = Place(n)

(* A table whose columns the files do not list stays where it is; a view   *)
(* and a table never share a place; DROP TABLE has one name and ADD COLUMN *)
(* no comma; and only ClickHouse has statements only its hook reads.       *)
Followable(sts) ==
    /\ OneDatabase(sts)
    /\ \A st \in sts :
          /\ Written(st)
          /\ st.op = "alter" => \A k \in DOMAIN st.actions : st.actions[k].seen
          /\ st.op = "drop" => Len(st.names) = 1
          /\ st.op \in {"exchange", "rename"} => Sink = "clickhouse"
    /\ \A st, other \in sts :
          /\ IsQuery(st) => Place(st.name) \notin {Place(n) : n \in Moved(other)}
          /\ \A v \in ViewNames(st), n \in TableNames(other) : Place(v) # Place(n)

(* ADD COLUMN adds at the end. *)
InOrder(sts) ==
    \A st \in sts : st.op = "alter" =>
        \A k \in DOMAIN st.actions : st.actions[k].op = "add" => st.actions[k].where.kind = "end"

(* A view is written as one name, and created where none is; its target is *)
(* an unqualified name of a table whose columns the files list.            *)
ViewsFollowable(sts) ==
    /\ Sink = "clickhouse"
    /\ \A st, other \in sts :
          /\ st.op = "createview" => st.guard = "" /\ Len(st.target) = 1
          /\ st.op = "createview" /\ IsQuery(other) => Place(other.name) # Place(st.target)
          /\ \A m \in ViewNames(st), n \in ViewNames(other) : Place(m) = Place(n) => m = n

-----------------------------------------------------------------------------
(* Every table and view there is has a column list; a column has one       *)
(* position, that of a statement already read.                             *)
SinkTypeOK ==
    /\ line \in 0..MaxLines /\ section \in Sections /\ r.crashed \in BOOLEAN
    /\ \A t \in ToSet(r.tables) :
          t.pos.line < line /\ \A c \in ToSet(t.columns) : c.pos.line \in t.pos.line..line-1
    /\ \A v \in ToSet(r.views) : v.pos.line < line

Listing(q) == warehouse.tables[q].listed

(* The package comment of sqlddl: a table created in one file and altered  *)
(* in a later one "ends up with the columns the warehouse has", and with   *)
(* the topic it consumes, through renames, exchanges and second creations; *)
(* no other table is there.                                                *)
SinkLeavesBehind ==
    ~r.crashed =>
        /\ {Place(t.name) : t \in ToSet(r.tables)} \subseteq DOMAIN warehouse.tables
        /\ \A q \in DOMAIN warehouse.tables : Listing(q) =>
              \E t \in ToSet(r.tables) :
                  /\ Place(t.name) = q
                  /\ NamesIn(t.columns) = NamesIn(warehouse.tables[q].cols)
                  /\ t.topic = TopicRead(warehouse.tables[q].topics)

(* Find, mv-column-match and the mapping to topics all take a table by its *)
(* last segment: two tables of one, under whatever qualification, and the  *)
(* second is out of their reach.                                           *)
SinkNamesDistinct ==
    \A i, j \in DOMAIN r.tables :
        LastSegment(r.tables[i].name) = LastSegment(r.tables[j].name) => i = j

(* A finding about a sink column, and the marker that acknowledges it, is  *)
(* at the statement that added the column.                                 *)
SinkPointsAtDeclarations ==
    \A t \in ToSet(r.tables) :
        Place(t.name) \in DOMAIN warehouse.tables /\ Listing(Place(t.name)) =>
            \A c \in ToSet(t.columns), d \in ToSet(warehouse.tables[Place(t.name)].cols) :
                c.name = d.name => c.pos = d.pos

(* mv-column-match, run on what was read, reports the views that really    *)
(* insert into the wrong column, and no other.                             *)
ViewVerdictIsReal ==
    ~r.crashed =>
        {f.pos : f \in MvColumnMatch([sinks |-> r.tables, views |-> r.views])}
          = {v.pos : v \in {warehouse.views[q] : q \in {p \in DOMAIN warehouse.views :
                                                          Broken(warehouse, warehouse.views[p])}}}

(* createTable's comment: "A later CREATE of the same name replaces the    *)
(* earlier one".  No sequence of statements the warehouse accepts ends the *)
(* reading.                                                                *)
LaterCreateReplaces == ~r.crashed
=============================================================================
