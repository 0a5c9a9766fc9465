---------------------------- MODULE MySQLReader ----------------------------
(***************************************************************************)
(* The MySQL migrations reader (internal/source/mysql), one action per     *)
(* kind of statement, beside a server that executes the same files.        *)
(* Unqualified names belong to the current database, which USE changes and *)
(* which the reader may not know at the start; a name it cannot place ends *)
(* the reading.  Column types, orders and primary keys are left out: no    *)
(* rule looks at them in a source table.                                   *)
(***************************************************************************)
EXTENDS Migrations

VARIABLES
    r,          \* the reader: [tables, db, failed]
    told        \* whether the connector or a USE the runner ran named the database

vars == <<walk, r, told>>

(* The caller takes the database from the connector, "" if it names none.  *)
Init ==
    /\ WalkInit
    /\ \E given \in {"", session} :
          /\ r = [tables |-> <<>>, db |-> given, failed |-> FALSE]
          /\ told = (given # "")

-----------------------------------------------------------------------------
(* qualify *)
CanPlace(s, n) == n.db # "" \/ s.db # ""

Qualify(s, n) == <<IF n.db = "" THEN s.db ELSE n.db, n.name>>

Fail(s) == [s EXCEPT !.failed = TRUE]

Index(s, n) == SourceTable(s.tables, Qualify(s, n)[1], n.name)

\* Mutant: a name that cannot be placed is read all the same.
Placing_Anywhere(s, n, result) == IF s.failed THEN s ELSE result

(* result, unless the reading has failed or name n cannot be placed. *)
Placing(s, n, result) ==
    CASE s.failed -> s
      [] ~s.failed /\ ~CanPlace(s, n) -> Fail(s)
      [] ~s.failed /\ CanPlace(s, n) -> result

-----------------------------------------------------------------------------
NewTableOf(s, n, cols, at) ==
    LET q == Qualify(s, n)
    IN  [s EXCEPT !.tables = Append(@, [schema |-> q[1], name |-> q[2], cols |-> cols,
                                        pos |-> at, replica |-> ""])]

(* createLike: the columns as they stand, with their positions. *)
CreateLike(s, st, at) ==
    Placing(s, st.of,
        IF Index(s, st.of) = 0 THEN s
        ELSE NewTableOf(s, st.name, s.tables[Index(s, st.of)].cols, at))

(* isKey, which knows a keyword glued to its parenthesis. *)
Keywords == {"key", "glued", "like"}

(* createTable, after isKey has left out the items that are keys.  A query *)
(* with no parenthesis leaves the table out; one with a parenthesis gives  *)
(* it the columns it seems to list.                                        *)
CreateListed(s, st, at) ==
    IF st.body = <<>> THEN s
    ELSE NewTableOf(s, st.name, ColumnsListed(st.body[1], Keywords, at), at)

Created(s, st, at) ==
    Placing(s, st.name,
        CASE Index(s, st.name) # 0 -> s
          [] Index(s, st.name) = 0 /\ st.form = "like" -> CreateLike(s, st, at)
          [] Index(s, st.name) = 0 /\ st.form # "like" -> CreateListed(s, st, at))

-----------------------------------------------------------------------------
RenamedTo(t, q) == [t EXCEPT !.schema = q[1], !.name = q[2]]

\* Mutant: a renamed table stays in its database.
RenameTable_KeepsDatabase(s, i, to) ==
    Placing(s, to, [s EXCEPT !.tables[i].name = to.name])

(* renameTable, which may move the table to another database. *)
RenameTable(s, i, to) ==
    Placing(s, to, [s EXCEPT !.tables[i] = RenamedTo(@, Qualify(s, to))])

\* Mutant: CHANGE keeps the position of the column it renames.
Act_KeepsPosition(s, i, a, at) ==
    CASE s.failed -> s
      [] ~s.failed /\ a.op = "add" -> [s EXCEPT !.tables[i] = AddColumn(@, a.col, at)]
      [] ~s.failed /\ a.op = "drop" -> [s EXCEPT !.tables[i] = RemoveColumn(@, a.col)]
      [] ~s.failed /\ a.op = "rename" ->
            LET k == ColumnAt(s.tables[i], a.col)
            IN  IF k = 0 THEN s ELSE [s EXCEPT !.tables[i].cols[k].name = a.to]
      [] ~s.failed /\ a.op = "renametable" -> RenameTable(s, i, a.to)
      [] OTHER -> s

(* One action of alterTable on table i; CHANGE and RENAME COLUMN alike.    *)
Act(s, i, a, at) ==
    CASE s.failed -> s
      [] ~s.failed /\ a.op = "add" -> [s EXCEPT !.tables[i] = AddColumn(@, a.col, at)]
      [] ~s.failed /\ a.op = "drop" -> [s EXCEPT !.tables[i] = RemoveColumn(@, a.col)]
      [] ~s.failed /\ a.op = "rename" -> [s EXCEPT !.tables[i] = RenameColumn(@, a.col, a.to, at)]
      [] ~s.failed /\ a.op = "renametable" -> RenameTable(s, i, a.to)
      [] OTHER -> s

(* The actions of a statement, from left to right. *)
Acted(s, i, actions, at) ==
    LET after[k \in 0..Len(actions)] ==
            IF k = 0 THEN s ELSE Act(after[k - 1], i, actions[k], at)
    IN  after[Len(actions)]

Altering(s, st, at) ==
    Placing(s, st.name,
        IF Index(s, st.name) = 0 THEN s ELSE Acted(s, Index(s, st.name), st.actions, at))

(* RENAME TABLE a TO b, c TO d. *)
RenamePair(s, p) ==
    Placing(s, p.from, IF Index(s, p.from) = 0 THEN s ELSE RenameTable(s, Index(s, p.from), p.to))

RenamedTables(s, pairs) ==
    LET after[k \in 0..Len(pairs)] == IF k = 0 THEN s ELSE RenamePair(after[k - 1], pairs[k])
    IN  after[Len(pairs)]

DropOne(s, n) == Placing(s, n, [s EXCEPT !.tables = RemoveTable(@, Qualify(s, n))])

DroppedTables(s, names) ==
    LET after[k \in 0..Len(names)] == IF k = 0 THEN s ELSE DropOne(after[k - 1], names[k])
    IN  after[Len(names)]

(* statement, for one that is not prepared. *)
Plain(s, st, at) ==
    CASE st.op = "use" -> [s EXCEPT !.db = st.db]
      [] st.op = "create" -> Created(s, st, at)
      [] st.op = "alter" -> Altering(s, st, at)
      [] st.op = "rename" -> RenamedTables(s, st.pairs)
      [] st.op = "drop" -> DroppedTables(s, st.names)
      [] st.op = "temporary" -> s

-----------------------------------------------------------------------------
Read(result) == r' = IF LeftOut THEN r ELSE result

(* One statement of the file that is read as a statement of its own. *)
Statement(op) ==
    /\ ~r.failed
    /\ \E st \in {s \in Statements : s.op = op} : Execute(st) /\ Read(Plain(r, st, At))

Use == Statement("use") /\ told' = (told \/ half = "up")
CreateTable == Statement("create") /\ UNCHANGED told
AlterTable == Statement("alter") /\ UNCHANGED told
RenameTables == Statement("rename") /\ UNCHANGED told
DropTables == Statement("drop") /\ UNCHANGED told

(* CREATE TEMPORARY TABLE and DROP TEMPORARY TABLE: nothing. *)
Temporary == Statement("temporary") /\ UNCHANGED told

(* SET @s = (SELECT IF(..., 'SELECT 1', 'ALTER TABLE ...')) is read as the *)
(* statement in it, whatever the condition.                                *)
Prepared ==
    /\ ~r.failed
    /\ \E st \in {s \in Statements : s.op = "prepared"} :
          Execute(st) /\ Read(Plain(r, st.inner, At))
    /\ UNCHANGED told

\* Mutant: every file starts in the database the reader was given.
OpenNext_Forgets ==
    /\ ~r.failed
    /\ NextFile
    /\ r' = [r EXCEPT !.db = ""]
    /\ UNCHANGED told

OpenNext == ~r.failed /\ NextFile /\ UNCHANGED <<r, told>>

MarkHalf == ~r.failed /\ Marker /\ UNCHANGED <<r, told>>

(* The last file has been read, or the reading has failed. *)
AllRead ==
    /\ r.failed \/ (line = MaxLines /\ file.n = MaxFiles)
    /\ UNCHANGED vars

Next ==
    \/ Use \/ CreateTable \/ AlterTable \/ RenameTables \/ DropTables
    \/ Temporary \/ Prepared \/ OpenNext \/ MarkHalf \/ AllRead

Spec == Init /\ [][Next]_vars

-----------------------------------------------------------------------------
(* The statements the reader is for.  Databases have names, and what an    *)
(* IF(...) guards is a change of the schema.                               *)
Readable(st) ==
    CASE st.op = "use" -> st.db # ""
      [] st.op = "create" ->
            /\ st.form \in {"columns", "like", "query"}
            /\ st.form = "columns" =>
                  /\ st.body # <<>> /\ IsSequence(st.body[1])
                  /\ \A i \in DOMAIN st.body[1] : st.body[1][i].kind \in {"column", "key", "glued"}
      [] st.op = "alter" -> IsSequence(st.actions)
      [] st.op = "rename" -> IsSequence(st.pairs)
      [] st.op = "drop" -> IsSequence(st.names)
      [] st.op = "temporary" -> TRUE

Supported(st) ==
    IF st.op = "prepared"
    THEN st.inner.op \in {"create", "alter", "rename", "drop"} /\ Readable(st.inner)
    ELSE Readable(st)

MySQLTypeOK ==
    /\ WalkTypeOK
    /\ r.failed \in BOOLEAN
    /\ \A t \in ToSet(r.tables) : t.schema # ""

(* What ReadFiles returns is "the schema they leave behind"; a guard that  *)
(* skips a statement on the server makes no difference to it.              *)
MySQLLeavesBehind == ~r.failed => LeavesBehind(r.tables)

(* No sequence of renames, moves between databases and repeated CREATEs    *)
(* leaves two tables, or two columns, of one name.                         *)
MySQLNamesDistinct == ~r.failed => NamesDistinct(r.tables)

(* Findings about a source column point at the migration that named it.    *)
MySQLPointsAtDeclarations == ~r.failed => PointsAtDeclarations(r.tables)

(* A table is an error when, and only when, nothing said which database    *)
(* the runner is in; what is placed is placed where the runner is.         *)
PlacedWhereTheRunnerIs ==
    /\ r.db = IF told THEN session ELSE ""
    /\ r.failed => ~told
=============================================================================
