--------------------------- MODULE PostgresReader ---------------------------
(***************************************************************************)
(* The PostgreSQL migrations reader (internal/source/postgres), one action *)
(* per kind of statement, beside a server that executes the same files.    *)
(* Column types and primary keys are left out: no rule looks at them.      *)
(***************************************************************************)
EXTENDS Migrations

VARIABLE tables         \* src.Tables

vars == <<walk, tables>>

Init == WalkInit /\ tables = <<>>

DefaultSchema == "public"

(* splitQualified *)
SplitQualified(n) == <<IF n.db = "" THEN DefaultSchema ELSE n.db, n.name>>

TableIndex(n) == SourceTable(tables, SplitQualified(n)[1], n.name)

-----------------------------------------------------------------------------
(* The keywords, each a word of its own. *)
Keywords == {"key", "like"}

\* Mutant: the second CREATE TABLE IF NOT EXISTS of a table replaces the first.
Created_KeepsLast(st, at) ==
    LET q == SplitQualified(st.name)
    IN  IF st.body = <<>> THEN tables
        ELSE Append(RemoveTable(tables, q),
                    [schema |-> q[1], name |-> q[2], replica |-> "default", pos |-> at,
                     cols |-> ColumnsListed(st.body[1], Keywords, at)])

(* createTable.  Its test for PARTITION OF looks at what follows the first *)
(* parenthesis, where the clause never is: a partition with a bound is     *)
(* read as a table, and so is a query with a parenthesis anywhere in it.   *)
Created(st, at) ==
    LET q == SplitQualified(st.name)
    IN  IF st.body = <<>> \/ TableIndex(st.name) # 0 THEN tables
        ELSE Append(tables, [schema |-> q[1], name |-> q[2], replica |-> "default", pos |-> at,
                             cols |-> ColumnsListed(st.body[1], Keywords, at)])

\* Mutant: the word after REPLICA IDENTITY is kept as it is written.
ReplicaOf_AsWritten(w) == w

(* USING names the index after it. *)
ReplicaOf(w) == IF w = "using" THEN "index" ELSE w

\* Mutant: ADD COLUMN IF NOT EXISTS moves the column that exists.
Act_AddMoves(t, a, at) ==
    CASE a.op = "add" -> AddColumn(RemoveColumn(t, a.col), a.col, at)
      [] a.op = "drop" -> RemoveColumn(t, a.col)
      [] a.op = "rename" -> RenameColumn(t, a.col, a.to, at)
      [] a.op = "renametable" -> [t EXCEPT !.name = a.to.name]
      [] a.op = "replica" -> [t EXCEPT !.replica = ReplicaOf(a.to)]
      [] OTHER -> t

(* One action of alterTable.  ADD takes a keyword glued to its parenthesis *)
(* for a column.                                                           *)
Act(t, a, at) ==
    CASE a.op = "add" \/ (a.op = "addkey" /\ a.glued) -> AddColumn(t, a.col, at)
      [] a.op = "drop" -> RemoveColumn(t, a.col)
      [] a.op = "rename" -> RenameColumn(t, a.col, a.to, at)
      [] a.op = "renametable" -> [t EXCEPT !.name = a.to.name]
      [] a.op = "replica" -> [t EXCEPT !.replica = ReplicaOf(a.to)]
      [] OTHER -> t

(* The actions of a statement, from left to right. *)
Acted(t, actions, at) ==
    LET after[k \in 0..Len(actions)] ==
            IF k = 0 THEN t ELSE Act(after[k - 1], actions[k], at)
    IN  after[Len(actions)]

Changed(st, at) ==
    LET i == TableIndex(st.name)
    IN  IF i = 0 THEN tables ELSE [tables EXCEPT ![i] = Acted(@, st.actions, at)]

(* The names of a statement, from left to right. *)
DroppedFrom(ts, names) ==
    LET after[k \in 0..Len(names)] ==
            IF k = 0 THEN ts ELSE RemoveTable(after[k - 1], SplitQualified(names[k]))
    IN  after[Len(names)]

-----------------------------------------------------------------------------
Read(result) == tables' = IF LeftOut THEN tables ELSE result

CreateTable ==
    \E st \in {s \in Statements : s.op = "create"} : Execute(st) /\ Read(Created(st, At))

AlterTable ==
    \E st \in {s \in Statements : s.op = "alter"} : Execute(st) /\ Read(Changed(st, At))

DropTable ==
    \E st \in {s \in Statements : s.op = "drop"} : Execute(st) /\ Read(DroppedFrom(tables, st.names))

OpenNext == NextFile /\ UNCHANGED tables

MarkHalf == Marker /\ UNCHANGED tables

(* The last file has been read. *)
AllRead == line = MaxLines /\ file.n = MaxFiles /\ UNCHANGED vars

Next == CreateTable \/ AlterTable \/ DropTable \/ OpenNext \/ MarkHalf \/ AllRead

Spec == Init /\ [][Next]_vars

-----------------------------------------------------------------------------
(* The statements the reader is for.  One that glues the keyword of a key  *)
(* to its parenthesis is not among them: it takes UNIQUE(a) for a column.  *)
Supported(st) ==
    CASE st.op = "create" ->
            /\ st.form \in {"columns", "like", "partition", "query"}
            /\ st.form = "columns" =>
                  /\ st.body # <<>> /\ IsSequence(st.body[1])
                  /\ \A i \in DOMAIN st.body[1] : st.body[1][i].kind \in {"column", "key"}
      [] st.op = "alter" ->
            /\ IsSequence(st.actions)
            /\ \A k \in DOMAIN st.actions :
                  /\ st.actions[k].op = "addkey" => ~st.actions[k].glued
                  /\ st.actions[k].op = "replica" =>
                        st.actions[k].to \in {"default", "full", "nothing", "using"}
      [] st.op = "drop" -> IsSequence(st.names)

(* Types; the reader never touches the walk of the runner.                 *)
PostgresTypeOK ==
    /\ WalkTypeOK
    /\ \A t \in ToSet(tables) : t.replica \in {"default", "full", "nothing", "index"}

(* What ReadFiles returns is "the schema they leave behind".               *)
PostgresLeavesBehind == LeavesBehind(tables)

(* No sequence of renames, drops and repeated CREATEs leaves two tables, or *)
(* two columns, of one name: lookups take the first.                       *)
PostgresNamesDistinct == NamesDistinct(tables)

(* Findings about a source column point at the migration that named it.    *)
PostgresPointsAtDeclarations == PointsAtDeclarations(tables)
=============================================================================
