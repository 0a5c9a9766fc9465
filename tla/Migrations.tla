----------------------------- MODULE Migrations -----------------------------
(***************************************************************************)
(* A migration directory as the readers and the runner walk it             *)
(* (internal/source/source.go, internal/migrate): files in name order, in  *)
(* each file markers and statements.  A runner that migrates forward runs  *)
(* neither golang-migrate's down files nor the sections after a Down       *)
(* marker; the readers must leave out the same ones.                       *)
(*                                                                         *)
(* A statement is a record: op, and what the words of the text amount to.  *)
(* A name is [db, name], db "" when it is unqualified.  body is what the   *)
(* first parenthesis after TABLE holds, <<>> when there is none: the items *)
(* of the column list, or whatever a query or a partition bound has there. *)
(* An item's kind says what its first word is: a column's name, a keyword  *)
(* ("key"), a keyword glued to its parenthesis ("glued"), LIKE ("like").   *)
(***************************************************************************)
EXTENDS Server

CONSTANTS
    Statements,     \* the statements migrations are written with
    Connections,    \* the databases a runner may be connected to
    MaxFiles,       \* bounds on the migrations that are explored
    MaxLines

ASSUME BoundsAssumption == MaxFiles \in Nat \ {0} /\ MaxLines \in Nat

VARIABLES
    file,       \* [n, kind] of the file being read
    line,       \* statements and markers so far, in all files
    down,       \* the reader's down in migrate.Up
    half,       \* the half of the migration the runner is in
    catalog,    \* what the server has
    session     \* the runner's current database

walk == <<file, line, down, half, catalog, session>>

(* x.sql, x.up.sql and x.down.sql. *)
FileKinds == {"plain", "up", "down"}

At == [file |-> file.n, line |-> line]

WalkTypeOK ==
    /\ file \in [n : 1..MaxFiles, kind : FileKinds] /\ line \in 0..MaxLines
    /\ down \in BOOLEAN /\ half \in {"up", "down"}
    /\ \A q \in DOMAIN catalog : catalog[q].listed \in BOOLEAN

Opened(n, k) == [n |-> n, kind |-> k]

WalkInit ==
    /\ \E k \in FileKinds :
          /\ file = Opened(1, k)
          /\ half = IF k = "down" THEN "down" ELSE "up"
    /\ line = 0 /\ down = FALSE
    /\ catalog = NoTables
    /\ session \in Connections

\* Mutant: a down section lasts until the next marker, into the next file.
NextFile_StaysDown ==
    /\ file.n < MaxFiles
    /\ \E k \in FileKinds :
          /\ file' = Opened(file.n + 1, k)
          /\ half' = IF k = "down" THEN "down" ELSE "up"
    /\ UNCHANGED <<line, down, catalog, session>>

NextFile ==
    /\ file.n < MaxFiles
    /\ \E k \in FileKinds :
          /\ file' = Opened(file.n + 1, k)
          /\ half' = IF k = "down" THEN "down" ELSE "up"
    /\ down' = FALSE
    /\ UNCHANGED <<line, catalog, session>>

(* goose, sql-migrate and dbmate keep both halves in one file. *)
Marker ==
    /\ line < MaxLines /\ file.kind = "plain"
    /\ \E h \in {"up", "down"} :
          /\ half' = h
          /\ down' = (h = "down")
    /\ line' = line + 1
    /\ UNCHANGED <<file, catalog, session>>

(* The reader does not see the statement. *)
LeftOut == file.kind = "down" \/ down

(* The runner executes the statement, unless it is in the other half. *)
Execute(st) ==
    /\ line < MaxLines
    /\ half = "up" => Allowed(catalog, session, st)
    /\ line' = line + 1
    /\ catalog' = IF half = "up" THEN Executed(catalog, session, st, At) ELSE catalog
    /\ session' = IF half = "up" THEN SessionAfter(session, st) ELSE session
    /\ UNCHANGED <<file, down, half>>

-----------------------------------------------------------------------------
(* What both readers do with a list of tables [schema, name, cols, ...],   *)
(* cols a sequence of [name, pos].                                         *)

(* The columns of a column list: the items that do not start with one of   *)
(* the keywords the reader knows.                                          *)
ColumnsListed(items, keywords, at) ==
    LET cols[k \in 0..Len(items)] ==
            IF k = 0 THEN <<>>
            ELSE IF items[k].kind \in keywords THEN cols[k - 1]
            ELSE Append(cols[k - 1], [name |-> items[k].name, pos |-> at])
    IN  cols[Len(items)]

ColumnAt(t, n) == SelectInSeq(t.cols, LAMBDA c : c.name = n)

RemoveColumn(t, n) ==
    IF ColumnAt(t, n) = 0 THEN t ELSE [t EXCEPT !.cols = RemoveAt(@, ColumnAt(t, n))]

RenameColumn(t, from, to, at) ==
    IF ColumnAt(t, from) = 0 THEN t
    ELSE [t EXCEPT !.cols[ColumnAt(t, from)] = [name |-> to, pos |-> at]]

\* Mutant: ADD COLUMN IF NOT EXISTS adds the column again.
AddColumn_Again(t, n, at) == [t EXCEPT !.cols = Append(@, [name |-> n, pos |-> at])]

AddColumn(t, n, at) ==
    IF ColumnAt(t, n) # 0 THEN t ELSE [t EXCEPT !.cols = Append(@, [name |-> n, pos |-> at])]

RemoveTable(tables, q) ==
    LET i == SourceTable(tables, q[1], q[2])
    IN  IF i = 0 THEN tables ELSE RemoveAt(tables, i)

-----------------------------------------------------------------------------
(* Properties of the tables a reader holds.                                *)

(* Every table whose columns the files list is there, under its name, with *)
(* its columns and replica identity, and every table there is in the       *)
(* database: the schema the migrations "leave behind", whatever was        *)
(* renamed, dropped, guarded, created twice or undone by a down half.      *)
LeavesBehind(tables) ==
    /\ \A t \in ToSet(tables) : Qualified(t) \in DOMAIN catalog
    /\ \A q \in DOMAIN catalog :
          catalog[q].listed =>
            \E t \in ToSet(tables) :
                /\ Qualified(t) = q
                /\ {c.name : c \in ToSet(t.cols)} = DOMAIN catalog[q].cols
                /\ t.replica \in {"", catalog[q].replica}

(* What Schemas and the assumption of Engine take for granted: one table   *)
(* per qualified name and, in a table whose columns the files list, one    *)
(* column per name.  A table created by a query and created again IF NOT   *)
(* EXISTS has the columns of the second statement to the reader, and a     *)
(* RENAME COLUMN, which the server checks against those it really has, may *)
(* make two of them one.                                                   *)
NamesDistinct(tables) ==
    /\ \A i, j \in DOMAIN tables : Qualified(tables[i]) = Qualified(tables[j]) => i = j
    /\ \A t \in ToSet(tables) :
          Qualified(t) \in DOMAIN catalog /\ catalog[Qualified(t)].listed =>
            \A i, j \in DOMAIN t.cols : t.cols[i].name = t.cols[j].name => i = j

(* A finding about a column points at the statement that gave the column   *)
(* its name, not at one that found it there already.                       *)
PointsAtDeclarations(tables) ==
    \A t \in ToSet(tables) :
        Qualified(t) \in DOMAIN catalog /\ catalog[Qualified(t)].listed =>
            \A c \in ToSet(t.cols) :
                c.name \in DOMAIN catalog[Qualified(t)].cols
                    => c.pos = catalog[Qualified(t)].cols[c.name]

=============================================================================
