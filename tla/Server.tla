------------------------------- MODULE Server -------------------------------
(***************************************************************************)
(* What the readers predict, stated without them: the tables a database    *)
(* has after a migration runner executed the migrations.  The server is    *)
(* not in src/; this is what PostgreSQL and MySQL document of the          *)
(* statements the readers understand, on a catalog of qualified names.     *)
(*                                                                         *)
(* catalog[<<schema, name>>] is a table: where each of its columns was     *)
(* declared or last renamed, whether the files list its columns, and its   *)
(* replica identity.  listed is FALSE for a table whose columns are those  *)
(* of a query or of a partitioned parent, which no reader can or does      *)
(* read off the file.                                                      *)
(***************************************************************************)
EXTENDS Schemas

CONSTANT Dialect        \* "mysql" or "postgres"

NoTables == [q \in {} |-> {}]

Place(session, n) == <<IF n.db = "" THEN session ELSE n.db, n.name>>

(* The new name of a renamed table: PostgreSQL keeps its schema, MySQL     *)
(* moves it to the database the new name is in.                            *)
NewPlace(session, q, to) ==
    IF Dialect = "postgres" THEN <<q[1], to.name>> ELSE Place(session, to)

Without(catalog, qs) == [q \in DOMAIN catalog \ qs |-> catalog[q]]
Put(catalog, q, t) ==
    [p \in DOMAIN catalog \cup {q} |-> IF p = q THEN t ELSE catalog[p]]
Moved(catalog, q, to) == Put(Without(catalog, {q}), to, catalog[q])

-----------------------------------------------------------------------------
(* CREATE TABLE.  A statement's items are its columns and its keys; LIKE   *)
(* and PARTITION OF name another table.                                    *)

ItemNames(items) == {i.name : i \in {j \in ToSet(items) : j.kind = "column"}}

NamesOnce(items) ==
    \A j, k \in {i \in DOMAIN items : items[i].kind = "column"} :
        items[j].name = items[k].name => j = k

CreateLegal(catalog, session, st) ==
    /\ st.form = "columns" => NamesOnce(st.body[1])
    /\ st.unlessExists \/ Place(session, st.name) \notin DOMAIN catalog
    /\ st.form \in {"like", "partition"} => Place(session, st.of) \in DOMAIN catalog

NewTable(catalog, session, st, at) ==
    CASE st.form = "columns" ->
            [cols |-> [c \in ItemNames(st.body[1]) |-> at], listed |-> TRUE, replica |-> "default"]
      [] st.form = "like" ->
            [catalog[Place(session, st.of)] EXCEPT !.listed = @ /\ Dialect = "mysql", !.replica = "default"]
      [] st.form = "partition" ->
            [catalog[Place(session, st.of)] EXCEPT !.listed = FALSE, !.replica = "default"]
      [] st.form = "query" ->
            [cols |-> NoTables, listed |-> FALSE, replica |-> "default"]

CreateDone(catalog, session, st, at) ==
    LET q == Place(session, st.name)
    IN  IF q \in DOMAIN catalog THEN catalog
        ELSE Put(catalog, q, NewTable(catalog, session, st, at))

-----------------------------------------------------------------------------
(* ALTER TABLE.  A server applies the clauses at once, to the table as it  *)
(* was; what one makes of a column that two clauses of one statement name  *)
(* is left out.                                                            *)

Clauses(st, op) == {k \in DOMAIN st.actions : st.actions[k].op = op}
Named(st, op) == {st.actions[k].col : k \in Clauses(st, op)}
NewNames(st) == {st.actions[k].to : k \in Clauses(st, "rename")}
Targets(catalog, session, st) ==
    {NewPlace(session, Place(session, st.name), st.actions[k].to) : k \in Clauses(st, "renametable")}

Asked(t, st) ==      \* the columns ADD really adds
    {c \in Named(st, "add") : c \notin DOMAIN t.cols}

NamedOnce(st) ==
    \A j, k \in {i \in DOMAIN st.actions : st.actions[i].op \in {"add", "drop", "rename"}} :
        LET names(a) == {a.col} \cup (IF a.op = "rename" THEN {a.to} ELSE {})
        IN  j # k => names(st.actions[j]) \cap names(st.actions[k]) = {}

(* One new name and one replica identity, at most. *)
SetOnce(st) ==
    \A j, k \in DOMAIN st.actions :
        st.actions[j].op \in {"renametable", "replica"} /\ st.actions[j].op = st.actions[k].op => j = k

AlterLegal(catalog, session, st) ==
    /\ Place(session, st.name) \in DOMAIN catalog
    /\ NamedOnce(st) /\ SetOnce(st)
    /\ Targets(catalog, session, st) \cap DOMAIN catalog = {}
    /\ LET t == catalog[Place(session, st.name)]
       IN  t.listed =>
            /\ \A k \in Clauses(st, "add") :
                 st.actions[k].unlessExists \/ st.actions[k].col \notin DOMAIN t.cols
            /\ Named(st, "drop") \cup Named(st, "rename") \subseteq DOMAIN t.cols
            /\ \A k \in Clauses(st, "rename") :
                 st.actions[k].to \in {st.actions[k].col} \cup (NewNames(st) \ DOMAIN t.cols)

(* REPLICA IDENTITY USING INDEX i makes it the index's. *)
ReplicaAsked(st) ==
    {IF st.actions[k].to = "using" THEN "index" ELSE st.actions[k].to : k \in Clauses(st, "replica")}

Altered(t, st, at) ==
    LET gone == Named(st, "drop") \cup Named(st, "rename")
        new == Asked(t, st) \cup NewNames(st)
    IN  [t EXCEPT !.cols = [c \in (DOMAIN t.cols \ gone) \cup new |-> IF c \in new THEN at ELSE @[c]],
                  !.replica = IF ReplicaAsked(st) = {} THEN @
                              ELSE CHOOSE w \in ReplicaAsked(st) : TRUE]

AlterDone(catalog, session, st, at) ==
    LET q == Place(session, st.name)
        changed == [catalog EXCEPT ![q] = Altered(@, st, at)]
    IN  IF Targets(catalog, session, st) = {} THEN changed
        ELSE Moved(changed, q, CHOOSE p \in Targets(catalog, session, st) : TRUE)

-----------------------------------------------------------------------------
(* RENAME TABLE a TO b, c TO d and DROP TABLE a, b: from left to right.    *)

RenameOne(session, c, p) ==     \* c is <<>> once a rename is refused
    IF c # <<>> /\ Place(session, p.from) \in DOMAIN c[1] /\ Place(session, p.to) \notin DOMAIN c[1]
    THEN <<Moved(c[1], Place(session, p.from), Place(session, p.to))>>
    ELSE <<>>

Renamed(catalog, session, pairs) ==
    LET after[k \in 0..Len(pairs)] ==
            IF k = 0 THEN <<catalog>> ELSE RenameOne(session, after[k - 1], pairs[k])
    IN  after[Len(pairs)]

Dropped(session, st) == {Place(session, n) : n \in ToSet(st.names)}

-----------------------------------------------------------------------------
Legal(catalog, session, st) ==
    CASE st.op = "create" -> CreateLegal(catalog, session, st)
      [] st.op = "alter" -> AlterLegal(catalog, session, st)
      [] st.op = "rename" -> Renamed(catalog, session, st.pairs) # <<>>
      [] st.op = "drop" -> st.ifExists \/ Dropped(session, st) \subseteq DOMAIN catalog
      [] OTHER -> TRUE

Done(catalog, session, st, at) ==
    CASE st.op = "create" -> CreateDone(catalog, session, st, at)
      [] st.op = "alter" -> AlterDone(catalog, session, st, at)
      [] st.op = "rename" -> Renamed(catalog, session, st.pairs)[1]
      [] st.op = "drop" -> Without(catalog, Dropped(session, st))
      [] OTHER -> catalog

(* A prepared statement under IF(...): the guard skips it when what it     *)
(* would do to the columns is there already.                               *)
AlreadyThere(catalog, session, st) ==
    /\ st.op = "alter" /\ Place(session, st.name) \in DOMAIN catalog
    /\ Clauses(st, "renametable") = {}
    /\ LET cols == DOMAIN catalog[Place(session, st.name)].cols
       IN  /\ catalog[Place(session, st.name)].listed
           /\ Named(st, "add") \cup NewNames(st) \subseteq cols
           /\ (Named(st, "drop") \cup Named(st, "rename")) \cap cols = {}
           /\ Named(st, "add") \cup Named(st, "drop") \cup NewNames(st) # {}

Allowed(catalog, session, st) ==
    IF st.op = "prepared"
    THEN Legal(catalog, session, st.inner) \/ AlreadyThere(catalog, session, st.inner)
    ELSE Legal(catalog, session, st)

Executed(catalog, session, st, at) ==
    CASE st.op = "prepared" /\ ~Legal(catalog, session, st.inner) -> catalog
      [] st.op = "prepared" /\ Legal(catalog, session, st.inner) ->
            Done(catalog, session, st.inner, at)
      [] OTHER -> Done(catalog, session, st, at)

SessionAfter(session, st) == IF st.op = "use" THEN st.db ELSE session
=============================================================================
