------------------------------ MODULE Contract ------------------------------
(***************************************************************************)
(* The capture connector (internal/capture/debezium/debezium.go): which    *)
(* tables and columns it emits, on which topic, and which configuration    *)
(* key a finding tells the author to edit.                                 *)
(*                                                                         *)
(* A contract is [file, mysql, debezium, afterStateOnly, prefix,           *)
(* transforms, lists].  lists maps a list key to its comma-separated       *)
(* entries; a key that is absent or "" is not in its domain.  An entry is  *)
(* the sequence of alternatives expand() makes of `table\.(a|b)`, one for  *)
(* any other pattern and none for a piece that is only spaces.  An         *)
(* alternative is [ext, glob, db]: the qualified names (tuples) the        *)
(* anchored regular expression matches, those it would match read as a     *)
(* shell glob, {} when it has no bare * to read that way, and the plain    *)
(* database name the entry begins with, "" if a pattern does.              *)
(***************************************************************************)
EXTENDS Transforms

TableInclude == <<"table.include.list", "table.whitelist">>
TableExclude == <<"table.exclude.list", "table.blacklist">>
ColumnInclude == <<"column.include.list", "column.whitelist">>
ColumnExclude == <<"column.exclude.list", "column.blacklist">>
DbInclude == <<"database.include.list", "database.whitelist">>
DbExclude == <<"database.exclude.list", "database.blacklist">>

ExcludeKeys == ToSet(TableExclude) \cup ToSet(ColumnExclude) \cup ToSet(DbExclude)
ListKeys == ToSet(TableInclude) \cup ToSet(ColumnInclude) \cup ToSet(DbInclude)
                \cup ExcludeKeys

(* The value is blank to strings.TrimSpace: one piece, all spaces. *)
Blank(value) == value = << <<>> >>

(* The key list() reads: the first one present and not blank, or "". *)
KeyOf(c, keys) ==
    LET at == SelectInSeq(keys, LAMBDA k : k \in DOMAIN c.lists /\ ~Blank(c.lists[k]))
    IN  IF at = 0 THEN "" ELSE keys[at]

(* first() takes a blank value too, and so may read another key than list(). *)
FirstOf(c, keys) ==
    LET at == SelectInSeq(keys, LAMBDA k : k \in DOMAIN c.lists)
    IN  IF at = 0 THEN <<>> ELSE c.lists[keys[at]]

(* The compiled patterns, blank pieces dropped: a set of alternatives. *)
Patterns(value) == UNION {ToSet(value[i]) : i \in DOMAIN value}

ListOf(c, keys) ==
    IF KeyOf(c, keys) = "" THEN {} ELSE Patterns(c.lists[KeyOf(c, keys)])

AnyMatch(patterns, q) == \E p \in patterns : q \in p.ext

DbIncludes(c) == IF c.mysql THEN ListOf(c, DbInclude) ELSE {}
DbExcludes(c) == IF c.mysql THEN ListOf(c, DbExclude) ELSE {}

DbIncludeBlocks(c, schema) ==
    DbIncludes(c) # {} /\ ~AnyMatch(DbIncludes(c), <<schema>>)
DbExcludeBlocks(c, schema) ==
    DbExcludes(c) # {} /\ AnyMatch(DbExcludes(c), <<schema>>)

(* An include list that has entries decides alone; else the exclude list. *)
Passes(include, exclude, q) ==
    IF include # {} THEN AnyMatch(include, q) ELSE ~AnyMatch(exclude, q)

CapturesTable(c, t) ==
    /\ ~DbIncludeBlocks(c, t.schema)
    /\ ~DbExcludeBlocks(c, t.schema)
    /\ Passes(ListOf(c, TableInclude), ListOf(c, TableExclude), Qualified(t))

CapturesColumn(c, t, col) ==
    Passes(ListOf(c, ColumnInclude), ListOf(c, ColumnExclude),
           QualifiedColumn(t, col))

\* Mutant: an exclude list is not named, the include list always is.
ColumnListSetting_IncludeOnly(c) ==
    IF KeyOf(c, ColumnInclude) # "" THEN KeyOf(c, ColumnInclude)
    ELSE "column.include.list"

(* The keys named in findings.  Parse keeps no key for a table exclude list. *)
ColumnListSetting(c) ==
    CASE KeyOf(c, ColumnInclude) # "" -> KeyOf(c, ColumnInclude)
      [] KeyOf(c, ColumnInclude) = "" /\ KeyOf(c, ColumnExclude) # "" ->
            KeyOf(c, ColumnExclude)
      [] OTHER -> "column.include.list"

TableListSetting(c) ==
    IF KeyOf(c, TableInclude) # "" THEN KeyOf(c, TableInclude)
    ELSE "table.include.list"

\* Mutant: the deprecated spelling of an exclude list is not known.
Excludes_NewSpellingOnly(setting) ==
    setting \in {"table.exclude.list", "column.exclude.list", "database.exclude.list"}

Excludes(setting) == setting \in ExcludeKeys

\* Mutant: the database lists are not looked at.
TableBlock_TableListOnly(c, t) ==
    [setting |-> TableListSetting(c), entry |-> {Qualified(t)}]

(* The list that keeps t out and the name that would let it in. *)
TableBlock(c, t) ==
    CASE DbIncludeBlocks(c, t.schema) ->
            [setting |-> KeyOf(c, DbInclude), entry |-> {<<t.schema>>}]
      [] ~DbIncludeBlocks(c, t.schema) /\ DbExcludeBlocks(c, t.schema) ->
            [setting |-> KeyOf(c, DbExclude), entry |-> {<<t.schema>>}]
      [] OTHER ->
            [setting |-> TableListSetting(c), entry |-> {Qualified(t)}]

ColumnPatterns(c) == FirstOf(c, ColumnInclude)
TablePatterns(c) == FirstOf(c, TableInclude)

PlainDatabase(entry) == IF entry = <<>> THEN "" ELSE Head(entry).db

\* Mutant: the first table entry is believed, whatever the others say.
DefaultDatabase_FirstTable(c) ==
    LET dbs == FirstOf(c, DbInclude)
        tables == FirstOf(c, TableInclude)
    IN  IF Len(dbs) = 1 /\ PlainDatabase(dbs[1]) # "" THEN PlainDatabase(dbs[1])
        ELSE IF tables = <<>> THEN "" ELSE PlainDatabase(tables[1])

(* The database unqualified MySQL migrations run in: the only one of the   *)
(* database list, else the one all tables of the table list are in, else   *)
(* "".                                                                     *)
DefaultDatabase(c) ==
    LET dbs == FirstOf(c, DbInclude)
        tables == FirstOf(c, TableInclude)
        named == {PlainDatabase(tables[i]) : i \in DOMAIN tables}
    IN  CASE Len(dbs) = 1 /\ PlainDatabase(dbs[1]) # "" -> PlainDatabase(dbs[1])
          [] ~(Len(dbs) = 1 /\ PlainDatabase(dbs[1]) # "") /\ Cardinality(named) = 1 ->
                PlainDatabase(tables[1])
          [] OTHER -> ""

(* prefix.schema.table, through the connector's RegexRouters. *)
Topic(c, t) == Routed(c.prefix \o << <<t.schema>>, <<t.name>> >>, c.transforms)

ValueShape(c) == ApplyTransforms(StartShape(c), c.transforms)

ContractPos(c) == [file |-> c.file, line |-> 0]
=============================================================================
