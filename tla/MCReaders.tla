----------------------------- MODULE MCReaders -----------------------------
(***************************************************************************)
(* Names and statements the readers' models are checked with: tables       *)
(* orders and items, columns a, b, c.                                      *)
(***************************************************************************)
EXTENDS Sequences

Name(db, name) == [db |-> db, name |-> name]
Orders == Name("", "orders")
Items == Name("", "items")

-----------------------------------------------------------------------------
Column(c) == [kind |-> "column", name |-> c]
Key == [kind |-> "key", name |-> "key"]
GluedKey == [kind |-> "glued", name |-> "unique(a)"]

CreateAs(n, unlessExists, form, of, body) ==
    [op |-> "create", name |-> n, unlessExists |-> unlessExists, form |-> form, of |-> of, body |-> body]

Create(n, unlessExists, items) == CreateAs(n, unlessExists, "columns", n, <<items>>)
Like(n, of) == CreateAs(n, FALSE, "like", of, <<>>)
Query(n, body) == CreateAs(n, FALSE, "query", n, body)
Partition(n, of, body) == CreateAs(n, FALSE, "partition", of, body)

(* A query, or a bound, without a parenthesis.  What the first one holds   *)
(* is taken for columns by both readers.                                   *)
NoParenthesis == <<>>

-----------------------------------------------------------------------------
Add(c) == [op |-> "add", col |-> c, unlessExists |-> FALSE]
AddUnlessExists(c) == [op |-> "add", col |-> c, unlessExists |-> TRUE]
AddKey(glued) == [op |-> "addkey", col |-> "unique(a)", glued |-> glued]
Drop(c) == [op |-> "drop", col |-> c]
Rename(c, to) == [op |-> "rename", col |-> c, to |-> to]
RenameTo(n) == [op |-> "renametable", to |-> n]
Replica(word) == [op |-> "replica", to |-> word]

Alter(n, actions) == [op |-> "alter", name |-> n, actions |-> actions]

Pair(from, to) == [from |-> from, to |-> to]
RenameTables(pairs) == [op |-> "rename", pairs |-> pairs]
DropTables(names, ifExists) == [op |-> "drop", names |-> names, ifExists |-> ifExists]
Use(db) == [op |-> "use", db |-> db]
Prepared(st) == [op |-> "prepared", inner |-> st]
Temporary == [op |-> "temporary"]
=============================================================================
