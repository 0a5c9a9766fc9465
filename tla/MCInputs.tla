------------------------------ MODULE MCInputs ------------------------------
(***************************************************************************)
(* Small inputs for model checking, built the way the corpus builds its    *)
(* entries: a source of one to three tables, one connector, a few sink     *)
(* tables.  Every list, transform chain and sink spelling below is one     *)
(* that some part of the code treats differently.                          *)
(***************************************************************************)
EXTENDS Engine

At(file, line) == [file |-> file, line |-> line]

(* A source table whose column at position k of names is declared there.   *)
SrcTable(schema, name, names, file) ==
    [schema |-> schema, name |-> name,
     cols |-> [c \in ToSet(names) |-> At(file, SelectInSeq(names, LAMBDA x : x = c))]]

Orders == SrcTable("public", "orders", <<"id", "email">>, "1_orders.sql")
OrdersOld == SrcTable("public", "orders", <<"id">>, "1_orders.sql")
Items == SrcTable("public", "items", <<"id", "note">>, "2_items.sql")
ItemsOld == SrcTable("public", "items", <<"id">>, "2_items.sql")
AuditOrders == SrcTable("audit", "orders", <<"id", "who">>, "3_audit.sql")

-----------------------------------------------------------------------------
(* Patterns. *)

Alt(ext) == [ext |-> ext, glob |-> {}, db |-> ""]
Within(q) == [ext |-> {q}, glob |-> {}, db |-> Head(q)]
Literal(q) == <<Within(q)>>
Alternation(qs) == [i \in DOMAIN qs |-> Within(qs[i])]
Spaces == <<>>

EveryColumn == <<Alt({QualifiedColumn(t, c) : t \in {Orders, Items, AuditOrders},
                                              c \in {"id", "email", "note", "who"}})>>
OrdersCols(cs) == Alternation([i \in DOMAIN cs |-> <<"public", "orders", cs[i]>>])

-----------------------------------------------------------------------------
(* Transforms. *)

Tr(kind, conditional, delim, route) ==
    [kind |-> kind, conditional |-> conditional, delim |-> delim, route |-> route]
NoRoute == <<>>

Unwrap == Tr("unwrap", FALSE, "", NoRoute)
UnwrapSome == Tr("unwrap", TRUE, "", NoRoute)
Flatten(d) == Tr("flatten", FALSE, d, NoRoute)
FlattenSome == Tr("flatten", TRUE, ".", NoRoute)
Filter == Tr("filter", TRUE, "", NoRoute)
OtherTr == Tr("other", FALSE, "", NoRoute)
Router(route) == Tr("regexrouter", FALSE, "", route)

TopicName(schema, name) == << <<"cdc">>, <<schema>>, <<name>> >>
Renamed == << <<"orders">> >>

-----------------------------------------------------------------------------
(* A Debezium connector; lists and transforms are what varies. *)

NoLists == [k \in {} |-> <<>>]

Connector(lists, transforms) ==
    [file |-> "connector.json", mysql |-> FALSE, debezium |-> TRUE,
     afterStateOnly |-> "", prefix |-> << <<"cdc">> >>,
     transforms |-> transforms, lists |-> lists]

-----------------------------------------------------------------------------
(* Sink tables. *)

Named(image, delim, name) == [image |-> image, delim |-> delim, name |-> name]

SinkTable(sink, name, topic, names, file) ==
    [sink |-> sink, name |-> name, topic |-> topic, pos |-> At(file, 1),
     columns |-> [k \in DOMAIN names |-> [name |-> names[k], pos |-> At(file, k + 1)]]]

MkMapper(kind, topics, explicit, routes, single, transforms) ==
    [kind |-> kind, topics |-> topics, explicit |-> explicit,
     routes |-> routes, single |-> single, transforms |-> transforms]

View(target, refreshable, names) ==
    [target |-> target, refreshable |-> refreshable, pos |-> At("view.sql", 1),
     columns |-> [k \in DOMAIN names |-> Bare(names[k])]]

Input(source, contract, sinks) ==
    [source |-> source, contract |-> contract, sinks |-> sinks,
     views |-> <<>>, mappers |-> <<>>, base |-> <<>>]
=============================================================================
