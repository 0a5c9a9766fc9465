---------------------------- MODULE MCSinkReader ----------------------------
(* Statements for the sink readers, over database analytics; columns a, b, *)
(* c; a Kafka table, a table, a view.                                      *)
EXTENDS SinkReader

Name(s) == <<<<s>>>>
In(db, s) == <<<<db>>, <<s>>>>
Orders == Name("orders")
OrdersV2 == Name("orders_v2")
Copy == Name("copy")
Kafka == Name("kafka_orders")
Totals == Name("mv_totals")
MCDatabase == <<"analytics">>
Topic1 == <<<<"cdc">>, <<"orders">>>>

A == Bare("a")
B == Bare("b")
C == Bare("c")

Col(n) == [kind |-> "column", name |-> n]
Key == [kind |-> "key", name |-> Bare("primary")]

CreateAs(n, guard, form, body, topics) ==
    [op |-> "create", name |-> n, guard |-> guard, form |-> form, body |-> body, topics |-> topics]
Create(n, guard, cols) == CreateAs(n, guard, "columns", <<[k \in DOMAIN cols |-> Col(cols[k])] \o <<Key>>>>, <<>>)

AtEnd == [kind |-> "end"]
After(c) == [kind |-> "after", col |-> c]
AddAt(c, where) == [op |-> "add", col |-> c, lenient |-> FALSE, where |-> where, seen |-> TRUE]
Add(c) == AddAt(c, AtEnd)
AddLenient(c) == [Add(c) EXCEPT !.lenient = TRUE]
DropColumn(c) == [op |-> "drop", col |-> c, lenient |-> FALSE, seen |-> TRUE]
RenameColumn(c, to) == [op |-> "rename", col |-> c, to |-> to, seen |-> TRUE]
AfterComma(a) == [a EXCEPT !.seen = FALSE]
Alter(n, actions) == [op |-> "alter", name |-> n, actions |-> actions]

Drop(names) == [op |-> "drop", names |-> names, ifExists |-> FALSE]
Exchange(a, b) == [op |-> "exchange", a |-> a, b |-> b]
Rename(pairs) == [op |-> "rename", pairs |-> pairs]
Pair(from, to) == [from |-> from, to |-> to]

View(guard, target, refreshable, columns) ==
    [op |-> "createview", name |-> Totals, guard |-> guard, target |-> target,
     refreshable |-> refreshable, columns |-> columns]
DropView1 == [op |-> "dropview", name |-> Totals, ifExists |-> TRUE]

-----------------------------------------------------------------------------
(* Statements the readers follow: one table per last segment, columns      *)
(* added at the end, a view dropped before it is created again.            *)
Tables ==
    {Create(Orders, "", <<A, B>>),
     Create(In("analytics", "orders"), "unless", <<C>>),
     Create(In("analytics", "orders"), "replace", <<B, A>>),
     CreateAs(Kafka, "", "columns", <<<<Col(A), Col(B)>>>>, <<Topic1>>),
     Create(OrdersV2, "modified", <<B, A>>),
     CreateAs(Copy, "replace", "query", <<>>, <<>>),
     Alter(Orders, <<Add(C), DropColumn(A)>>),
     Alter(In("analytics", "orders"), <<AddLenient(B), RenameColumn(B, C)>>),
     Alter(Kafka, <<Add(C)>>),
     Alter(Orders, <<DropColumn(A), DropColumn(B), Add(A)>>),
     Drop(<<In("analytics", "orders")>>), Drop(<<OrdersV2>>), Drop(<<Copy>>),
     Exchange(Orders, In("analytics", "orders_v2")),
     Exchange(Kafka, Orders),
     Rename(<<Pair(Orders, OrdersV2)>>),
     Rename(<<Pair(OrdersV2, In("analytics", "orders")), Pair(Kafka, OrdersV2)>>)}

Views ==
    {View("", Orders, TRUE, <<A, B>>),
     View("", Kafka, FALSE, <<B, C>>),
     DropView1}

Followed == Tables \cup Views

ASSUME FollowedAssumption == Followable(Followed) /\ ViewsFollowable(Followed) /\ InOrder(Followed)

MCSections == {"up"}
BothSections == {"up", "down"}

-----------------------------------------------------------------------------
(* Statements the readers do not follow: with any of these in place of     *)
(* Followed, or with BothSections, one of the properties fails.            *)
Ordered == Followed \cup {Alter(Orders, <<AddAt(C, After(A))>>), View("", Orders, TRUE, <<A, C, B>>)}

QualifiedTargets == Followed \cup {View("", In("analytics", "orders"), TRUE, <<B, A>>)}

Databases == Followed \cup {Create(In("mart", "orders"), "", <<C>>)}

Queries == Followed \cup {Exchange(Orders, Copy)}

Lists == Followed \cup {Alter(Orders, <<Add(C), AfterComma(Add(Bare("d")))>>)}
=============================================================================
