----------------------------- MODULE MCFixLoop -----------------------------
(***************************************************************************)
(* Connectors for the fix loop: every combination of one database list,    *)
(* one table list and one column list, each an include or an exclude list  *)
(* or absent, literal or a pattern, MySQL or not; sinks that read three    *)
(* tables of two schemas.                                                  *)
(***************************************************************************)
EXTENDS FixLoop

In == INSTANCE MCInputs WITH
        Inputs <- {}, pc <- 0, next <- 1, reads <- {}, fs <- {}, raised <- {}

Orders == In!SrcTable("shop", "orders", <<"id", "email">>, "1.sql")
Items == In!SrcTable("shop", "items", <<"id">>, "2.sql")
Bills == In!SrcTable("billing", "bills", <<"id">>, "3.sql")

Sink(schema, name, names) ==
    In!SinkTable("clickhouse", << <<name>> >>, In!TopicName(schema, name),
                 [k \in DOMAIN names |-> Bare(names[k])], name \o ".sql")

Sinks ==
    <<Sink("shop", "orders", <<"id", "email">>), Sink("shop", "items", <<"id">>),
      Sink("billing", "bills", <<"id">>)>>

(* One list under key: absent, one literal, or a pattern over several names. *)
Choice(keys, values) == {In!NoLists} \cup {[k \in {key} |-> v] : key \in keys, v \in values}

Pattern(qs) == <<In!Alt(qs)>>
PatternIn(db, qs) == <<[In!Alt(qs) EXCEPT !.db = db]>>

DbLists ==
    Choice({"database.include.list", "database.exclude.list"},
           {<<In!Literal(<<"shop">>)>>, <<In!Literal(<<"billing">>)>>})

TableLists(keys) ==
    Choice(keys, { <<In!Literal(<<"shop", "orders">>)>>,
                   <<PatternIn("shop", {<<"shop", "orders">>, <<"shop", "items">>})>>,
                   <<In!Literal(<<"billing", "bills">>), In!Literal(<<"shop", "items">>)>>,
                   <<In!Spaces>> })

ColumnLists ==
    Choice({"column.include.list", "column.blacklist"},
           { <<In!Literal(<<"shop", "orders", "id">>)>>,
             <<Pattern({<<"shop", "orders", "id">>, <<"shop", "orders", "email">>,
                        <<"shop", "items", "id">>, <<"billing", "bills", "id">>})>> })

Joined(a, b, c) ==
    [k \in DOMAIN a \cup DOMAIN b \cup DOMAIN c |->
        IF k \in DOMAIN a THEN a[k] ELSE IF k \in DOMAIN b THEN b[k] ELSE c[k]]

(* Database lists count for a MySQL connector only. *)
InputsWith(tableKeys) ==
    {In!Input(<<Orders, Items, Bills>>,
              [In!Connector(Joined(d[1], t, c), <<In!Unwrap>>) EXCEPT !.mysql = d[2]], Sinks) :
        d \in (DbLists \X {TRUE}) \cup {<<In!NoLists, FALSE>>},
        t \in TableLists(tableKeys), c \in ColumnLists}

(* A change that adds orders.email; the connector at the base was the same *)
(* one, and becomes the old one as soon as the author edits it.            *)
ChangedInputs ==
    {[In!Input(<<Orders, Items>>, In!Connector(l, <<In!Unwrap>>), <<Sink("shop", "orders", <<"id">>)>>)
        EXCEPT !.base = <<[source |-> <<In!SrcTable("shop", "orders", <<"id">>, "1.sql")>>,
                           contract |-> <<In!Connector(l, <<In!Unwrap>>)>>, changed |-> TRUE]>>] :
        l \in ColumnLists}

IncludeInputs == InputsWith({"table.include.list", "table.whitelist"}) \cup ChangedInputs

ASSUME AllEditable == \A inp \in IncludeInputs : Editable(inp)

ExcludeInputs == InputsWith({"table.exclude.list"})
=============================================================================
