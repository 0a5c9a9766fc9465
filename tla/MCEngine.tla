------------------------------ MODULE MCEngine ------------------------------
(***************************************************************************)
(* Inputs for one run of the rules, in families: what the connector        *)
(* captures against what a sink reads, how a sink connector maps a topic,  *)
(* what the change did since the base, views, and stale include lists.     *)
(***************************************************************************)
EXTENDS MCInputs

-----------------------------------------------------------------------------
(* Captures x transforms x sink spellings. *)

CaptureLists ==
    { NoLists,
      [k \in {"column.include.list"} |-> <<OrdersCols(<<"id">>)>>],
      [k \in {"column.whitelist"} |-> <<OrdersCols(<<"id", "email">>)>>],
      [k \in {"column.exclude.list"} |-> <<Literal(<<"public", "orders", "email">>)>>],
      [k \in {"table.include.list"} |-> <<Literal(<<"public", "items">>)>>],
      [k \in {"table.exclude.list"} |-> <<Literal(<<"public", "orders">>)>>],
      [k \in {"column.include.list", "column.exclude.list"} |->
          IF k = "column.include.list" THEN <<Spaces, Spaces>>
          ELSE <<Literal(<<"public", "orders", "email">>)>>],
      [k \in {"column.include.list", "column.whitelist"} |->
          IF k = "column.include.list" THEN <<Spaces>> ELSE <<OrdersCols(<<"id">>)>>] }

Alphabet ==
    { Unwrap, UnwrapSome, Flatten("."), Flatten("_"), FlattenSome, Filter, OtherTr,
      Router([t \in {TopicName("public", "orders")} |-> Renamed]) }

(* Every chain of at most two transforms. *)
Chains == {<<>>} \cup {<<x>> : x \in Alphabet} \cup {<<x, y>> : x, y \in Alphabet}

Spellings ==
    { <<Bare("id"), Bare("email")>>,
      <<Bare("_meta"), Bare("id"), Bare("other")>>,
      <<Named("after", ".", "id"), Named("before", ".", "email"), Bare("op")>>,
      <<Named("after", "_", "email"), Named("source", "_", "lsn"), Bare("email")>> }

CaptureInputs ==
    {Input(<<Orders, Items>>, [Connector(l, ch) EXCEPT !.afterStateOnly = a],
           <<SinkTable("clickhouse", << <<"cdc">>, <<"q">> >>, tp, names, "q.sql")>>) :
        l \in CaptureLists, ch \in Chains, names \in Spellings,
        tp \in {TopicName("public", "orders"), Renamed}, a \in {"", "true"}}

(* A source column named as a field of the envelope is. *)
EnvelopeNames ==
    {Input(<<SrcTable("public", "orders", <<"id", "op">>, "1_orders.sql")>>, Connector(l, ch),
           <<SinkTable("clickhouse", << <<"q">> >>, TopicName("public", "orders"), names, "q.sql")>>) :
        l \in CaptureLists, ch \in {<<>>, <<Unwrap>>, <<UnwrapSome>>, <<Flatten(".")>>},
        names \in {<<Bare("op")>>, <<Bare("id"), Bare("op"), Named("after", ".", "op")>>}}

(* A connector whose starting value is not known. *)
OtherConnectors ==
    {Input(<<Orders>>, [Connector(l, <<Unwrap>>) EXCEPT !.debezium = FALSE, !.afterStateOnly = a],
           <<SinkTable("clickhouse", << <<"q">> >>, TopicName("public", "orders"),
                       <<Bare("id"), Bare("email")>>, "q.sql")>>) :
        l \in CaptureLists, a \in {"", "true", "false"}}

(* MySQL: databases are filtered before tables. *)
MySQLInputs ==
    {Input(<<Orders>>, [Connector(l, <<Unwrap>>) EXCEPT !.mysql = TRUE],
           <<SinkTable("clickhouse", << <<"q">> >>, TopicName("public", "orders"),
                       <<Bare("id"), Bare("email")>>, "q.sql")>>) :
        l \in { [k \in {d, t} |-> <<IF k = d THEN Literal(<<db>>) ELSE Literal(<<"public", "orders">>)>>] :
                   d \in {"database.include.list", "database.exclude.list"},
                   t \in {"table.include.list", "table.exclude.list"}, db \in {"public", "audit"}}}

-----------------------------------------------------------------------------
(* Sink connectors: two source tables of one name, every kind of mapper. *)

NoMap == [t \in {} |-> <<>>]
PublicOrders == TopicName("public", "orders")
AuditTopic == TopicName("audit", "orders")
Lake == << <<"lake">>, <<"orders">> >>

Mappers ==
    { MkMapper("snowflake", {PublicOrders}, NoMap, <<>>, <<>>, <<>>),
      MkMapper("bigquery", {PublicOrders}, [t \in {PublicOrders} |-> Lake], <<>>, <<>>, <<Unwrap>>),
      MkMapper("clickhouse", {PublicOrders}, NoMap, <<>>, <<>>, <<Flatten(".")>>),
      MkMapper("clickhouse", {PublicOrders, AuditTopic}, NoMap, <<>>, <<>>, <<Unwrap>>),
      MkMapper("unknown", {AuditTopic}, NoMap, <<>>, <<>>, <<Unwrap>>),
      MkMapper("iceberg", {PublicOrders, AuditTopic}, NoMap,
               <<[table |-> << <<"lake">>, <<"audit">> >>, topics |-> {AuditTopic}]>>, <<>>, <<Unwrap>>),
      MkMapper("iceberg", {PublicOrders, AuditTopic}, NoMap, <<>>, Lake, <<Unwrap>>) }

SinkNames ==
    { << <<"raw">>, <<"cdc", "public", "orders">> >>, Lake,
      << <<"lake">>, <<"audit">> >>, << <<"lake">>, <<"items">> >> }

MapperInputs ==
    {[Input(<<Orders, AuditOrders>>, Connector(l, <<>>),
            <<SinkTable(sink, name, <<>>,
                        <<Bare("id"), Bare("email"), Named("after", ".", "email")>>, "t.sql")>>)
        EXCEPT !.mappers = ms] :
        sink \in {"clickhouse", "snowflake", "bigquery", "iceberg"}, name \in SinkNames,
        l \in {NoLists, [k \in {"column.include.list"} |-> <<OrdersCols(<<"id">>)>>]},
        ms \in {<<>>} \cup {<<m>> : m \in Mappers} \cup {<<m, MkMapper("unknown", {AuditTopic}, NoMap, <<>>, <<>>, <<>>)>> : m \in Mappers}}

(* Two tables routed onto one topic: the last one is taken to be on it. *)
MergedTopics ==
    {Input(src, Connector([k \in {"column.include.list"} |-> <<OrdersCols(<<"id">>)>>],
                   <<Router([t \in {PublicOrders, AuditTopic} |-> Renamed]), Unwrap>>),
           <<SinkTable("clickhouse", << <<"q">> >>, Renamed, <<Bare("email"), Bare("who")>>, "q.sql")>>) :
        src \in {<<Orders, AuditOrders>>, <<AuditOrders, Orders>>}}

-----------------------------------------------------------------------------
(* The change since the base. *)

Ids == <<Literal(<<"public", "orders", "id">>), Literal(<<"public", "items", "id">>)>>

HeadLists ==
    { [k \in {"column.include.list"} |-> Ids],
      [k \in {"column.include.list"} |-> <<OrdersCols(<<"id", "email">>)>>],
      [k \in {"column.exclude.list"} |-> <<Literal(<<"public", "orders", "email">>)>>],
      [k \in {"column.include.list", "table.include.list"} |->
          IF k = "column.include.list" THEN Ids ELSE <<Literal(<<"public", "orders">>)>>] }

OldLists ==
    HeadLists \cup
    { NoLists, [k \in {"column.include.list"} |-> <<EveryColumn>>],
      [k \in {"table.include.list"} |-> <<Literal(<<"public", "items">>)>>] }

Bases ==
    {<<[source |-> src, contract |-> <<>>, changed |-> ch]>> :
        src \in {<<OrdersOld, ItemsOld>>, <<Orders>>, <<ItemsOld>>}, ch \in BOOLEAN}
    \cup
    {<<[source |-> <<OrdersOld, ItemsOld>>, contract |-> <<Connector(l, <<Unwrap>>)>>, changed |-> TRUE]>> :
        l \in OldLists}

DiffInputs ==
    {[Input(<<Orders, Items>>, Connector(l, <<Unwrap>>),
            <<SinkTable("clickhouse", << <<"q">> >>, TopicName("public", "orders"), names, "q.sql")>>)
        EXCEPT !.base = b] :
        l \in HeadLists, b \in Bases,
        names \in {<<Bare("id")>>, <<Bare("id"), Bare("email")>>}}

-----------------------------------------------------------------------------
(* Views over two ClickHouse tables of one last name. *)

ViewInputs ==
    {[Input(<<Orders>>, Connector(NoLists, <<Unwrap>>),
            <<SinkTable("clickhouse", << <<"a">>, <<"t">> >>, <<>>, <<Bare("x"), Bare("y")>>, "a.sql"),
              SinkTable("clickhouse", << <<"b">>, second >>, <<>>, <<Bare("y"), Bare("x"), Bare("z")>>, "b.sql")>>)
        EXCEPT !.views = <<View(target, r, names)>>] :
        second \in {<<"t">>, <<"u">>},
        target \in {<<>>, << <<"t">> >>, << <<"a">>, <<"t">> >>, << <<"u">> >>},
        r \in BOOLEAN,
        names \in {<<"x">>, <<"x", "y">>, <<"y", "x">>, <<"y", "x", "z">>, <<"y", "x", "w">>, <<"x", "y", "x">>, <<"x", "y", "z", "w">>}}

-----------------------------------------------------------------------------
(* Include lists that match nothing: no schema, a shell glob, a typo, and  *)
(* a blank new key that hides a filled deprecated one from first().        *)

NoSchema == <<[ext |-> {<<"orders">>}, glob |-> {}, db |-> ""]>>
ShellGlob == <<[ext |-> {}, glob |-> {<<"public", "orders">>, <<"public", "items">>}, db |-> "public"]>>
Typo == <<Alt({<<"public", "ordres">>})>>

StaleInputs ==
    {Input(<<Orders, Items>>, Connector(l, <<Unwrap>>),
           <<SinkTable("clickhouse", << <<"q">> >>, tp, <<Bare("id")>>, "q.sql")>>) :
        tp \in {TopicName("public", "orders"), << <<"cdc">>, <<"typo">> >>},
        l \in {[k \in {key} |-> value] :
                  key \in {"table.include.list", "table.whitelist"},
                  value \in {<<NoSchema>>, <<ShellGlob>>, <<Typo, Literal(<<"public", "orders">>)>>, <<Spaces, Typo>>}}
              \cup {[k \in {"table.include.list", "table.whitelist"} |->
                       IF k = "table.include.list" THEN <<Spaces>> ELSE <<NoSchema>>],
                    [k \in {"column.include.list"} |-> <<OrdersCols(<<"id", "emial">>)>>]}}

MCInputsAll ==
    CaptureInputs \cup EnvelopeNames \cup OtherConnectors \cup MySQLInputs \cup MapperInputs \cup MergedTopics
        \cup DiffInputs \cup ViewInputs \cup StaleInputs
=============================================================================
