------------------------------- MODULE Mapper -------------------------------
(***************************************************************************)
(* Sink connectors (internal/sink/connect/connect.go): which topics one    *)
(* consumes, which table it writes each to, and what its own transforms    *)
(* make of the value.                                                      *)
(*                                                                         *)
(* A mapper is [kind, topics, explicit, routes, single, transforms].       *)
(* topics is what topics= and topics.regex subscribe to, explicit the      *)
(* connector's topic-to-table map, routes Iceberg's [table, topics] in     *)
(* order, and single the only table iceberg.tables names (<<>> for none).  *)
(***************************************************************************)
EXTENDS Transforms

Consumes(m, topic) == topic \in m.topics

(* Dots become underscores: Snowflake's and BigQuery's derived name. *)
Underscored(topic) == <<FlattenSeq(topic)>>

IcebergTable(m, topic) ==
    LET at == SelectInSeq(m.routes, LAMBDA r : topic \in r.topics)
    IN  CASE at # 0 -> m.routes[at].table
          [] at = 0 /\ m.single # <<>> -> m.single
          [] OTHER -> LastSegment(topic)

(* The table the connector writes topic to, given that it consumes it. *)
TableFor(m, topic) ==
    CASE topic \in DOMAIN m.explicit -> m.explicit[topic]
      [] topic \notin DOMAIN m.explicit /\ m.kind = "iceberg" -> IcebergTable(m, topic)
      [] topic \notin DOMAIN m.explicit /\ m.kind \in {"snowflake", "bigquery"} ->
            Underscored(topic)
      [] OTHER -> topic

(* Only the last segments are compared, so qualification is not. *)
Matches(declared, mapped) == LastSegment(declared) = LastSegment(mapped)

Reshape(m, shape) == ApplyTransforms(shape, m.transforms)

(* Whether m can feed sink table st from topic. *)
Maps(m, topic, st) == Consumes(m, topic) /\ Matches(st.name, TableFor(m, topic))

(* A mapper of an unknown connector class is tried for every sink. *)
ForSink(m, sink) == m.kind \in {"unknown", sink}
=============================================================================
