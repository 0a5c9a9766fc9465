----------------------------- MODULE Transforms -----------------------------
(***************************************************************************)
(* Kafka Connect single message transforms (internal/smt/smt.go): how the  *)
(* linter follows the shape of an event's value along a connector's        *)
(* transforms= list.                                                       *)
(*                                                                         *)
(* A transform is [kind, conditional, delim, route].  kind is what its     *)
(* type makes it: "regexrouter" or another "router", a "key" transform,    *)
(* "filter", "unwrap", "flatten" (of the value), or "other".  conditional  *)
(* says it has a predicate; delim joins the names a flatten makes, and is  *)
(* never "nested", which stands for a field not joined.  route is the      *)
(* RegexRouter's replacement as a function on the topics its regex         *)
(* matches.                                                                *)
(***************************************************************************)
EXTENDS Schemas

(* The shape before any transform: after.state.only says it ("" if unset), *)
(* else a Debezium class means the envelope.                               *)
StartShape(c) ==
    CASE c.afterStateOnly = "false" -> Envelope
      [] c.afterStateOnly = "true"  -> Row
      [] OTHER -> IF c.debezium THEN Envelope ELSE UnknownShape

(* Transforms that leave the value's fields alone, predicate or not. *)
KeepsValue(tr) == tr.kind \in {"regexrouter", "router", "key", "filter"}

\* Mutant: Flatten renames the fields of an unwrapped row too.
ApplyOne_FlattensRows(s, tr) ==
    CASE s = UnknownShape \/ KeepsValue(tr) -> s
      [] tr.kind = "unwrap" /\ ~tr.conditional ->
            IF s = Envelope THEN Row ELSE UnknownShape
      [] tr.kind = "flatten" /\ ~tr.conditional -> Flattened(tr.delim)
      [] OTHER -> UnknownShape

ApplyOne(s, tr) ==
    CASE s = UnknownShape \/ KeepsValue(tr) -> s
      [] tr.kind = "unwrap" /\ ~tr.conditional ->
            IF s = Envelope THEN Row ELSE UnknownShape
      [] tr.kind = "flatten" /\ ~tr.conditional ->
            IF s = Envelope THEN Flattened(tr.delim) ELSE s
      [] OTHER -> UnknownShape

ApplyTransforms(shape, transforms) ==
    LET after[k \in 0..Len(transforms)] ==
            IF k = 0 THEN shape ELSE ApplyOne(after[k - 1], transforms[k])
    IN  after[Len(transforms)]

(* Every RegexRouter in order; the code does not look at its predicate. *)
RouteOne(topic, tr) ==
    IF tr.kind = "regexrouter" /\ topic \in DOMAIN tr.route
    THEN tr.route[topic] ELSE topic

Routed(topic, transforms) == FoldLeft(RouteOne, topic, transforms)
=============================================================================
