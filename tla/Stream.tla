------------------------------- MODULE Stream -------------------------------
(***************************************************************************)
(* What the linter predicts, stated without the linter: the fields that    *)
(* really arrive at a sink.  Debezium and Kafka Connect are not in src/;   *)
(* this is their documented behaviour as the comments of internal/smt and  *)
(* internal/engine describe it, computed on the fields themselves instead  *)
(* of on the four shapes the code keeps.                                   *)
(*                                                                         *)
(* A value is a set of fields, each named as a sink column is, with the    *)
(* delimiter "nested" for a field still inside before, after or source.    *)
(***************************************************************************)
EXTENDS Contract, Mapper

EnvelopeValue(cols) ==
    {[image |-> w, delim |-> "nested", name |-> c] : w \in {"before", "after"}, c \in cols}
        \cup {Bare(f) : f \in EnvelopeFields}

IsEnvelope(v) == \E f \in v : f.delim = "nested"

Unwrapped(v) == {Bare(f.name) : f \in {g \in v : g.image = "after" /\ g.delim = "nested"}}

Joined(v, d) == {IF f.delim = "nested" THEN [f EXCEPT !.delim = d] ELSE f : f \in v}

(* ExtractNewRecordState passes on what is not an envelope; Flatten leaves *)
(* a flat value as it is.                                                  *)
Transformed(v, tr) ==
    CASE tr.kind = "unwrap" /\ IsEnvelope(v) -> Unwrapped(v)
      [] tr.kind = "flatten" /\ IsEnvelope(v) -> Joined(v, tr.delim)
      [] OTHER -> v

(* Under a predicate only some records are transformed. *)
EachTransformed(values, tr) ==
    {Transformed(v, tr) : v \in values} \cup (IF tr.conditional THEN values ELSE {})

AllTransformed(values, transforms) ==
    LET after[k \in 0..Len(transforms)] ==
            IF k = 0 THEN values ELSE EachTransformed(after[k - 1], transforms[k])
    IN  after[Len(transforms)]

StartValue(c, cols) ==
    IF c.afterStateOnly = "true" THEN {Bare(col) : col \in cols} ELSE EnvelopeValue(cols)

Carries(c, t) == {col \in DOMAIN t.cols : CapturesColumn(c, t, col)}

(* The values table t's events may have when they reach the sink. *)
Values(c, t, transforms) ==
    AllTransformed(AllTransformed({StartValue(c, Carries(c, t))}, c.transforms), transforms)

(* Every transform is one whose effect on the value is documented, and so  *)
(* is the value they start from.                                           *)
Documented(c, transforms) ==
    /\ c.afterStateOnly # "" \/ c.debezium
    /\ \A tr \in ToSet(c.transforms \o transforms) : tr.kind # "other"

(* The (table, mapper) pairs whose events reach a sink table: every table  *)
(* whose topic it reads, or that a connector of its warehouse writes there. *)
Feeders(inp, st) ==
    {im \in (DOMAIN inp.source) \X (0..Len(inp.mappers)) :
        LET topic == Topic(inp.contract, inp.source[im[1]])
        IN  IF st.topic # <<>> THEN im[2] = 0 /\ topic = st.topic
            ELSE im[2] # 0 /\ ForSink(inp.mappers[im[2]], st.sink)
                           /\ Maps(inp.mappers[im[2]], topic, st)}

Between(inp, im) == IF im[2] = 0 THEN <<>> ELSE inp.mappers[im[2]].transforms

(* No event of that table carries a field of that name through m. *)
NeverArrives(inp, im, n) ==
    \A v \in Values(inp.contract, inp.source[im[1]], Between(inp, im)) : n \notin v
=============================================================================
