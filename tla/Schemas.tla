------------------------------ MODULE Schemas ------------------------------
(***************************************************************************)
(* The vocabulary every other module speaks: names, source tables, sink    *)
(* tables, event shapes and findings (internal/model/model.go).            *)
(*                                                                         *)
(* Names are compared case-insensitively everywhere in the code, so a name *)
(* stands here for its case class and equality is strings.EqualFold.  A    *)
(* topic or a qualified sink name is a sequence of dotted segments, and a  *)
(* segment a sequence of the parts an underscore joins: cdc.public.orders  *)
(* is << <<"cdc">>, <<"public">>, <<"orders">> >> and cdc_public_orders is *)
(* << <<"cdc", "public", "orders">> >>.                                    *)
(***************************************************************************)
EXTENDS Integers, Sequences, SequencesExt

IsSequence(s) == s = [i \in 1..Len(s) |-> s[i]] /\ Len(s) \in Nat

(***************************************************************************)
(* A sink column's name.  image is "" for a bare name; "after", "before",  *)
(* "source" or "transaction" for a name that starts with that word and     *)
(* delim, the flattened envelope's spelling of a nested field.             *)
(***************************************************************************)
Bare(n) == [image |-> "", delim |-> "", name |-> n]

MetadataNames == {"_meta", "RECORD_METADATA", "RECORD_CONTENT"}
EnvelopeFields == {"op", "ts_ms", "ts_us", "ts_ns"}

(* Fields the connector or the sink adds around the row. *)
IsMetadata(n) == n.image = "" /\ n.name \in MetadataNames

LastSegment(name) == <<Last(name)>>

(***************************************************************************)
(* The source: a sequence of tables [schema, name, cols], cols a function  *)
(* from the table's column names to where each was declared.               *)
(***************************************************************************)
Qualified(t) == <<t.schema, t.name>>
QualifiedColumn(t, c) == <<t.schema, t.name, c>>

HasColumn(t, n) == n.image = "" /\ n.name \in DOMAIN t.cols

(* Index of the first table of that name, in that schema unless "" is      *)
(* given; 0 when there is none.                                            *)
SourceTable(source, schema, name) ==
    SelectInSeq(source, LAMBDA t : t.name = name /\ schema \in {"", t.schema})

(***************************************************************************)
(* Findings.  subject says which objects the message names: the sink table *)
(* and the item there (<<k>> for column k of the sink table or of a view,  *)
(* <<e, a>> for alternative a of list entry e), the source table and its   *)
(* column; 0, <<>> and "" where there is none.                             *)
(* Two findings are equal only if the code would print the same lines for  *)
(* the same objects, so a set of findings is the report; model.Sort makes  *)
(* the printed order a function of that set.                               *)
(***************************************************************************)
Info == 0
Warning == 1
Error == 2

(* The edit a finding asks for: the names to put in, or take out of, a list. *)
NoFix == [setting |-> "", entry |-> {}]

Subject(s, k, t, c) == [sink |-> s, item |-> k, table |-> t, column |-> c]

Finding(rule, severity, pos, subject, fix) ==
    [rule |-> rule, severity |-> severity, pos |-> pos,
     subject |-> subject, fix |-> fix]

(* What a change event looks like to a sink. *)
UnknownShape == [kind |-> "unknown", delim |-> ""]
Envelope == [kind |-> "envelope", delim |-> ""]
Row == [kind |-> "row", delim |-> ""]
Flattened(d) == [kind |-> "flattened", delim |-> d]
=============================================================================
