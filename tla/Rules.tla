------------------------------- MODULE Rules -------------------------------
(***************************************************************************)
(* The rules (internal/engine): how every sink column is resolved to the   *)
(* source column it expects, and what each rule finds in the result.       *)
(*                                                                         *)
(* An input is [source, contract, sinks, views, mappers, base].            *)
(*   sinks   the sink tables of every sink, in the order they were read:   *)
(*           [sink, name, topic, columns, pos], topic <<>> unless the      *)
(*           table names one, columns a sequence of [name, pos]            *)
(*   views   [target, refreshable, columns, pos], target <<>> for none     *)
(*   base    <<>> without --base, else one [source, contract, changed]     *)
(*           whose contract is <<>> or one contract                        *)
(* A read is one sink column that some source table feeds, or, with table  *)
(* 0, a sink table whose topic no source table produces.                   *)
(***************************************************************************)
EXTENDS Contract, Mapper

(* Two source tables never share a qualified name: the readers keep one    *)
(* table per name.                                                         *)
DistinctTables(inp) ==
    \A i, j \in DOMAIN inp.source :
        Qualified(inp.source[i]) = Qualified(inp.source[j]) => i = j

(* A sink column's name has the three parts of a name, and is a bare one   *)
(* when it is no image of a field.                                         *)
PlainNames(inp) ==
    \A s \in DOMAIN inp.sinks : \A k \in DOMAIN inp.sinks[s].columns :
        LET n == inp.sinks[s].columns[k].name
        IN  /\ n = [image |-> n.image, delim |-> n.delim, name |-> n.name]
            /\ n.image = "" => n = Bare(n.name)

(* A connector's transforms, none of which joins with what stands for not  *)
(* joined.                                                                 *)
IsChain(transforms) ==
    IsSequence(transforms) /\ \A k \in DOMAIN transforms : transforms[k].delim # "nested"

(* The fields of an input, and of its base if it has one. *)
HasFields(inp) ==
    /\ DOMAIN inp = {"source", "contract", "sinks", "views", "mappers", "base"}
    /\ inp.base # <<>> => /\ DOMAIN inp.base = {1}
                          /\ DOMAIN inp.base[1] = {"source", "contract", "changed"}

IsInput(inp) ==
    /\ HasFields(inp)
    /\ IsSequence(inp.source) /\ IsSequence(inp.sinks)
    /\ IsSequence(inp.views) /\ IsSequence(inp.mappers)
    /\ IsChain(inp.contract.transforms)
    /\ \A m \in DOMAIN inp.mappers : IsChain(inp.mappers[m].transforms)
    /\ \A s \in DOMAIN inp.sinks : IsSequence(inp.sinks[s].columns)
    /\ \A x \in DOMAIN inp.views : IsSequence(inp.views[x].columns)
    /\ DistinctTables(inp)
    /\ PlainNames(inp)

-----------------------------------------------------------------------------
(* What a sink column receives under a shape. *)

\* Mutant: any delimiter after the image word will do.
Image_AnyDelimiter(shape, n) ==
    shape.kind = "flattened" /\ n.image \in {"after", "before"}

Image(shape, n) ==
    shape.kind = "flattened" /\ n.image \in {"after", "before"} /\ n.delim = shape.delim

Skipped(shape, n) ==
    \/ IsMetadata(n)
    \/ /\ shape.kind = "flattened"
       /\ \/ n.image = "" /\ n.name \in EnvelopeFields
          \/ n.image \in {"source", "transaction"} /\ n.delim = shape.delim

Unreached(shape, t, n) ==
    /\ shape.kind = "flattened"
    /\ ~Skipped(shape, n) /\ ~Image(shape, n) /\ HasColumn(t, n)

Field(shape, n) == IF Image(shape, n) THEN Bare(n.name) ELSE n

-----------------------------------------------------------------------------
(* Resolution of a sink table.  byTopic is a map filled in table order, so *)
(* of two tables on one topic the last stays; it is walked in no order.    *)

TopicOf(inp, i) == Topic(inp.contract, inp.source[i])

TableOn(inp, topic) ==
    SelectLastInSeq(inp.source, LAMBDA t : Topic(inp.contract, t) = topic)

Topics(inp) == {TopicOf(inp, i) : i \in DOMAIN inp.source}

(* Topics the mapper at m can feed sink table st from. *)
Candidates(inp, st, m) ==
    {tp \in Topics(inp) : /\ ForSink(inp.mappers[m], st.sink)
                          /\ Maps(inp.mappers[m], tp, st)}

(* The first connector that has any, 0 for none. *)
FirstConnector(inp, st) ==
    SelectInSeq([k \in DOMAIN inp.mappers |-> Candidates(inp, st, k)],
                LAMBDA tps : tps # {})

ByConnector(inp, st) ==
    LET m == FirstConnector(inp, st)
    IN  IF m = 0 THEN {}
        ELSE {[table |-> TableOn(inp, tp), mapper |-> m] : tp \in Candidates(inp, st, m)}

(* The first source table of st's name; ClickHouse tables are not assumed  *)
(* to be fed by the table of their name.                                   *)
Namesakes(inp, st) ==
    {i \in DOMAIN inp.source :
        /\ st.sink # "clickhouse"
        /\ LastSegment(st.name) = << <<inp.source[i].name>> >>
        /\ i = SourceTable(inp.source, "", inp.source[i].name)}

ByName(inp, st) == {[table |-> i, mapper |-> 0] : i \in Namesakes(inp, st)}

(* Every way resolve may tie st to a source table. *)
Resolutions(inp, st) ==
    IF st.topic # <<>>
    THEN {[table |-> TableOn(inp, st.topic), mapper |-> 0]}
    ELSE IF ByConnector(inp, st) # {} THEN ByConnector(inp, st)
    ELSE IF ByName(inp, st) # {} THEN ByName(inp, st)
    ELSE {[table |-> 0, mapper |-> 0]}

ShapeFor(inp, w) ==
    IF w.mapper = 0 THEN ValueShape(inp.contract)
    ELSE Reshape(inp.mappers[w.mapper], ValueShape(inp.contract))

(* One read per column of a mapped sink table that is not skipped. *)
MappedReads(inp, s, w) ==
    LET columns == inp.sinks[s].columns
        shape == ShapeFor(inp, w)
    IN  {[sink |-> s, col |-> k, table |-> w.table,
          field |-> Field(shape, columns[k].name),
          unreached |-> Unreached(shape, inp.source[w.table], columns[k].name)] :
            k \in {j \in DOMAIN columns : ~Skipped(shape, columns[j].name)}}

UnmappedRead(s) ==
    [sink |-> s, col |-> 0, table |-> 0, field |-> Bare(""), unreached |-> FALSE]

(* A sink table that names no topic and maps to nothing leaves no read.    *)
ReadsOf(inp, s, w) ==
    CASE w.table # 0 -> MappedReads(inp, s, w)
      [] w.table = 0 /\ inp.sinks[s].topic # <<>> -> {UnmappedRead(s)}
      [] OTHER -> {}

-----------------------------------------------------------------------------
(* Shorthands over reads. *)

Captured(inp, i) == CapturesTable(inp.contract, inp.source[i])

ColumnCaptured(inp, i, c) == CapturesColumn(inp.contract, inp.source[i], c)

SourceOf(inp, r) == inp.source[r.table]

Column(inp, i, c) == QualifiedColumn(inp.source[i], c)

(* The qualified names of the fields some sink column receives. *)
Declared(inp, reads) ==
    {QualifiedColumn(SourceOf(inp, r), r.field) : r \in {q \in reads : q.table # 0 /\ ~q.unreached}}

IsDeclared(inp, reads, i, c) ==
    Column(inp, i, Bare(c)) \in Declared(inp, reads)

(* A fix edits the list a contract names, for the name the finding gives. *)
ColumnFix(inp, i, c) ==
    [setting |-> ColumnListSetting(inp.contract), entry |-> {Column(inp, i, c)}]

(* The source columns, each as its table's number and its name. *)
SourceColumns(inp) ==
    UNION {{<<i, c>> : c \in DOMAIN inp.source[i].cols} : i \in DOMAIN inp.source}

(* The columns of captured tables that the connector leaves out. *)
LeftOut(inp) ==
    {ic \in SourceColumns(inp) :
        Captured(inp, ic[1]) /\ ~ColumnCaptured(inp, ic[1], ic[2])}

-----------------------------------------------------------------------------
(* The rules over reads. *)

TopicTableMapping(inp, reads) ==
    {Finding("topic-table-mapping", Error, inp.sinks[s].pos,
             Subject(s, <<>>, 0, ""), NoFix) :
        s \in {r.sink : r \in {q \in reads : q.table = 0}}}

SinkTableNotCaptured(inp, reads) ==
    {Finding("sink-table-not-captured", Error, inp.sinks[r.sink].pos,
             Subject(r.sink, <<>>, r.table, ""), TableBlock(inp.contract, SourceOf(inp, r))) :
        r \in {q \in reads : q.table # 0 /\ ~Captured(inp, q.table)}}

SinkColumnNotCaptured(inp, reads) ==
    {Finding("sink-column-not-captured", Error, inp.sinks[r.sink].columns[r.col].pos,
             Subject(r.sink, <<r.col>>, r.table, r.field.name),
             ColumnFix(inp, r.table, r.field.name)) :
        r \in {q \in reads :
                 /\ q.table # 0 /\ Captured(inp, q.table)
                 /\ ~q.unreached /\ HasColumn(SourceOf(inp, q), q.field)
                 /\ ~ColumnCaptured(inp, q.table, q.field.name)}}

SinkColumnUnknown(inp, reads) ==
    {Finding("sink-column-unknown", Warning, inp.sinks[r.sink].columns[r.col].pos,
             Subject(r.sink, <<r.col>>, r.table, ""), NoFix) :
        r \in {q \in reads :
                 q.table # 0 /\ ~q.unreached /\ ~HasColumn(SourceOf(inp, q), q.field)}}

(* One finding per sink table: one transform causes all of them. *)
SinkColumnFlattened(inp, reads) ==
    {Finding("sink-column-flattened", Error, inp.sinks[r.sink].pos,
             Subject(r.sink, <<>>, r.table, ""), NoFix) :
        r \in {q \in reads : q.unreached}}

-----------------------------------------------------------------------------
(* The diff rule and the inventory, which leaves out what it raised. *)

(* The connector as it was at the base: the head's when git says the file  *)
(* is the same, <<>> when it did not exist.                                *)
BaseContract(inp) ==
    IF inp.base[1].changed THEN inp.base[1].contract ELSE <<inp.contract>>

DiffApplies(inp) ==
    inp.base # <<>> /\ ~Excludes(ColumnListSetting(inp.contract))

(* The base's table of the same name, 0 for a table new in the change. *)
BaseTable(inp, i) ==
    SourceTable(inp.base[1].source, inp.source[i].schema, inp.source[i].name)

(* The change put neither the table nor the connector there. *)
CapturedAtBase(inp, i) ==
    /\ BaseTable(inp, i) # 0
    /\ BaseContract(inp) # <<>>
    /\ CapturesTable(BaseContract(inp)[1], inp.source[i])

\* Mutant: a new column is raised although the connector captures it.
Raised_CapturedToo(inp, reads) ==
    IF ~DiffApplies(inp) THEN {}
    ELSE {ic \in SourceColumns(inp) :
            /\ Captured(inp, ic[1]) /\ CapturedAtBase(inp, ic[1])
            /\ ic[2] \notin DOMAIN inp.base[1].source[BaseTable(inp, ic[1])].cols
            /\ ~IsDeclared(inp, reads, ic[1], ic[2])}

\* Mutant: the first release, silent whenever the connector file changed.
Raised_SilentIfConnectorChanged(inp, reads) ==
    IF ~DiffApplies(inp) \/ inp.base[1].changed THEN {}
    ELSE {ic \in LeftOut(inp) :
            /\ CapturedAtBase(inp, ic[1])
            /\ ic[2] \notin DOMAIN inp.base[1].source[BaseTable(inp, ic[1])].cols
            /\ ~IsDeclared(inp, reads, ic[1], ic[2])}

(* Columns the change adds, leaves out of the stream and gives to no sink. *)
Raised(inp, reads) ==
    IF ~DiffApplies(inp) THEN {}
    ELSE {ic \in LeftOut(inp) :
            /\ CapturedAtBase(inp, ic[1])
            /\ ic[2] \notin DOMAIN inp.base[1].source[BaseTable(inp, ic[1])].cols
            /\ ~IsDeclared(inp, reads, ic[1], ic[2])}

SchemaBeforeConnector(inp, reads) ==
    {Finding("schema-before-connector", Warning, inp.source[ic[1]].cols[ic[2]],
             Subject(0, <<>>, ic[1], ic[2]), ColumnFix(inp, ic[1], ic[2])) :
        ic \in Raised(inp, reads)}

\* Mutant: the inventory does not leave out what the diff rule raised.
SourceColumnNotCaptured_RaisedToo(inp, reads, raised) ==
    {Finding("source-column-not-captured", Info, inp.source[ic[1]].cols[ic[2]],
             Subject(0, <<>>, ic[1], ic[2]), NoFix) :
        ic \in {jc \in LeftOut(inp) : ~IsDeclared(inp, reads, jc[1], jc[2])}}

SourceColumnNotCaptured(inp, reads, raised) ==
    {Finding("source-column-not-captured", Info, inp.source[ic[1]].cols[ic[2]],
             Subject(0, <<>>, ic[1], ic[2]), NoFix) :
        ic \in {jc \in LeftOut(inp) :
                  ~IsDeclared(inp, reads, jc[1], jc[2]) /\ jc \notin raised}}

-----------------------------------------------------------------------------
(* The include lists, alternative by alternative.  item is the entry and   *)
(* the alternative in it; the fix gives the names to write in its place,   *)
(* or none: then the message says to remove it.                            *)

Alternatives(value) == UNION {{<<e, a>> : a \in DOMAIN value[e]} : e \in DOMAIN value}

EntryFinding(inp, rule, setting, ea, entry) ==
    Finding(rule, Warning, ContractPos(inp.contract), Subject(0, ea, 0, ""),
            [setting |-> setting, entry |-> entry])

CapturedColumnMissing(inp) ==
    LET value == ColumnPatterns(inp.contract)
        Stale(ea) == \A i \in DOMAIN inp.source : \A c \in DOMAIN inp.source[i].cols :
                        Column(inp, i, c) \notin value[ea[1]][ea[2]].ext
    IN  {EntryFinding(inp, "captured-column-missing", ColumnListSetting(inp.contract),
                      ea, {}) :
            ea \in {e \in Alternatives(value) : Stale(e)}}

(* The tables a fix names: those an entry without its schema, or else one  *)
(* written as a shell glob, would have meant.                              *)
MeantTables(inp, alt) ==
    LET bare == {t \in ToSet(inp.source) : <<t.name>> \in alt.ext}
        glob == {t \in ToSet(inp.source) : Qualified(t) \in alt.glob}
    IN  IF bare # {} THEN bare ELSE glob

CapturedTableMissing(inp) ==
    LET value == TablePatterns(inp.contract)
        Stale(ea) == \A i \in DOMAIN inp.source :
                        Qualified(inp.source[i]) \notin value[ea[1]][ea[2]].ext
    IN  {EntryFinding(inp, "captured-table-missing", TableListSetting(inp.contract), ea,
                      {Qualified(t) : t \in MeantTables(inp, value[ea[1]][ea[2]])}) :
            ea \in {e \in Alternatives(value) : Stale(e)}}

-----------------------------------------------------------------------------
(* Materialized views. *)

(* The ClickHouse table a view writes to: its full name or its last        *)
(* segment, the last table read when several have it; 0 for none.          *)
TargetOf(inp, v) ==
    SelectLastInSeq(inp.sinks, LAMBDA st : /\ st.sink = "clickhouse"
                                           /\ v.target \in {st.name, LastSegment(st.name)})

\* Mutant: a refreshable view is matched by name too.
Misplaced_ByName(inp, v) ==
    LET names == {col.name : col \in ToSet(inp.sinks[TargetOf(inp, v)].columns)}
    IN  {k \in DOMAIN v.columns : v.columns[k] \notin names}

(* Positions both lists have and name differently. *)
Misplaced(inp, v) ==
    LET cols == inp.sinks[TargetOf(inp, v)].columns
    IN  {k \in DOMAIN v.columns \cap DOMAIN cols : v.columns[k] # cols[k].name}

(* One finding for the first position that differs, one for the lengths.   *)
RefreshableMismatch(inp, x) ==
    LET v == inp.views[x]
        k == TargetOf(inp, v)
        At(item) == Finding("mv-column-match", Error, v.pos, Subject(k, item, 0, ""), NoFix)
    IN  {At(<<j>>) : j \in {i \in Misplaced(inp, v) : \A h \in Misplaced(inp, v) : i <= h}}
            \cup IF Len(v.columns) = Len(inp.sinks[k].columns) THEN {} ELSE {At(<<>>)}

(* By name: every SELECT output must be one of the target's columns. *)
StreamingMismatch(inp, x) ==
    LET v == inp.views[x]
        k == TargetOf(inp, v)
        names == {col.name : col \in ToSet(inp.sinks[k].columns)}
    IN  {Finding("mv-column-match", Error, v.pos, Subject(k, <<j>>, 0, ""), NoFix) :
            j \in {i \in DOMAIN v.columns : v.columns[i] \notin names}}

MvColumnMatch(inp) ==
    UNION {IF inp.views[x].refreshable THEN RefreshableMismatch(inp, x)
           ELSE StreamingMismatch(inp, x) :
              x \in {y \in DOMAIN inp.views : /\ inp.views[y].target # <<>>
                                              /\ TargetOf(inp, inp.views[y]) # 0}}
-----------------------------------------------------------------------------
(* A whole run, once every sink table is resolved. *)

FindingsOf(inp, reads) ==
    LET raised == Raised(inp, reads)
    IN  TopicTableMapping(inp, reads) \cup SinkTableNotCaptured(inp, reads)
        \cup SinkColumnNotCaptured(inp, reads) \cup SinkColumnUnknown(inp, reads)
        \cup SinkColumnFlattened(inp, reads) \cup SchemaBeforeConnector(inp, reads)
        \cup SourceColumnNotCaptured(inp, reads, raised)
        \cup CapturedColumnMissing(inp) \cup CapturedTableMissing(inp)
        \cup MvColumnMatch(inp)

(* One way to resolve every sink table. *)
Resolvings(inp) ==
    {w \in [DOMAIN inp.sinks -> UNION {Resolutions(inp, st) : st \in ToSet(inp.sinks)}] :
        \A s \in DOMAIN inp.sinks : w[s] \in Resolutions(inp, inp.sinks[s])}

AllReads(inp, w) == UNION {ReadsOf(inp, s, w[s]) : s \in DOMAIN inp.sinks}

(* What a run may answer: one set of findings for each way to resolve.     *)
Answers(inp) == {FindingsOf(inp, AllReads(inp, w)) : w \in Resolvings(inp)}

(* The three rules that can name a source column the connector leaves out. *)
CaptureRules ==
    {"sink-column-not-captured", "schema-before-connector", "source-column-not-captured"}

(* The rule names --disable and markers know, in the README's order. *)
RuleNames ==
    { "sink-column-not-captured", "sink-table-not-captured", "sink-column-unknown",
      "source-column-not-captured", "captured-column-missing", "captured-table-missing",
      "topic-table-mapping", "sink-column-flattened", "mv-column-match",
      "schema-before-connector", "ignore-marker" }
=============================================================================
