----------------------------- MODULE RulesProofs -----------------------------
(***************************************************************************)
(* Lemmas about the operators of Rules and Stream that the theorems on     *)
(* Engine, Lint and FixLoop rest on, for every input: resolution names     *)
(* tables the input has, what the findings of each rule look like, which   *)
(* of the columns the connector leaves out each of the three capture rules *)
(* names, and what the linter predicts of a sink column against what       *)
(* really arrives.                                                         *)
(***************************************************************************)
EXTENDS Rules, Stream, FiniteSetTheorems, WellFoundedInduction, TLAPS

-----------------------------------------------------------------------------
(* Resolution only ever names tables the input has. *)

(* A non-empty set of numbers up to n has a largest one.  Of the sets of   *)
(* members above a given member, one has no other below it, for the strict *)
(* subsets of a finite set are well-founded; it belongs to the largest.    *)
LEMMA MaxExists ==
    ASSUME NEW n \in Nat, NEW S \in SUBSET (1..n), S # {}
    PROVE  Max(S) \in S
<1> DEFINE Above(x) == {y \in S : y > x}
           F == {Above(x) : x \in S}
<1>1. IsFiniteSet(1..n)
  BY FS_Interval
<1>2. \A T \in SUBSET (1..n) : IsFiniteSet(T)
  BY <1>1, FS_Subset
<1>3. F \subseteq FiniteSubsetsOf(1..n) /\ F # {}
  BY <1>2 DEF FiniteSubsetsOf
<1> HIDE DEF F
<1>4. PICK T \in F : \A U \in F : <<U, T>> \notin StrictSubsetOrdering(1..n)
  BY <1>3, FS_StrictSubsetOrderingWellFounded, WFMin
<1> USE DEF F
<1>5. PICK x \in S : T = Above(x)
  OBVIOUS
<1>6. ASSUME NEW y \in S, y > x PROVE FALSE
  <2>1. S \subseteq Int
    OBVIOUS
  <2>2. \A z \in S : z > y => z > x
    BY <2>1, <1>6
  <2>3. ~(y > y)
    BY <2>1
  <2>4. Above(y) \subseteq Above(x) /\ Above(y) # Above(x)
    BY <2>2, <2>3, <1>6, Zenon
  <2>5. <<Above(y), T>> \in StrictSubsetOrdering(1..n)
    BY <2>4, <1>5 DEF StrictSubsetOrdering
  <2> QED
    BY <2>5, <1>4
<1>7. \A y \in S : x >= y
  BY <1>6
<1> QED
  BY <1>7 DEF Max

(* A set of indices has a least one: of the sets of members below each     *)
(* member one is minimal for inclusion, which is well-founded.             *)
LEMMA LeastExists ==
    ASSUME NEW n \in Nat, NEW S \in SUBSET (1..n), S # {}
    PROVE  \E x \in S : \A y \in S : x <= y
<1> DEFINE Below(x) == {y \in S : y < x}
           F == {Below(x) : x \in S}
<1>1. \A T \in SUBSET (1..n) : IsFiniteSet(T)
  <2>1. IsFiniteSet(1..n)
    BY FS_Interval
  <2> QED
    BY <2>1, FS_Subset
<1>2. F \subseteq FiniteSubsetsOf(1..n) /\ F # {}
  BY <1>1 DEF FiniteSubsetsOf
<1> HIDE DEF F
<1>3. PICK T \in F : \A U \in F : <<U, T>> \notin StrictSubsetOrdering(1..n)
  BY <1>2, FS_StrictSubsetOrderingWellFounded, FS_Interval, WFMin
<1> USE DEF F
<1>4. PICK x \in S : T = Below(x)
  OBVIOUS
<1>5. ASSUME NEW y \in S, y < x PROVE FALSE
  <2>1. S \subseteq Int
    OBVIOUS
  <2>2. \A z \in S : z < y => z < x
    BY <2>1, <1>5
  <2>3. ~(y < y)
    BY <2>1
  <2>4. Below(y) \subseteq Below(x) /\ Below(y) # Below(x)
    BY <2>2, <2>3, <1>5, Zenon
  <2>5. <<Below(y), T>> \in StrictSubsetOrdering(1..n)
    BY <2>4, <1>4 DEF StrictSubsetOrdering
  <2> QED
    BY <2>5, <1>3
<1>6. \A y \in S : x <= y
  BY <1>5
<1> QED
  BY <1>6

LEMMA MinExists ==
    ASSUME NEW n \in Nat, NEW S \in SUBSET (1..n), S # {}
    PROVE  Min(S) \in S
BY LeastExists DEF Min

(* The table a topic is looked up to is one of the source, or none.        *)
LEMMA TableOnRange ==
    ASSUME NEW inp, IsInput(inp), NEW topic
    PROVE  TableOn(inp, topic) \in 0..Len(inp.source)
<1> DEFINE n == Len(inp.source)
           I == {i \in 1..n : Topic(inp.contract, inp.source[i]) = topic}
<1>1. n \in Nat
  BY DEF IsInput, IsSequence
<1>2. TableOn(inp, topic) = IF I # {} THEN Max(I) ELSE 0
  BY DEF TableOn, SelectLastInSeq
<1> HIDE DEF n
<1>3. I # {} => Max(I) \in I
  BY <1>1, MaxExists
<1>4. TableOn(inp, topic) \in 0..n
  BY <1>1, <1>2, <1>3
<1> QED
  BY <1>4 DEF n

(* Every way resolve may tie a sink table names a source table, or none.   *)
LEMMA ResolutionRange ==
    ASSUME NEW inp, IsInput(inp), NEW st, NEW w \in Resolutions(inp, st)
    PROVE  w.table \in 0..Len(inp.source)
<1>1. DOMAIN inp.source = 1..Len(inp.source) /\ Len(inp.source) \in Nat
  BY DEF IsInput, IsSequence
<1>2. CASE st.topic # <<>>
  BY <1>2, TableOnRange DEF Resolutions
<1>3. CASE st.topic = <<>> /\ ByConnector(inp, st) # {}
  <2>1. w \in ByConnector(inp, st)
    BY <1>3 DEF Resolutions
  <2>2. PICK tp : w.table = TableOn(inp, tp)
    BY <2>1 DEF ByConnector
  <2> QED
    BY <2>2, TableOnRange
<1>4. CASE st.topic = <<>> /\ ByConnector(inp, st) = {} /\ ByName(inp, st) # {}
  <2>1. w \in ByName(inp, st)
    BY <1>4 DEF Resolutions
  <2>2. Namesakes(inp, st) \subseteq DOMAIN inp.source
    BY Zenon DEF Namesakes
  <2>3. w.table \in Namesakes(inp, st)
    BY <2>1 DEF ByName
  <2> QED
    BY <1>1, <2>2, <2>3
<1>5. CASE st.topic = <<>> /\ ByConnector(inp, st) = {} /\ ByName(inp, st) = {}
  BY <1>1, <1>5 DEF Resolutions
<1> QED
  BY <1>2, <1>3, <1>4, <1>5

(* What the invariant says of a read: its sink table and source table are  *)
(* the input's, and the field it names is a bare name or an image.         *)
ReadOK(inp, r) ==
    /\ r.sink \in DOMAIN inp.sinks
    /\ r.table \in 0..Len(inp.source)
    /\ r.table # 0 /\ r.field.image = "" => r.field = Bare(r.field.name)

(* Resolving one sink table only adds such reads.                          *)
LEMMA ReadsTyped ==
    ASSUME NEW inp, IsInput(inp), NEW s \in DOMAIN inp.sinks,
           NEW w \in Resolutions(inp, inp.sinks[s]), NEW r \in ReadsOf(inp, s, w)
    PROVE  ReadOK(inp, r)
<1>1. w.table \in 0..Len(inp.source) /\ Len(inp.source) \in Nat
  BY ResolutionRange DEF IsInput, IsSequence
<1>2. CASE w.table # 0
  <2> DEFINE columns == inp.sinks[s].columns
             shape == ShapeFor(inp, w)
  <2>1. r \in MappedReads(inp, s, w)
    BY <1>2 DEF ReadsOf
  <2>2. PICK k \in DOMAIN columns :
           r = [sink |-> s, col |-> k, table |-> w.table,
                field |-> Field(shape, columns[k].name),
                unreached |-> Unreached(shape, inp.source[w.table], columns[k].name)]
    BY <2>1 DEF MappedReads
  <2>3. columns[k].name.image = "" => columns[k].name = Bare(columns[k].name.name)
    BY DEF IsInput, PlainNames
  <2>4. Bare(columns[k].name.name) = Bare(Bare(columns[k].name.name).name)
    BY DEF Bare
  <2>5. r.field.image = "" => r.field = Bare(r.field.name)
    BY <2>2, <2>3, <2>4 DEF Field
  <2> QED
    BY <1>1, <2>2, <2>5 DEF ReadOK
<1>3. CASE w.table = 0
  <2>1. r = UnmappedRead(s)
    BY <1>3 DEF ReadsOf
  <2>2. r.sink = s /\ r.table = 0
    BY <2>1 DEF UnmappedRead
  <2> QED
    BY <1>1, <2>2 DEF ReadOK
<1> QED
  BY <1>2, <1>3

-----------------------------------------------------------------------------
(* What each rule's findings look like. *)

FindingOK(inp, f) ==
    f.severity \in {Info, Warning, Error} /\ f.subject.table \in 0..Len(inp.source)

(* A finding of one of the rules that name no left-out column.             *)
OtherFinding(inp, f) == FindingOK(inp, f) /\ f.rule \notin CaptureRules

LEMMA OtherRulesOverReads ==
    ASSUME NEW inp, IsInput(inp), NEW rs, \A r \in rs : ReadOK(inp, r)
    PROVE  /\ \A f \in TopicTableMapping(inp, rs) : OtherFinding(inp, f)
           /\ \A f \in SinkTableNotCaptured(inp, rs) : OtherFinding(inp, f)
           /\ \A f \in SinkColumnUnknown(inp, rs) : OtherFinding(inp, f)
           /\ \A f \in SinkColumnFlattened(inp, rs) : OtherFinding(inp, f)
<1>1. Len(inp.source) \in Nat /\ \A r \in rs : r.table \in 0..Len(inp.source)
  BY DEF IsInput, IsSequence, ReadOK
<1>2. 0 \in 0..Len(inp.source)
  BY <1>1
<1> USE DEF OtherFinding, FindingOK, CaptureRules
<1>3. ASSUME NEW f \in TopicTableMapping(inp, rs) PROVE OtherFinding(inp, f)
  <2>1. PICK s : f = Finding("topic-table-mapping", Error, inp.sinks[s].pos,
                             Subject(s, <<>>, 0, ""), NoFix)
    BY Zenon DEF TopicTableMapping
  <2>2. f.rule = "topic-table-mapping" /\ f.severity = Error /\ f.subject.table = 0
    BY <2>1 DEF Finding, Subject
  <2> QED
    BY <1>2, <2>2
<1>4. ASSUME NEW f \in SinkTableNotCaptured(inp, rs) PROVE OtherFinding(inp, f)
  <2>1. PICK r \in rs :
           f = Finding("sink-table-not-captured", Error, inp.sinks[r.sink].pos,
                       Subject(r.sink, <<>>, r.table, ""),
                       TableBlock(inp.contract, SourceOf(inp, r)))
    BY Zenon DEF SinkTableNotCaptured
  <2>2. f.rule = "sink-table-not-captured" /\ f.severity = Error /\ f.subject.table = r.table
    BY <2>1 DEF Finding, Subject
  <2> QED
    BY <1>1, <2>2
<1>5. ASSUME NEW f \in SinkColumnUnknown(inp, rs) PROVE OtherFinding(inp, f)
  <2>1. PICK r \in rs :
           f = Finding("sink-column-unknown", Warning,
                       inp.sinks[r.sink].columns[r.col].pos,
                       Subject(r.sink, <<r.col>>, r.table, ""), NoFix)
    BY Zenon DEF SinkColumnUnknown
  <2>2. f.rule = "sink-column-unknown" /\ f.severity = Warning /\ f.subject.table = r.table
    BY <2>1 DEF Finding, Subject
  <2> QED
    BY <1>1, <2>2
<1>6. ASSUME NEW f \in SinkColumnFlattened(inp, rs) PROVE OtherFinding(inp, f)
  <2>1. PICK r \in rs :
           f = Finding("sink-column-flattened", Error, inp.sinks[r.sink].pos,
                       Subject(r.sink, <<>>, r.table, ""), NoFix)
    BY Zenon DEF SinkColumnFlattened
  <2>2. f.rule = "sink-column-flattened" /\ f.severity = Error /\ f.subject.table = r.table
    BY <2>1 DEF Finding, Subject
  <2> QED
    BY <1>1, <2>2
<1> QED
  BY <1>3, <1>4, <1>5, <1>6, Zenon

LEMMA OtherRulesOverLists ==
    ASSUME NEW inp, IsInput(inp)
    PROVE  /\ \A f \in CapturedColumnMissing(inp) : OtherFinding(inp, f)
           /\ \A f \in CapturedTableMissing(inp) : OtherFinding(inp, f)
           /\ \A f \in MvColumnMatch(inp) : OtherFinding(inp, f)
<1>1. Len(inp.source) \in Nat
  BY DEF IsInput, IsSequence
<1>2. 0 \in 0..Len(inp.source)
  BY <1>1
<1> USE DEF OtherFinding, FindingOK, CaptureRules
<1>3. ASSUME NEW f \in CapturedColumnMissing(inp) PROVE OtherFinding(inp, f)
  <2>1. PICK ea, fix :
           f = Finding("captured-column-missing", Warning, ContractPos(inp.contract),
                       Subject(0, ea, 0, ""), fix)
    BY Zenon DEF CapturedColumnMissing, EntryFinding
  <2>2. f.rule = "captured-column-missing" /\ f.severity = Warning /\ f.subject.table = 0
    BY <2>1 DEF Finding, Subject
  <2> QED
    BY <1>2, <2>2
<1>4. ASSUME NEW f \in CapturedTableMissing(inp) PROVE OtherFinding(inp, f)
  <2>1. PICK ea, fix :
           f = Finding("captured-table-missing", Warning, ContractPos(inp.contract),
                       Subject(0, ea, 0, ""), fix)
    BY Zenon DEF CapturedTableMissing, EntryFinding
  <2>2. f.rule = "captured-table-missing" /\ f.severity = Warning /\ f.subject.table = 0
    BY <2>1 DEF Finding, Subject
  <2> QED
    BY <1>2, <2>2
<1>5. ASSUME NEW f \in MvColumnMatch(inp) PROVE OtherFinding(inp, f)
  <2>1. PICK x : f \in RefreshableMismatch(inp, x) \cup StreamingMismatch(inp, x)
    BY DEF MvColumnMatch
  <2>2. PICK pos, k, item :
           f = Finding("mv-column-match", Error, pos, Subject(k, item, 0, ""), NoFix)
    <3>1. CASE f \in RefreshableMismatch(inp, x)
      BY <3>1, Zenon DEF RefreshableMismatch
    <3>2. CASE f \in StreamingMismatch(inp, x)
      BY <3>2, Zenon DEF StreamingMismatch
    <3> QED
      BY <2>1, <3>1, <3>2, Zenon
  <2>3. f.rule = "mv-column-match" /\ f.severity = Error /\ f.subject.table = 0
    BY <2>2 DEF Finding, Subject
  <2> QED
    BY <1>2, <2>3
<1> QED
  BY <1>3, <1>4, <1>5, Zenon

-----------------------------------------------------------------------------
(* Which left-out columns the three capture rules name. *)

(* A column of the source is the pair of its table's number and its name.  *)
LEMMA SourceColumnsFacts ==
    ASSUME NEW inp, NEW ic \in SourceColumns(inp)
    PROVE  /\ ic = <<ic[1], ic[2]>>
           /\ ic[1] \in DOMAIN inp.source
           /\ ic[2] \in DOMAIN inp.source[ic[1]].cols
<1>1. PICK i \in DOMAIN inp.source : \E c \in DOMAIN inp.source[i].cols : ic = <<i, c>>
  BY DEF SourceColumns
<1>2. PICK c \in DOMAIN inp.source[i].cols : ic = <<i, c>>
  BY <1>1
<1> QED
  BY <1>2

LEMMA RaisedFacts ==
    ASSUME NEW inp, NEW rs
    PROVE  /\ Raised(inp, rs) \subseteq LeftOut(inp)
           /\ \A ic \in Raised(inp, rs) : ~IsDeclared(inp, rs, ic[1], ic[2])
  BY Zenon DEF Raised

(* A sink column is raised for a left-out column exactly when some sink    *)
(* column receives it: tables have distinct names, so the qualified name   *)
(* the rules compare is the column.                                        *)
LEMMA SinkColumnNotCapturedFacts ==
    ASSUME NEW inp, IsInput(inp), NEW rs, \A r \in rs : ReadOK(inp, r)
    PROVE  /\ \A f \in SinkColumnNotCaptured(inp, rs) :
                /\ FindingOK(inp, f) /\ f.rule = "sink-column-not-captured"
                /\ IsDeclared(inp, rs, f.subject.table, f.subject.column)
           /\ \A ic \in LeftOut(inp) : IsDeclared(inp, rs, ic[1], ic[2]) =>
                \E f \in SinkColumnNotCaptured(inp, rs) :
                    f.subject.table = ic[1] /\ f.subject.column = ic[2]
<1> DEFINE found(r) ==
      Finding("sink-column-not-captured", Error, inp.sinks[r.sink].columns[r.col].pos,
              Subject(r.sink, <<r.col>>, r.table, r.field.name),
              ColumnFix(inp, r.table, r.field.name))
<1>0. DOMAIN inp.source = 1..Len(inp.source) /\ Len(inp.source) \in Nat
  BY DEF IsInput, IsSequence
<1>1. ASSUME NEW f \in SinkColumnNotCaptured(inp, rs)
      PROVE  /\ FindingOK(inp, f) /\ f.rule = "sink-column-not-captured"
             /\ IsDeclared(inp, rs, f.subject.table, f.subject.column)
  <2>1. PICK r \in rs : /\ f = found(r) /\ r.table # 0 /\ ~r.unreached
                        /\ HasColumn(SourceOf(inp, r), r.field)
    BY Zenon DEF SinkColumnNotCaptured
  <2>2. /\ f.rule = "sink-column-not-captured" /\ f.severity = Error
        /\ f.subject.table = r.table /\ f.subject.column = r.field.name
    BY <2>1 DEF Finding, Subject
  <2>3. r.table \in 0..Len(inp.source) /\ r.field = Bare(r.field.name)
    BY <2>1 DEF ReadOK, HasColumn
  <2>4. QualifiedColumn(SourceOf(inp, r), r.field) \in Declared(inp, rs)
    BY <2>1, Zenon DEF Declared
  <2>5. IsDeclared(inp, rs, r.table, r.field.name)
    BY <2>3, <2>4, Zenon DEF IsDeclared, Column, SourceOf
  <2> QED
    BY <2>2, <2>3, <2>5 DEF FindingOK
<1>2. ASSUME NEW ic \in LeftOut(inp), IsDeclared(inp, rs, ic[1], ic[2])
      PROVE  \E f \in SinkColumnNotCaptured(inp, rs) :
                f.subject.table = ic[1] /\ f.subject.column = ic[2]
  <2>1. /\ ic \in SourceColumns(inp) /\ Captured(inp, ic[1])
        /\ ~ColumnCaptured(inp, ic[1], ic[2])
    BY Zenon DEF LeftOut
  <2>2. ic[1] \in DOMAIN inp.source /\ ic[2] \in DOMAIN inp.source[ic[1]].cols
    BY <2>1, SourceColumnsFacts
  <2>3. PICK r \in rs :
           /\ r.table # 0 /\ ~r.unreached
           /\ QualifiedColumn(SourceOf(inp, r), r.field) = Column(inp, ic[1], Bare(ic[2]))
    BY <1>2 DEF IsDeclared, Declared
  <2>4. r.table \in DOMAIN inp.source
    <3>1. r.table \in 0..Len(inp.source)
      BY DEF ReadOK
    <3> QED
      BY <1>0, <2>3, <3>1
  <2>5. /\ Qualified(inp.source[r.table]) = Qualified(inp.source[ic[1]])
        /\ r.field = Bare(ic[2])
    BY <2>3 DEF QualifiedColumn, Column, SourceOf, Qualified
  <2>6. r.table = ic[1]
    BY <2>2, <2>4, <2>5 DEF IsInput, DistinctTables
  <2>7. r.field.image = "" /\ r.field.name = ic[2]
    <3>1. \A n : Bare(n).image = "" /\ Bare(n).name = n
      BY DEF Bare
    <3> QED
      BY <2>5, <3>1, Zenon
  <2>8. found(r) \in SinkColumnNotCaptured(inp, rs)
    <3>1. HasColumn(SourceOf(inp, r), r.field)
      BY <2>2, <2>6, <2>7 DEF HasColumn, SourceOf
    <3>2. Captured(inp, r.table) /\ ~ColumnCaptured(inp, r.table, r.field.name)
      BY <2>1, <2>6, <2>7
    <3> QED
      BY <2>3, <3>1, <3>2, Zenon DEF SinkColumnNotCaptured
  <2>9. found(r).subject.table = ic[1] /\ found(r).subject.column = ic[2]
    BY <2>6, <2>7 DEF Finding, Subject
  <2> QED
    BY <2>8, <2>9
<1> QED
  BY <1>1, <1>2

(* A left-out column's table number is in range.                           *)
LEMMA LeftOutFacts ==
    ASSUME NEW inp, IsInput(inp), NEW ic \in LeftOut(inp)
    PROVE  ic = <<ic[1], ic[2]>> /\ ic[1] \in 0..Len(inp.source)
<1>1. DOMAIN inp.source = 1..Len(inp.source) /\ Len(inp.source) \in Nat
  BY DEF IsInput, IsSequence
<1>2. ic \in SourceColumns(inp)
  BY Zenon DEF LeftOut
<1> QED
  BY <1>1, <1>2, SourceColumnsFacts

(* The diff rule names exactly what it raises.                             *)
LEMMA SchemaBeforeConnectorFacts ==
    ASSUME NEW inp, IsInput(inp), NEW rs
    PROVE  /\ \A f \in SchemaBeforeConnector(inp, rs) :
                /\ FindingOK(inp, f) /\ f.rule = "schema-before-connector"
                /\ <<f.subject.table, f.subject.column>> \in Raised(inp, rs)
           /\ \A ic \in Raised(inp, rs) : \E f \in SchemaBeforeConnector(inp, rs) :
                f.subject.table = ic[1] /\ f.subject.column = ic[2]
<1> DEFINE warned(ic) ==
      Finding("schema-before-connector", Warning, inp.source[ic[1]].cols[ic[2]],
              Subject(0, <<>>, ic[1], ic[2]), ColumnFix(inp, ic[1], ic[2]))
<1>1. ASSUME NEW f \in SchemaBeforeConnector(inp, rs)
      PROVE  /\ FindingOK(inp, f) /\ f.rule = "schema-before-connector"
             /\ <<f.subject.table, f.subject.column>> \in Raised(inp, rs)
  <2>1. PICK ic \in Raised(inp, rs) : f = warned(ic)
    BY Zenon DEF SchemaBeforeConnector
  <2>2. /\ f.rule = "schema-before-connector" /\ f.severity = Warning
        /\ f.subject.table = ic[1] /\ f.subject.column = ic[2]
    BY <2>1 DEF Finding, Subject
  <2>3. ic = <<ic[1], ic[2]>> /\ ic[1] \in 0..Len(inp.source)
    BY RaisedFacts, LeftOutFacts
  <2> QED
    BY <2>2, <2>3 DEF FindingOK
<1>2. ASSUME NEW ic \in Raised(inp, rs)
      PROVE  \E f \in SchemaBeforeConnector(inp, rs) :
                f.subject.table = ic[1] /\ f.subject.column = ic[2]
  <2>1. warned(ic) \in SchemaBeforeConnector(inp, rs)
    BY Zenon DEF SchemaBeforeConnector
  <2>2. warned(ic).subject.table = ic[1] /\ warned(ic).subject.column = ic[2]
    BY DEF Finding, Subject
  <2> QED
    BY <2>1, <2>2
<1> QED
  BY <1>1, <1>2, Zenon

(* The inventory names exactly the left-out columns that no sink receives  *)
(* and that it was not told the diff rule raised.                          *)
LEMMA SourceColumnNotCapturedFacts ==
    ASSUME NEW inp, IsInput(inp), NEW rs, NEW told
    PROVE  /\ \A f \in SourceColumnNotCaptured(inp, rs, told) :
                /\ FindingOK(inp, f) /\ f.rule = "source-column-not-captured"
                /\ ~IsDeclared(inp, rs, f.subject.table, f.subject.column)
                /\ <<f.subject.table, f.subject.column>> \notin told
           /\ \A ic \in LeftOut(inp) :
                ~IsDeclared(inp, rs, ic[1], ic[2]) /\ ic \notin told =>
                  \E f \in SourceColumnNotCaptured(inp, rs, told) :
                      f.subject.table = ic[1] /\ f.subject.column = ic[2]
<1> DEFINE listed(ic) ==
      Finding("source-column-not-captured", Info, inp.source[ic[1]].cols[ic[2]],
              Subject(0, <<>>, ic[1], ic[2]), NoFix)
<1>1. ASSUME NEW f \in SourceColumnNotCaptured(inp, rs, told)
      PROVE  /\ FindingOK(inp, f) /\ f.rule = "source-column-not-captured"
             /\ ~IsDeclared(inp, rs, f.subject.table, f.subject.column)
             /\ <<f.subject.table, f.subject.column>> \notin told
  <2>1. PICK ic \in LeftOut(inp) : /\ f = listed(ic) /\ ic \notin told
                                   /\ ~IsDeclared(inp, rs, ic[1], ic[2])
    BY Zenon DEF SourceColumnNotCaptured
  <2>2. /\ f.rule = "source-column-not-captured" /\ f.severity = Info
        /\ f.subject.table = ic[1] /\ f.subject.column = ic[2]
    BY <2>1 DEF Finding, Subject
  <2>3. ic = <<ic[1], ic[2]>> /\ ic[1] \in 0..Len(inp.source)
    BY LeftOutFacts
  <2> QED
    BY <2>1, <2>2, <2>3 DEF FindingOK
<1>2. ASSUME NEW ic \in LeftOut(inp), ~IsDeclared(inp, rs, ic[1], ic[2]), ic \notin told
      PROVE  \E f \in SourceColumnNotCaptured(inp, rs, told) :
                f.subject.table = ic[1] /\ f.subject.column = ic[2]
  <2>1. listed(ic) \in SourceColumnNotCaptured(inp, rs, told)
    BY <1>2, Zenon DEF SourceColumnNotCaptured
  <2>2. listed(ic).subject.table = ic[1] /\ listed(ic).subject.column = ic[2]
    BY DEF Finding, Subject
  <2> QED
    BY <2>1, <2>2
<1> QED
  BY <1>1, <1>2, Zenon

-----------------------------------------------------------------------------
(* Each rule's findings carry its name and its severity, so that a report  *)
(* can be taken apart again.                                               *)
IsOf(f, rule, severity) == f.rule = rule /\ f.severity = severity

LEMMA RuleOfFinding ==
    ASSUME NEW inp, NEW rs, NEW told
    PROVE  /\ \A f \in TopicTableMapping(inp, rs) : IsOf(f, "topic-table-mapping", Error)
           /\ \A f \in SinkTableNotCaptured(inp, rs) : IsOf(f, "sink-table-not-captured", Error)
           /\ \A f \in SinkColumnNotCaptured(inp, rs) : IsOf(f, "sink-column-not-captured", Error)
           /\ \A f \in SinkColumnUnknown(inp, rs) : IsOf(f, "sink-column-unknown", Warning)
           /\ \A f \in SinkColumnFlattened(inp, rs) : IsOf(f, "sink-column-flattened", Error)
           /\ \A f \in SchemaBeforeConnector(inp, rs) : IsOf(f, "schema-before-connector", Warning)
           /\ \A f \in SourceColumnNotCaptured(inp, rs, told) : IsOf(f, "source-column-not-captured", Info)
           /\ \A f \in CapturedColumnMissing(inp) : IsOf(f, "captured-column-missing", Warning)
           /\ \A f \in CapturedTableMissing(inp) : IsOf(f, "captured-table-missing", Warning)
           /\ \A f \in MvColumnMatch(inp) : IsOf(f, "mv-column-match", Error)
<1>0. \A f, rule, severity, pos, subject, fix :
         f = Finding(rule, severity, pos, subject, fix) => IsOf(f, rule, severity)
  BY DEF Finding, IsOf
<1>1. ASSUME NEW f \in TopicTableMapping(inp, rs) PROVE IsOf(f, "topic-table-mapping", Error)
  <2>1. PICK pos, subject, fix : f = Finding("topic-table-mapping", Error, pos, subject, fix)
    BY Zenon DEF TopicTableMapping
  <2> QED
    BY <1>0, <2>1
<1>2. ASSUME NEW f \in SinkTableNotCaptured(inp, rs) PROVE IsOf(f, "sink-table-not-captured", Error)
  <2>1. PICK pos, subject, fix : f = Finding("sink-table-not-captured", Error, pos, subject, fix)
    BY Zenon DEF SinkTableNotCaptured
  <2> QED
    BY <1>0, <2>1
<1>3. ASSUME NEW f \in SinkColumnNotCaptured(inp, rs) PROVE IsOf(f, "sink-column-not-captured", Error)
  <2>1. PICK pos, subject, fix : f = Finding("sink-column-not-captured", Error, pos, subject, fix)
    BY Zenon DEF SinkColumnNotCaptured
  <2> QED
    BY <1>0, <2>1
<1>4. ASSUME NEW f \in SinkColumnUnknown(inp, rs) PROVE IsOf(f, "sink-column-unknown", Warning)
  <2>1. PICK pos, subject, fix : f = Finding("sink-column-unknown", Warning, pos, subject, fix)
    BY Zenon DEF SinkColumnUnknown
  <2> QED
    BY <1>0, <2>1
<1>5. ASSUME NEW f \in SinkColumnFlattened(inp, rs) PROVE IsOf(f, "sink-column-flattened", Error)
  <2>1. PICK pos, subject, fix : f = Finding("sink-column-flattened", Error, pos, subject, fix)
    BY Zenon DEF SinkColumnFlattened
  <2> QED
    BY <1>0, <2>1
<1>6. ASSUME NEW f \in SchemaBeforeConnector(inp, rs) PROVE IsOf(f, "schema-before-connector", Warning)
  <2>1. PICK pos, subject, fix : f = Finding("schema-before-connector", Warning, pos, subject, fix)
    BY Zenon DEF SchemaBeforeConnector
  <2> QED
    BY <1>0, <2>1
<1>7. ASSUME NEW f \in SourceColumnNotCaptured(inp, rs, told) PROVE IsOf(f, "source-column-not-captured", Info)
  <2>1. PICK pos, subject, fix : f = Finding("source-column-not-captured", Info, pos, subject, fix)
    BY Zenon DEF SourceColumnNotCaptured
  <2> QED
    BY <1>0, <2>1
<1>8. ASSUME NEW f \in CapturedColumnMissing(inp) PROVE IsOf(f, "captured-column-missing", Warning)
  <2>1. PICK pos, subject, fix : f = Finding("captured-column-missing", Warning, pos, subject, fix)
    BY Zenon DEF CapturedColumnMissing, EntryFinding
  <2> QED
    BY <1>0, <2>1
<1>9. ASSUME NEW f \in CapturedTableMissing(inp) PROVE IsOf(f, "captured-table-missing", Warning)
  <2>1. PICK pos, subject, fix : f = Finding("captured-table-missing", Warning, pos, subject, fix)
    BY Zenon DEF CapturedTableMissing, EntryFinding
  <2> QED
    BY <1>0, <2>1
<1>10. ASSUME NEW f \in MvColumnMatch(inp) PROVE IsOf(f, "mv-column-match", Error)
  <2>1. PICK x : f \in RefreshableMismatch(inp, x) \cup StreamingMismatch(inp, x)
    BY DEF MvColumnMatch
  <2>2. CASE f \in RefreshableMismatch(inp, x)
    <3>1. PICK pos, subject, fix : f = Finding("mv-column-match", Error, pos, subject, fix)
      BY <2>2, Zenon DEF RefreshableMismatch
    <3> QED
      BY <1>0, <3>1
  <2>3. CASE f \in StreamingMismatch(inp, x)
    <3>1. PICK pos, subject, fix : f = Finding("mv-column-match", Error, pos, subject, fix)
      BY <2>3, Zenon DEF StreamingMismatch
    <3> QED
      BY <1>0, <3>1
  <2> QED
    BY <2>1, <2>2, <2>3
<1> QED
  BY <1>1, <1>2, <1>3, <1>4, <1>5, <1>6, <1>7, <1>8, <1>9, <1>10, Zenon

(* What a read of a source table raises, by the four rules over reads.     *)
LEMMA ReadRaises ==
    ASSUME NEW inp, NEW rs, NEW r \in rs, r.table # 0
    PROVE  /\ ~Captured(inp, r.table) =>
                \E f \in SinkTableNotCaptured(inp, rs) :
                    f.severity = Error /\ f.subject.sink = r.sink /\ f.subject.item = <<>>
           /\ /\ Captured(inp, r.table) /\ ~r.unreached /\ HasColumn(SourceOf(inp, r), r.field)
              /\ ~ColumnCaptured(inp, r.table, r.field.name)
              => \E f \in SinkColumnNotCaptured(inp, rs) :
                    f.severity = Error /\ f.subject.sink = r.sink /\ f.subject.item = <<r.col>>
           /\ ~r.unreached /\ ~HasColumn(SourceOf(inp, r), r.field) =>
                \E f \in SinkColumnUnknown(inp, rs) :
                    f.severity = Warning /\ f.subject.sink = r.sink /\ f.subject.item = <<r.col>>
           /\ r.unreached =>
                \E f \in SinkColumnFlattened(inp, rs) :
                    f.severity = Error /\ f.subject.sink = r.sink /\ f.subject.item = <<>>
<1>1. ASSUME ~Captured(inp, r.table)
      PROVE  \E f \in SinkTableNotCaptured(inp, rs) :
                f.severity = Error /\ f.subject.sink = r.sink /\ f.subject.item = <<>>
  <2> DEFINE f == Finding("sink-table-not-captured", Error, inp.sinks[r.sink].pos,
                          Subject(r.sink, <<>>, r.table, ""), TableBlock(inp.contract, SourceOf(inp, r)))
  <2>1. f \in SinkTableNotCaptured(inp, rs)
    BY <1>1, Zenon DEF SinkTableNotCaptured
  <2>2. f.severity = Error /\ f.subject.sink = r.sink /\ f.subject.item = <<>>
    BY DEF Finding, Subject
  <2> HIDE DEF f
  <2> QED
    BY <2>1, <2>2
<1>2. ASSUME Captured(inp, r.table), ~r.unreached, HasColumn(SourceOf(inp, r), r.field),
             ~ColumnCaptured(inp, r.table, r.field.name)
      PROVE  \E f \in SinkColumnNotCaptured(inp, rs) :
                f.severity = Error /\ f.subject.sink = r.sink /\ f.subject.item = <<r.col>>
  <2> DEFINE f == Finding("sink-column-not-captured", Error, inp.sinks[r.sink].columns[r.col].pos,
                            Subject(r.sink, <<r.col>>, r.table, r.field.name),
                            ColumnFix(inp, r.table, r.field.name))
  <2>1. f \in SinkColumnNotCaptured(inp, rs)
    BY <1>2, Zenon DEF SinkColumnNotCaptured
  <2>2. f.severity = Error /\ f.subject.sink = r.sink /\ f.subject.item = <<r.col>>
    BY DEF Finding, Subject
  <2> HIDE DEF f
  <2> QED
    BY <2>1, <2>2
<1>3. ASSUME ~r.unreached, ~HasColumn(SourceOf(inp, r), r.field)
      PROVE  \E f \in SinkColumnUnknown(inp, rs) :
                f.severity = Warning /\ f.subject.sink = r.sink /\ f.subject.item = <<r.col>>
  <2> DEFINE f == Finding("sink-column-unknown", Warning, inp.sinks[r.sink].columns[r.col].pos,
                            Subject(r.sink, <<r.col>>, r.table, ""), NoFix)
  <2>1. f \in SinkColumnUnknown(inp, rs)
    BY <1>3, Zenon DEF SinkColumnUnknown
  <2>2. f.severity = Warning /\ f.subject.sink = r.sink /\ f.subject.item = <<r.col>>
    BY DEF Finding, Subject
  <2> HIDE DEF f
  <2> QED
    BY <2>1, <2>2
<1>4. ASSUME r.unreached
      PROVE  \E f \in SinkColumnFlattened(inp, rs) :
                f.severity = Error /\ f.subject.sink = r.sink /\ f.subject.item = <<>>
  <2> DEFINE f == Finding("sink-column-flattened", Error, inp.sinks[r.sink].pos,
                            Subject(r.sink, <<>>, r.table, ""), NoFix)
  <2>1. f \in SinkColumnFlattened(inp, rs)
    BY <1>4, Zenon DEF SinkColumnFlattened
  <2>2. f.severity = Error /\ f.subject.sink = r.sink /\ f.subject.item = <<>>
    BY DEF Finding, Subject
  <2> HIDE DEF f
  <2> QED
    BY <2>1, <2>2
<1> QED
  BY <1>1, <1>2, <1>3, <1>4

(* And what read an error of the three rules is raised for.                *)
LEMMA RaisedByRead ==
    ASSUME NEW inp, NEW rs
    PROVE  /\ \A f \in SinkTableNotCaptured(inp, rs) : \E r \in rs :
                f.subject.sink = r.sink /\ r.table # 0 /\ ~Captured(inp, r.table)
           /\ \A f \in SinkColumnNotCaptured(inp, rs) : \E r \in rs :
                /\ f.subject.sink = r.sink /\ f.subject.item = <<r.col>> /\ r.table # 0
                /\ HasColumn(SourceOf(inp, r), r.field)
                /\ ~ColumnCaptured(inp, r.table, r.field.name)
           /\ \A f \in SinkColumnFlattened(inp, rs) : \E r \in rs :
                f.subject.sink = r.sink /\ r.unreached
<1>1. ASSUME NEW f \in SinkTableNotCaptured(inp, rs)
      PROVE  \E r \in rs : f.subject.sink = r.sink /\ r.table # 0 /\ ~Captured(inp, r.table)
  <2>1. PICK r \in rs :
           /\ f = Finding("sink-table-not-captured", Error, inp.sinks[r.sink].pos,
                          Subject(r.sink, <<>>, r.table, ""),
                          TableBlock(inp.contract, SourceOf(inp, r)))
           /\ r.table # 0 /\ ~Captured(inp, r.table)
    BY Zenon DEF SinkTableNotCaptured
  <2>2. f.subject.sink = r.sink
    BY <2>1 DEF Finding, Subject
  <2> QED
    BY <2>1, <2>2
<1>2. ASSUME NEW f \in SinkColumnNotCaptured(inp, rs)
      PROVE  \E r \in rs :
                /\ f.subject.sink = r.sink /\ f.subject.item = <<r.col>> /\ r.table # 0
                /\ HasColumn(SourceOf(inp, r), r.field)
                /\ ~ColumnCaptured(inp, r.table, r.field.name)
  <2>1. PICK r \in rs :
           /\ f = Finding("sink-column-not-captured", Error, inp.sinks[r.sink].columns[r.col].pos,
                          Subject(r.sink, <<r.col>>, r.table, r.field.name),
                          ColumnFix(inp, r.table, r.field.name))
           /\ r.table # 0
           /\ HasColumn(SourceOf(inp, r), r.field)
           /\ ~ColumnCaptured(inp, r.table, r.field.name)
    BY Zenon DEF SinkColumnNotCaptured
  <2>2. f.subject.sink = r.sink /\ f.subject.item = <<r.col>>
    BY <2>1 DEF Finding, Subject
  <2> QED
    BY <2>1, <2>2
<1>3. ASSUME NEW f \in SinkColumnFlattened(inp, rs)
      PROVE  \E r \in rs : f.subject.sink = r.sink /\ r.unreached
  <2>1. PICK r \in rs :
           /\ f = Finding("sink-column-flattened", Error, inp.sinks[r.sink].pos,
                          Subject(r.sink, <<>>, r.table, ""), NoFix)
           /\ r.unreached
    BY Zenon DEF SinkColumnFlattened
  <2>2. f.subject.sink = r.sink
    BY <2>1 DEF Finding, Subject
  <2> QED
    BY <2>1, <2>2
<1> QED
  BY <1>1, <1>2, <1>3

-----------------------------------------------------------------------------
(* A whole run. *)

LEMMA AllReadsTyped ==
    ASSUME NEW inp, IsInput(inp), NEW w \in Resolvings(inp), NEW r \in AllReads(inp, w)
    PROVE  ReadOK(inp, r)
<1>1. PICK s \in DOMAIN inp.sinks : r \in ReadsOf(inp, s, w[s])
  BY Zenon DEF AllReads
<1>2. w[s] \in Resolutions(inp, inp.sinks[s])
  BY Zenon DEF Resolvings
<1> QED
  BY <1>1, <1>2, ReadsTyped

(* A left-out column is named by one of the three capture rules, and       *)
(* without a base not by the diff rule.                                    *)
LEMMA LeftOutNamed ==
    ASSUME NEW inp, IsInput(inp), NEW rs, \A r \in rs : ReadOK(inp, r), NEW ic \in LeftOut(inp)
    PROVE  \E f \in FindingsOf(inp, rs) :
              /\ f.subject.table = ic[1] /\ f.subject.column = ic[2]
              /\ f.rule \in CaptureRules
              /\ inp.base = <<>> => f.rule # "schema-before-connector"
<1> DEFINE raised == Raised(inp, rs)
           A == SinkColumnNotCaptured(inp, rs)
           B == SchemaBeforeConnector(inp, rs)
           C == SourceColumnNotCaptured(inp, rs, raised)
           Names(f) == f.subject.table = ic[1] /\ f.subject.column = ic[2]
<1>1. A \cup B \cup C \subseteq FindingsOf(inp, rs)
  BY Zenon DEF FindingsOf
<1>2. /\ \A f \in A : f.rule = "sink-column-not-captured"
      /\ \A f \in B : f.rule = "schema-before-connector"
      /\ \A f \in C : f.rule = "source-column-not-captured"
  BY RuleOfFinding, Zenon DEF IsOf
<1>3. IsDeclared(inp, rs, ic[1], ic[2]) => \E f \in A : Names(f)
  BY SinkColumnNotCapturedFacts
<1>4. ic \in raised => \E f \in B : Names(f)
  BY SchemaBeforeConnectorFacts
<1>5. ~IsDeclared(inp, rs, ic[1], ic[2]) /\ ic \notin raised => \E f \in C : Names(f)
  <2> HIDE DEF raised
  <2> QED
    BY SourceColumnNotCapturedFacts
<1>6. inp.base = <<>> => raised = {}
  BY Zenon DEF Raised, DiffApplies
<1> HIDE DEF raised, A, B, C, Names
<1>7. \E f \in A \cup B \cup C : Names(f) /\ (inp.base = <<>> => f \in A \cup C)
  BY <1>3, <1>4, <1>5, <1>6
<1> QED
  BY <1>1, <1>2, <1>7 DEF Names, CaptureRules

-----------------------------------------------------------------------------
(***************************************************************************)
(* A record between two connectors, for every input: when the shape the    *)
(* linter keeps is known, it is the shape of every event, whatever the     *)
(* transforms; whatever it is, an event holds no other fields than those   *)
(* of captured columns and of the envelope; and a sink table one source    *)
(* table feeds is tied to that table.                                      *)
(*                                                                         *)
(* The shapes along a list of transforms, and the values, are recursive    *)
(* functions, so what holds after the last is an induction on their number.*)
(***************************************************************************)
(* Induction on the naturals, over a set.  A natural outside the set would *)
(* have a least one below it, and that one no predecessor.                 *)
LEMMA SetInduction ==
    ASSUME NEW S, 0 \in S, \A n \in Nat : n \in S => n + 1 \in S
    PROVE  Nat \subseteq S
<1> SUFFICES ASSUME Nat \ S # {} PROVE FALSE
  OBVIOUS
<1>1. PICK m \in Nat \ S : \A k \in Nat \ S : <<k, m>> \notin OpToRel(<, Nat)
  BY NatLessThanWellFounded, WFMin
<1>2. m - 1 \in Nat /\ m - 1 < m /\ m = (m - 1) + 1
  OBVIOUS
<1>3. m - 1 \notin S
  BY <1>2
<1>4. <<m - 1, m>> \in OpToRel(<, Nat)
  BY <1>2 DEF OpToRel
<1> QED
  BY <1>1, <1>2, <1>3, <1>4

(* The shapes after each transform of a list exist, the last one being     *)
(* what ApplyTransforms gives.                                             *)
LEMMA ShapesFollow ==
    ASSUME NEW transforms, Len(transforms) \in Nat, NEW shape
    PROVE  \E after : /\ after = [k \in 0..Len(transforms) |->
                                    IF k = 0 THEN shape ELSE ApplyOne(after[k - 1], transforms[k])]
                      /\ ApplyTransforms(shape, transforms) = after[Len(transforms)]
<1> DEFINE Step(f, k) == IF k = 0 THEN shape ELSE ApplyOne(f[k - 1], transforms[k])
           IsTrace(f, n) == f = [k \in 0..n |-> Step(f, k)]
           S == {n \in Nat : \E f : IsTrace(f, n)}
           N == Len(transforms)
<1>1. 0 \in S
  <2> DEFINE f == [k \in 0..0 |-> shape]
  <2>1. IsTrace(f, 0)
    OBVIOUS
  <2> QED
    BY <2>1
<1>2. ASSUME NEW n \in Nat, n \in S PROVE n + 1 \in S
  <2>1. PICK f : IsTrace(f, n)
    BY <1>2
  <2> DEFINE g == [k \in 0..(n + 1) |-> IF k = n + 1 THEN Step(f, n + 1) ELSE f[k]]
  <2>2. \A k \in 0..(n + 1) : k # 0 => k - 1 \in 0..n /\ k - 1 \in 0..(n + 1) /\ k - 1 # n + 1
    OBVIOUS
  <2>3. \A k \in 0..(n + 1) : k # 0 => g[k - 1] = f[k - 1]
    BY <2>2
  <2>4. \A k \in 0..(n + 1) : Step(g, k) = Step(f, k)
    BY <2>3
  <2>5. \A k \in 0..n : f[k] = Step(f, k)
    BY <2>1
  <2>6. \A k \in 0..(n + 1) : g[k] = Step(g, k)
    BY <2>4, <2>5
  <2>7. IsTrace(g, n + 1)
    BY <2>6
  <2>8. \E x : IsTrace(x, n + 1)
    BY <2>7, Zenon
  <2> QED
    BY <2>8
<1>3. N \in S
  <2> HIDE DEF S
  <2> QED
    BY <1>1, <1>2, SetInduction
<1>4. PICK f : IsTrace(f, N)
  BY <1>3
<1> DEFINE after == CHOOSE x : IsTrace(x, N)
<1>5. IsTrace(after, N)
  BY <1>4
<1>6. ApplyTransforms(shape, transforms) = after[N]
  BY DEF ApplyTransforms
<1> QED
  BY <1>5, <1>6

(* The values after each transform of a list exist, the last one being     *)
(* what AllTransformed gives.                                              *)
LEMMA ValuesFollow ==
    ASSUME NEW transforms, Len(transforms) \in Nat, NEW values
    PROVE  \E after : /\ after = [k \in 0..Len(transforms) |->
                                    IF k = 0 THEN values ELSE EachTransformed(after[k - 1], transforms[k])]
                      /\ AllTransformed(values, transforms) = after[Len(transforms)]
<1> DEFINE Step(f, k) == IF k = 0 THEN values ELSE EachTransformed(f[k - 1], transforms[k])
           IsTrace(f, n) == f = [k \in 0..n |-> Step(f, k)]
           S == {n \in Nat : \E f : IsTrace(f, n)}
           N == Len(transforms)
<1>1. 0 \in S
  <2> DEFINE f == [k \in 0..0 |-> values]
  <2>1. IsTrace(f, 0)
    OBVIOUS
  <2> QED
    BY <2>1
<1>2. ASSUME NEW n \in Nat, n \in S PROVE n + 1 \in S
  <2>1. PICK f : IsTrace(f, n)
    BY <1>2
  <2> DEFINE g == [k \in 0..(n + 1) |-> IF k = n + 1 THEN Step(f, n + 1) ELSE f[k]]
  <2>2. \A k \in 0..(n + 1) : k # 0 => k - 1 \in 0..n /\ k - 1 \in 0..(n + 1) /\ k - 1 # n + 1
    OBVIOUS
  <2>3. \A k \in 0..(n + 1) : k # 0 => g[k - 1] = f[k - 1]
    BY <2>2
  <2>4. \A k \in 0..(n + 1) : Step(g, k) = Step(f, k)
    BY <2>3
  <2>5. \A k \in 0..n : f[k] = Step(f, k)
    BY <2>1
  <2>6. \A k \in 0..(n + 1) : g[k] = Step(g, k)
    BY <2>4, <2>5
  <2>7. IsTrace(g, n + 1)
    BY <2>6
  <2>8. \E x : IsTrace(x, n + 1)
    BY <2>7, Zenon
  <2> QED
    BY <2>8
<1>3. N \in S
  <2> HIDE DEF S
  <2> QED
    BY <1>1, <1>2, SetInduction
<1>4. PICK f : IsTrace(f, N)
  BY <1>3
<1> DEFINE after == CHOOSE x : IsTrace(x, N)
<1>5. IsTrace(after, N)
  BY <1>4
<1>6. AllTransformed(values, transforms) = after[N]
  BY DEF AllTransformed
<1> QED
  BY <1>5, <1>6

-----------------------------------------------------------------------------
(* What a known shape says of the values. *)

RowValue(cols) == {Bare(col) : col \in cols}

(* A field that some value may hold: a captured column, bare or under      *)
(* before or after, or one of the envelope's own.                          *)
Possible(f, cols) ==
    \/ f = Bare(f.name) /\ f.name \in cols \cup EnvelopeFields
    \/ /\ f = [image |-> f.image, delim |-> f.delim, name |-> f.name]
       /\ f.image \in {"before", "after"} /\ f.name \in cols

(* The values a table's events may have under a shape, cols the columns    *)
(* captured.  An event of no column at all is no envelope to unwrap.       *)
Fits(values, shape, cols) ==
    /\ \A v \in values : \A f \in v : Possible(f, cols)
    /\ shape = Envelope => values = {EnvelopeValue(cols)}
    /\ shape.kind = "row" =>
          shape = Row
            /\ (values = {RowValue(cols)} \/ (cols = {} /\ values = {EnvelopeValue({})}))
    /\ shape.kind = "flattened" =>
          shape = Flattened(shape.delim) /\ shape.delim # "nested"
            /\ values = {Joined(EnvelopeValue(cols), shape.delim)}

(* The fields of the envelope.                                             *)
LEMMA EnvelopeFacts ==
    ASSUME NEW cols
    PROVE  /\ \A f \in EnvelopeValue(cols) :
                \/ \E w \in {"before", "after"}, c \in cols :
                      f = [image |-> w, delim |-> "nested", name |-> c]
                \/ f = Bare(f.name) /\ f.name \in EnvelopeFields
           /\ \A w \in {"before", "after"}, c \in cols :
                [image |-> w, delim |-> "nested", name |-> c] \in EnvelopeValue(cols)
           /\ \A e \in EnvelopeFields : Bare(e) \in EnvelopeValue(cols)
<1>1. \A n : Bare(n).name = n
  BY DEF Bare
<1>2. ASSUME NEW f \in EnvelopeValue(cols)
      PROVE  \/ \E w \in {"before", "after"}, c \in cols :
                   f = [image |-> w, delim |-> "nested", name |-> c]
             \/ f = Bare(f.name) /\ f.name \in EnvelopeFields
  <2>1. \/ \E w \in {"before", "after"}, c \in cols :
              f = [image |-> w, delim |-> "nested", name |-> c]
        \/ \E e \in EnvelopeFields : f = Bare(e)
    BY DEF EnvelopeValue
  <2> QED
    BY <1>1, <2>1
<1>3. \A w \in {"before", "after"}, c \in cols :
         [image |-> w, delim |-> "nested", name |-> c] \in EnvelopeValue(cols)
  BY DEF EnvelopeValue
<1>4. \A e \in EnvelopeFields : Bare(e) \in EnvelopeValue(cols)
  BY DEF EnvelopeValue
<1> QED
  BY <1>2, <1>3, <1>4

(* No transform puts into a value what no event holds.                     *)
LEMMA TransformedPossible ==
    ASSUME NEW v, NEW cols, \A f \in v : Possible(f, cols), NEW tr,
           NEW f \in Transformed(v, tr)
    PROVE  Possible(f, cols)
<1>1. \A n : Bare(n).image = "" /\ Bare(n).delim = "" /\ Bare(n).name = n
  BY DEF Bare
<1>2. CASE f \in Unwrapped(v)
  <2>1. PICK g \in v : f = Bare(g.name) /\ g.image = "after"
    BY <1>2 DEF Unwrapped
  <2>2. g.name \in cols
    BY <1>1, <2>1 DEF Possible
  <2> QED
    BY <1>1, <2>1, <2>2 DEF Possible
<1>3. CASE f \in Joined(v, tr.delim)
  <2>1. PICK g \in v : f = IF g.delim = "nested" THEN [g EXCEPT !.delim = tr.delim] ELSE g
    BY <1>3 DEF Joined
  <2>2. CASE g.delim = "nested"
    <3>1. /\ g = [image |-> g.image, delim |-> g.delim, name |-> g.name]
          /\ g.image \in {"before", "after"} /\ g.name \in cols
      BY <1>1, <2>2 DEF Possible
    <3>2. f = [g EXCEPT !.delim = tr.delim]
      BY <2>1, <2>2
    <3>3. f.image = g.image /\ f.name = g.name /\ f = [image |-> g.image, delim |-> tr.delim, name |-> g.name]
      BY <3>1, <3>2
    <3> QED
      BY <3>1, <3>3 DEF Possible
  <2> QED
    BY <2>1, <2>2
<1>4. CASE f \in v
  BY <1>4
<1>5. f \in Unwrapped(v) \/ f \in Joined(v, tr.delim) \/ f \in v
  BY DEF Transformed
<1> QED
  BY <1>2, <1>3, <1>4, <1>5

(* What unwrapping and flattening make of the envelope.                    *)
LEMMA EnvelopeTransformed ==
    ASSUME NEW cols, NEW d
    PROVE  /\ IsEnvelope(EnvelopeValue(cols)) <=> cols # {}
           /\ cols # {} => Unwrapped(EnvelopeValue(cols)) = RowValue(cols)
           /\ cols = {} => Joined(EnvelopeValue(cols), d) = EnvelopeValue(cols)
           /\ ~IsEnvelope(RowValue(cols))
           /\ d # "nested" => ~IsEnvelope(Joined(EnvelopeValue(cols), d))
<1> DEFINE V == EnvelopeValue(cols)
<1>1. \A n : Bare(n).image = "" /\ Bare(n).delim = "" /\ Bare(n).name = n
  BY DEF Bare
<1>2. /\ \A f \in V : \/ \E w \in {"before", "after"}, c \in cols :
                            f = [image |-> w, delim |-> "nested", name |-> c]
                      \/ f = Bare(f.name) /\ f.name \in EnvelopeFields
      /\ \A w \in {"before", "after"}, c \in cols :
                [image |-> w, delim |-> "nested", name |-> c] \in V
  BY EnvelopeFacts
<1> HIDE DEF V
<1>3. IsEnvelope(V) <=> cols # {}
  <2>1. ASSUME NEW c \in cols PROVE IsEnvelope(V)
    <3> DEFINE f == [image |-> "after", delim |-> "nested", name |-> c]
    <3>1. f \in V /\ f.delim = "nested"
      BY <1>2
    <3> QED
      BY <3>1, Zenon DEF IsEnvelope
  <2>2. ASSUME cols = {}, IsEnvelope(V) PROVE FALSE
    BY <1>1, <1>2, <2>2 DEF IsEnvelope
  <2> QED
    BY <2>1, <2>2
<1>4. ASSUME cols # {} PROVE Unwrapped(V) = RowValue(cols)
  <2>1. ASSUME NEW f \in Unwrapped(V) PROVE f \in RowValue(cols)
    <3>1. PICK g \in V : f = Bare(g.name) /\ g.image = "after"
      BY <2>1 DEF Unwrapped
    <3>2. ~(g = Bare(g.name))
      BY <1>1, <3>1
    <3>3. PICK w \in {"before", "after"}, c \in cols : g = [image |-> w, delim |-> "nested", name |-> c]
      BY <1>2, <3>2
    <3> QED
      BY <3>1, <3>3 DEF RowValue
  <2>2. ASSUME NEW c \in cols PROVE Bare(c) \in Unwrapped(V)
    <3> DEFINE g == [image |-> "after", delim |-> "nested", name |-> c]
    <3>1. g \in V /\ g.image = "after" /\ g.delim = "nested" /\ g.name = c
      BY <1>2
    <3> HIDE DEF g
    <3> QED
      BY <3>1, Zenon DEF Unwrapped
  <2> QED
    BY <2>1, <2>2 DEF RowValue
<1>5. ASSUME cols = {} PROVE Joined(V, d) = V
  <2>1. \A f \in V : f.delim # "nested"
    BY <1>1, <1>2, <1>5
  <2> QED
    BY <2>1 DEF Joined
<1>6. ~IsEnvelope(RowValue(cols))
  BY <1>1 DEF IsEnvelope, RowValue
<1>7. ASSUME d # "nested", IsEnvelope(Joined(V, d)) PROVE FALSE
  <2>1. PICK f \in Joined(V, d) : f.delim = "nested"
    BY <1>7 DEF IsEnvelope
  <2>2. PICK g \in V : f = IF g.delim = "nested" THEN [g EXCEPT !.delim = d] ELSE g
    BY DEF Joined
  <2>3. CASE g.delim = "nested"
    <3>1. PICK w, c : g = [image |-> w, delim |-> "nested", name |-> c]
      BY <1>1, <1>2, <2>3
    <3> QED
      BY <1>7, <2>1, <2>2, <2>3, <3>1
  <2> QED
    BY <2>1, <2>2, <2>3
<1> QED
  BY <1>3, <1>4, <1>5, <1>6, <1>7 DEF V

(* One transform keeps shape and values together.                          *)
LEMMA StepFits ==
    ASSUME NEW values, NEW shape, NEW cols, Fits(values, shape, cols),
           NEW tr, tr.delim # "nested"
    PROVE  Fits(EachTransformed(values, tr), ApplyOne(shape, tr), cols)
<1> DEFINE U == EachTransformed(values, tr)
           t == ApplyOne(shape, tr)
           E == EnvelopeValue(cols)
<1>1. \A v \in U : \A f \in v : Possible(f, cols)
  <2> SUFFICES ASSUME NEW v \in U, NEW f \in v PROVE Possible(f, cols)
    OBVIOUS
  <2>1. v \in values \/ \E u \in values : v = Transformed(u, tr)
    BY DEF EachTransformed
  <2> QED
    BY <2>1, TransformedPossible DEF Fits
<1>2. /\ Envelope # UnknownShape /\ Row # UnknownShape /\ Row # Envelope
      /\ UnknownShape.kind = "unknown" /\ Envelope.kind = "envelope" /\ Row.kind = "row"
      /\ \A d : Flattened(d).kind = "flattened" /\ Flattened(d).delim = d
  BY DEF Envelope, Row, UnknownShape, Flattened
<1>3. \A d : Flattened(d) # Envelope /\ Flattened(d) # Row /\ Flattened(d) # UnknownShape
  BY <1>2
<1>4. \A v : values = {v} /\ (~tr.conditional \/ Transformed(v, tr) = v) => U = {Transformed(v, tr)}
  BY DEF EachTransformed
<1>5. CASE KeepsValue(tr)
  <2>1. t = shape
    BY <1>5 DEF ApplyOne, KeepsValue
  <2>2. \A v : Transformed(v, tr) = v
    BY <1>5 DEF Transformed, KeepsValue
  <2>3. U = values
    BY <2>2 DEF EachTransformed
  <2> QED
    BY <2>1, <2>3
<1>6. CASE tr.kind = "unwrap" /\ ~tr.conditional /\ shape = Envelope
  <2>1. t = Row
    BY <1>2, <1>6 DEF ApplyOne, KeepsValue
  <2>2. U = {Transformed(E, tr)}
    BY <1>4, <1>6 DEF Fits
  <2>3. Transformed(E, tr) = IF cols # {} THEN RowValue(cols) ELSE E
    BY <1>6, EnvelopeTransformed DEF Transformed
  <2> QED
    BY <1>1, <1>2, <2>1, <2>2, <2>3 DEF Fits
<1>7. CASE tr.kind = "flatten" /\ ~tr.conditional /\ shape = Envelope
  <2>1. t = Flattened(tr.delim)
    BY <1>2, <1>7 DEF ApplyOne, KeepsValue
  <2>2. U = {Transformed(E, tr)}
    BY <1>4, <1>7 DEF Fits
  <2>3. Transformed(E, tr) = Joined(E, tr.delim)
    BY <1>7, EnvelopeTransformed DEF Transformed
  <2> QED
    BY <1>1, <1>2, <1>3, <2>1, <2>2, <2>3 DEF Fits
<1>8. CASE tr.kind = "flatten" /\ ~tr.conditional /\ shape # Envelope
  <2>1. t = shape
    BY <1>8 DEF ApplyOne
  <2>2. ASSUME shape.kind \in {"row", "flattened"} PROVE U = values
    <3>1. PICK v : values = {v} /\ ~IsEnvelope(v)
      BY <2>2, EnvelopeTransformed DEF Fits
    <3>2. Transformed(v, tr) = v
      BY <1>8, <3>1 DEF Transformed
    <3> QED
      BY <1>4, <3>1, <3>2
  <2> QED
    BY <1>1, <1>8, <2>1, <2>2 DEF Fits
<1>9. CASE t = UnknownShape
  BY <1>1, <1>2, <1>9 DEF Fits
<1> QED
  BY <1>5, <1>6, <1>7, <1>8, <1>9 DEF ApplyOne

(* So a whole list keeps them together.                                    *)
LEMMA ListFits ==
    ASSUME NEW values, NEW shape, NEW cols, Fits(values, shape, cols),
           NEW transforms, Len(transforms) \in Nat,
           \A k \in 1..Len(transforms) : transforms[k].delim # "nested"
    PROVE  Fits(AllTransformed(values, transforms), ApplyTransforms(shape, transforms), cols)
<1> DEFINE N == Len(transforms)
<1>1. PICK f : /\ f = [k \in 0..N |-> IF k = 0 THEN shape ELSE ApplyOne(f[k - 1], transforms[k])]
               /\ ApplyTransforms(shape, transforms) = f[N]
  BY ShapesFollow
<1>2. PICK g : /\ g = [k \in 0..N |-> IF k = 0 THEN values ELSE EachTransformed(g[k - 1], transforms[k])]
               /\ AllTransformed(values, transforms) = g[N]
  BY ValuesFollow
<1> DEFINE S == {n \in Nat : n \in 0..N => Fits(g[n], f[n], cols)}
<1> HIDE DEF N
<1>3. N \in Nat
  BY DEF N
<1>4. 0 \in S
  <2>1. f[0] = shape /\ g[0] = values
    BY <1>1, <1>2, <1>3
  <2> QED
    BY <2>1
<1>5. ASSUME NEW n \in Nat, n \in S PROVE n + 1 \in S
  <2> SUFFICES ASSUME n + 1 \in 0..N PROVE Fits(g[n + 1], f[n + 1], cols)
    OBVIOUS
  <2>1. n \in 0..N /\ n + 1 \in 1..N /\ n + 1 # 0 /\ (n + 1) - 1 = n
    BY <1>3
  <2>2. f[n + 1] = ApplyOne(f[n], transforms[n + 1])
    BY <1>1, <2>1
  <2>3. g[n + 1] = EachTransformed(g[n], transforms[n + 1])
    BY <1>2, <2>1
  <2>4. Fits(g[n], f[n], cols)
    BY <1>5, <2>1
  <2>5. transforms[n + 1].delim # "nested"
    BY <2>1 DEF N
  <2> QED
    BY <2>2, <2>3, <2>4, <2>5, StepFits
<1>6. N \in S
  <2> HIDE DEF S
  <2> QED
    BY <1>3, <1>4, <1>5, SetInduction
<1> QED
  BY <1>1, <1>2, <1>3, <1>6 DEF N

-----------------------------------------------------------------------------
(* The events of a source table, as the linter and as the stream see them. *)

(* They fit before any transform.                                          *)
LEMMA StartFits ==
    ASSUME NEW c, NEW cols
    PROVE  Fits({StartValue(c, cols)}, StartShape(c), cols)
<1>1. \A n : Bare(n).name = n
  BY DEF Bare
<1>2. \A f \in RowValue(cols) : Possible(f, cols)
  BY <1>1 DEF RowValue, Possible
<1>3. ASSUME NEW f \in EnvelopeValue(cols) PROVE Possible(f, cols)
  <2>1. CASE f = Bare(f.name) /\ f.name \in EnvelopeFields
    BY <2>1 DEF Possible
  <2>2. ASSUME NEW w \in {"before", "after"}, NEW col \in cols,
               f = [image |-> w, delim |-> "nested", name |-> col]
        PROVE  Possible(f, cols)
    BY <2>2 DEF Possible
  <2> QED
    BY <2>1, <2>2, EnvelopeFacts
<1>4. StartShape(c) \in {Envelope, Row, UnknownShape}
      /\ (c.afterStateOnly = "true" <=> StartShape(c) = Row)
  BY DEF StartShape, Envelope, Row, UnknownShape
<1>5. Envelope.kind = "envelope" /\ Row.kind = "row" /\ UnknownShape.kind = "unknown"
  BY DEF Envelope, Row, UnknownShape
<1>6. StartValue(c, cols) = IF c.afterStateOnly = "true" THEN RowValue(cols) ELSE EnvelopeValue(cols)
  BY DEF StartValue, RowValue
<1> QED
  BY <1>2, <1>3, <1>4, <1>5, <1>6 DEF Fits

(* And after those of both connectors.                                     *)
LEMMA ValuesFit ==
    ASSUME NEW inp, IsInput(inp), NEW im \in (DOMAIN inp.source) \X (0..Len(inp.mappers)),
           NEW w, w.mapper = im[2]
    PROVE  Fits(Values(inp.contract, inp.source[im[1]], Between(inp, im)), ShapeFor(inp, w),
                Carries(inp.contract, inp.source[im[1]]))
<1> DEFINE c == inp.contract
           cols == Carries(c, inp.source[im[1]])
           first == AllTransformed({StartValue(c, cols)}, c.transforms)
<1>1. Fits(first, ValueShape(c), cols)
  <2>1. IsChain(c.transforms)
    BY DEF IsInput
  <2>2. Len(c.transforms) \in Nat
        /\ \A k \in 1..Len(c.transforms) : c.transforms[k].delim # "nested"
    BY <2>1 DEF IsChain, IsSequence
  <2> QED
    BY <2>2, StartFits, ListFits DEF ValueShape
<1>2. Values(c, inp.source[im[1]], Between(inp, im)) = AllTransformed(first, Between(inp, im))
  BY DEF Values
<1> HIDE DEF c, cols, first
<1>3. CASE im[2] = 0
  <2>1. Between(inp, im) = <<>> /\ ShapeFor(inp, w) = ValueShape(c)
    BY <1>3 DEF Between, ShapeFor, c
  <2>2. PICK g : /\ g = [k \in 0..Len(<<>>) |-> IF k = 0 THEN first ELSE EachTransformed(g[k - 1], <<>>[k])]
                 /\ AllTransformed(first, <<>>) = g[Len(<<>>)]
    <3>1. Len(<<>>) \in Nat
      OBVIOUS
    <3> QED
      BY <3>1, ValuesFollow
  <2>3. AllTransformed(first, <<>>) = first
    BY <2>2
  <2> QED
    BY <1>1, <1>2, <2>1, <2>3 DEF c, cols
<1>4. CASE im[2] # 0
  <2> DEFINE m == inp.mappers[im[2]]
  <2>1. im[2] \in DOMAIN inp.mappers
    BY <1>4 DEF IsInput, IsSequence
  <2>2. IsChain(m.transforms)
    BY <2>1 DEF IsInput
  <2>3. Len(m.transforms) \in Nat /\ \A k \in 1..Len(m.transforms) : m.transforms[k].delim # "nested"
    BY <2>2 DEF IsChain, IsSequence
  <2>4. Between(inp, im) = m.transforms
        /\ ShapeFor(inp, w) = ApplyTransforms(ValueShape(c), m.transforms)
    BY <1>4 DEF Between, ShapeFor, Reshape, c
  <2> HIDE DEF m
  <2> QED
    BY <1>1, <1>2, <2>3, <2>4, ListFits DEF c, cols
<1> QED
  BY <1>3, <1>4

(* The table a topic is looked up to, if any has it, is on it.             *)
LEMMA TableOnTopic ==
    ASSUME NEW inp, IsInput(inp), NEW i \in DOMAIN inp.source
    PROVE  LET j == TableOn(inp, TopicOf(inp, i))
           IN  j \in DOMAIN inp.source /\ TopicOf(inp, j) = TopicOf(inp, i)
<1> DEFINE n == Len(inp.source)
           topic == TopicOf(inp, i)
           I == {j \in 1..n : Topic(inp.contract, inp.source[j]) = topic}
<1>1. n \in Nat /\ DOMAIN inp.source = 1..n
  BY DEF IsInput, IsSequence
<1>2. TableOn(inp, topic) = IF I # {} THEN Max(I) ELSE 0
  BY DEF TableOn, SelectLastInSeq
<1> HIDE DEF n
<1>3. i \in I
  BY <1>1 DEF TopicOf
<1>4. Max(I) \in I
  BY <1>1, <1>3, MaxExists
<1> QED
  BY <1>1, <1>2, <1>3, <1>4 DEF TopicOf

(* A connector that can feed a sink table from some topic is found.        *)
LEMMA FirstConnectorFeeds ==
    ASSUME NEW inp, IsInput(inp), NEW st, NEW m \in DOMAIN inp.mappers, Candidates(inp, st, m) # {}
    PROVE  LET k == FirstConnector(inp, st)
           IN  k \in DOMAIN inp.mappers /\ Candidates(inp, st, k) # {}
<1> DEFINE n == Len(inp.mappers)
           seq == [k \in DOMAIN inp.mappers |-> Candidates(inp, st, k)]
           I == {k \in 1..Len(seq) : seq[k] # {}}
<1>1. n \in Nat /\ DOMAIN inp.mappers = 1..n
  BY DEF IsInput, IsSequence
<1>2. Len(seq) = n /\ \A k \in 1..n : seq[k] = Candidates(inp, st, k)
  BY <1>1
<1>3. FirstConnector(inp, st) = IF I # {} THEN Min(I) ELSE 0
  BY DEF FirstConnector, SelectInSeq
<1> HIDE DEF n, seq
<1>4. m \in I
  BY <1>1, <1>2
<1>5. Min(I) \in I
  BY <1>1, <1>2, <1>4, MinExists
<1> QED
  BY <1>1, <1>2, <1>3, <1>4, <1>5

(* A sink table that exactly one source table feeds, through one connector *)
(* or none, is tied to that table and connector, however it is resolved.   *)
LEMMA FeederIsResolved ==
    ASSUME NEW inp, IsInput(inp), NEW st, NEW im, Feeders(inp, st) = {im},
           NEW w \in Resolutions(inp, st)
    PROVE  /\ im \in (DOMAIN inp.source) \X (0..Len(inp.mappers))
           /\ w.table = im[1] /\ w.mapper = im[2]
<1> DEFINE Feeds(i, m) ==
             IF st.topic # <<>> THEN m = 0 /\ TopicOf(inp, i) = st.topic
             ELSE m # 0 /\ ForSink(inp.mappers[m], st.sink)
                        /\ Maps(inp.mappers[m], TopicOf(inp, i), st)
<1>1. /\ im \in (DOMAIN inp.source) \X (0..Len(inp.mappers)) /\ Feeds(im[1], im[2])
      /\ \A i \in DOMAIN inp.source, m \in 0..Len(inp.mappers) : Feeds(i, m) => <<i, m>> = im
  <2>1. im \in Feeders(inp, st)
    OBVIOUS
  <2>2. im \in (DOMAIN inp.source) \X (0..Len(inp.mappers)) /\ Feeds(im[1], im[2])
    BY <2>1, Zenon DEF Feeders, TopicOf
  <2>3. ASSUME NEW i \in DOMAIN inp.source, NEW m \in 0..Len(inp.mappers), Feeds(i, m)
        PROVE  <<i, m>> = im
    <3>1. <<i, m>> \in (DOMAIN inp.source) \X (0..Len(inp.mappers))
          /\ <<i, m>>[1] = i /\ <<i, m>>[2] = m
      OBVIOUS
    <3> DEFINE x == <<i, m>>
    <3>2. x \in (DOMAIN inp.source) \X (0..Len(inp.mappers)) /\ Feeds(x[1], x[2])
      BY <2>3, <3>1, Zenon
    <3> HIDE DEF x
    <3>3. x \in Feeders(inp, st)
      BY <3>2, Zenon DEF Feeders, TopicOf
    <3> QED
      BY <3>3 DEF x
  <2> QED
    BY <2>2, <2>3, Zenon
<1>2. im[1] \in DOMAIN inp.source /\ im[2] \in 0..Len(inp.mappers) /\ Len(inp.mappers) \in Nat
      /\ DOMAIN inp.mappers = 1..Len(inp.mappers)
  BY <1>1 DEF IsInput, IsSequence
<1>3. CASE st.topic # <<>>
  <2>1. w = [table |-> TableOn(inp, st.topic), mapper |-> 0]
    BY <1>3 DEF Resolutions
  <2>2. im[2] = 0 /\ TopicOf(inp, im[1]) = st.topic
    BY <1>1, <1>3
  <2>3. Feeds(w.table, 0) /\ w.table \in DOMAIN inp.source
    BY <1>2, <1>3, <2>1, <2>2, TableOnTopic
  <2>4. <<w.table, 0>> = im
    BY <1>1, <1>2, <2>3
  <2> QED
    BY <1>1, <2>1, <2>2, <2>4
<1>4. CASE st.topic = <<>>
  <2> DEFINE k == FirstConnector(inp, st)
  <2>1. im[2] # 0 /\ TopicOf(inp, im[1]) \in Candidates(inp, st, im[2])
    BY <1>1, <1>2, <1>4 DEF Candidates, Topics
  <2>2. k \in DOMAIN inp.mappers /\ Candidates(inp, st, k) # {}
    BY <1>2, <2>1, FirstConnectorFeeds
  <2>3. ByConnector(inp, st) = {[table |-> TableOn(inp, tp), mapper |-> k] : tp \in Candidates(inp, st, k)}
    BY <1>2, <2>2 DEF ByConnector
  <2>4. w \in ByConnector(inp, st)
    BY <1>4, <2>2, <2>3 DEF Resolutions
  <2> HIDE DEF k
  <2>5. PICK tp \in Candidates(inp, st, k) : w = [table |-> TableOn(inp, tp), mapper |-> k]
    BY <2>3, <2>4
  <2>6. PICK i \in DOMAIN inp.source : tp = TopicOf(inp, i)
    BY DEF Candidates, Topics
  <2>7. w.table \in DOMAIN inp.source /\ TopicOf(inp, w.table) = tp /\ w.mapper = k
    BY <2>5, <2>6, TableOnTopic
  <2>8. Feeds(w.table, k) /\ k \in 0..Len(inp.mappers)
    BY <1>2, <1>4, <2>2, <2>7 DEF Candidates
  <2>9. <<w.table, k>> = im
    BY <1>1, <2>7, <2>8
  <2> QED
    BY <1>1, <2>7, <2>9
<1> QED
  BY <1>3, <1>4
=============================================================================
