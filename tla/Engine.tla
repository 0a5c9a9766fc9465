------------------------------- MODULE Engine -------------------------------
(***************************************************************************)
(* One run of the rules over one input (engine.Run): resolve ties each     *)
(* sink table to the source table that feeds it, one table at a time, then *)
(* the ten rules run in the order of the code, each adding its findings.   *)
(***************************************************************************)
EXTENDS Rules, Stream

CONSTANT Inputs          \* the inputs a run may be started on

VARIABLES
    input,      \* engine.Input, as loaded
    pc,         \* 0 while resolving, else the rule about to run; Done after the last
    next,       \* the sink table resolve looks at next
    reads,      \* what resolve found so far
    fs,         \* the findings so far
    raised      \* the columns the diff rule raised

vars == <<input, pc, next, reads, fs, raised>>

Done == 11

ASSUME InputsAssumption == \A inp \in Inputs : IsInput(inp)

Init ==
    /\ input \in Inputs
    /\ pc = 0
    /\ next = 1
    /\ reads = {}
    /\ fs = {}
    /\ raised = {}

ResolveSinkTable ==
    /\ pc = 0
    /\ next \in DOMAIN input.sinks
    /\ \E w \in Resolutions(input, input.sinks[next]) :
          reads' = reads \cup ReadsOf(input, next, w)
    /\ next' = next + 1
    /\ UNCHANGED <<input, pc, fs, raised>>

Resolved ==
    /\ pc = 0
    /\ next \notin DOMAIN input.sinks
    /\ pc' = 1
    /\ UNCHANGED <<input, next, reads, fs, raised>>

(* The rule at number k adds what it found. *)
RunRule(k, found) ==
    /\ pc = k
    /\ fs' = fs \cup found
    /\ pc' = k + 1
    /\ UNCHANGED <<input, next, reads>>

RunTopicTableMapping ==
    RunRule(1, TopicTableMapping(input, reads)) /\ UNCHANGED raised

RunSinkTableNotCaptured ==
    RunRule(2, SinkTableNotCaptured(input, reads)) /\ UNCHANGED raised

RunSinkColumnNotCaptured ==
    RunRule(3, SinkColumnNotCaptured(input, reads)) /\ UNCHANGED raised

RunSinkColumnUnknown ==
    RunRule(4, SinkColumnUnknown(input, reads)) /\ UNCHANGED raised

RunSinkColumnFlattened ==
    RunRule(5, SinkColumnFlattened(input, reads)) /\ UNCHANGED raised

\* Mutant: the inventory is not told what the diff rule raised.
RunSchemaBeforeConnector_KeepsToItself ==
    RunRule(6, SchemaBeforeConnector(input, reads)) /\ UNCHANGED raised

(* Before the inventory, which leaves out what this raised. *)
RunSchemaBeforeConnector ==
    /\ RunRule(6, SchemaBeforeConnector(input, reads))
    /\ raised' = Raised(input, reads)

RunSourceColumnNotCaptured ==
    RunRule(7, SourceColumnNotCaptured(input, reads, raised)) /\ UNCHANGED raised

RunCapturedColumnMissing ==
    RunRule(8, CapturedColumnMissing(input)) /\ UNCHANGED raised

RunCapturedTableMissing ==
    RunRule(9, CapturedTableMissing(input)) /\ UNCHANGED raised

RunMvColumnMatch ==
    RunRule(10, MvColumnMatch(input)) /\ UNCHANGED raised

Terminating == pc = Done /\ UNCHANGED vars

Next ==
    \/ ResolveSinkTable \/ Resolved
    \/ RunTopicTableMapping \/ RunSinkTableNotCaptured
    \/ RunSinkColumnNotCaptured \/ RunSinkColumnUnknown
    \/ RunSinkColumnFlattened \/ RunSchemaBeforeConnector
    \/ RunSourceColumnNotCaptured \/ RunCapturedColumnMissing
    \/ RunCapturedTableMissing \/ RunMvColumnMatch
    \/ Terminating

Spec == Init /\ [][Next]_vars

-----------------------------------------------------------------------------
(* The values of the variables: every read and every finding is about      *)
(* objects the input has, and only columns the connector leaves out of a   *)
(* captured table are ever raised.                                         *)
TypeOK ==
    /\ IsInput(input)
    /\ pc \in 0..Done
    /\ next \in 1..(Len(input.sinks) + 1)
    /\ \A r \in reads : /\ r.sink \in DOMAIN input.sinks
                        /\ r.table \in 0..Len(input.source)
    /\ \A f \in fs : /\ f.severity \in {Info, Warning, Error}
                     /\ f.subject.table \in 0..Len(input.source)
    /\ raised \subseteq LeftOut(input)

-----------------------------------------------------------------------------
(* Run is one judgement: whatever the order of the rules and what they     *)
(* hand on, the report is what all of them find in one way of resolving    *)
(* the sink tables.                                                        *)
Abstract == INSTANCE Verdict WITH answer <- IF pc = Done THEN <<fs>> ELSE <<>>

ImplementsVerdict == Abstract!VerdictSpec

(* model.Sort "orders findings for stable output": two runs over the same  *)
(* files print the same.  So every other way to resolve finds the same.    *)
StableOutput ==
    pc = Done =>
        \A w \in Resolvings(input) : fs = FindingsOf(input, AllReads(input, w))

-----------------------------------------------------------------------------
(* The rules that name a source column the connector leaves out. *)

Listing(i, c) ==
    {f.rule : f \in {g \in fs : /\ g.rule \in CaptureRules
                               /\ g.subject.table = i /\ g.subject.column = c}}

(* A column of a captured table that the connector leaves out appears in   *)
(* the report under exactly one rule: the error when a sink reads it, the  *)
(* warning when the change adds it, the inventory otherwise.  It is never  *)
(* lost between the three and never listed twice, which rests on the diff  *)
(* rule running before the inventory and on both comparing the same keys.  *)
EveryLeftOutColumnListedOnce ==
    pc = Done =>
        \A ic \in LeftOut(input) :
            \E rule \in CaptureRules : Listing(ic[1], ic[2]) = {rule}

-----------------------------------------------------------------------------
(* What the findings say, held against what really arrives. *)

(* The single table and connector whose events reach sink table s. *)
FedBy(s, im) == Feeders(input, input.sinks[s]) = {im}

KnownShape(im) ==
    LET w == [table |-> im[1], mapper |-> im[2]]
    IN  ShapeFor(input, w).kind \in {"row", "flattened"}

(* Names a sink column can only have for a field of an event. *)
EventField(n) ==
    ~IsMetadata(n) /\ n.image \notin {"source", "transaction"}

EnvelopeName(n) == n.image = "" /\ n.name \in EnvelopeFields

(* No event fills a column of that name: none carries it, or the table has *)
(* no events, whose envelope the column could read.                        *)
NeverFilled(im, n) ==
    \/ NeverArrives(input, im, n)
    \/ ~Captured(input, im[1]) /\ ~EnvelopeName(n)

(* A sink column that no event ever fills is never passed over: when the   *)
(* linter knows the shape of the events and one table feeds the sink       *)
(* table, some warning or error names the column or its whole table, and   *)
(* it is an error when the column is named after a source column.  This is *)
(* the failure the tool exists for: a column at its default on every row,  *)
(* with no error anywhere.                                                 *)
NoSilentDefault ==
    pc = Done =>
        \A s \in DOMAIN input.sinks, im \in (DOMAIN input.source) \X (0..Len(input.mappers)) :
            FedBy(s, im) /\ KnownShape(im) =>
                \A k \in DOMAIN input.sinks[s].columns :
                    LET n == input.sinks[s].columns[k].name
                        Least == IF HasColumn(input.source[im[1]], n) THEN Error ELSE Warning
                    IN  EventField(n) /\ NeverFilled(im, n) =>
                            \E f \in fs : /\ f.severity >= Least
                                         /\ f.subject.sink = s
                                         /\ f.subject.item \in {<<>>, <<k>>}

(* The converse: an error about a capture is never a false alarm.  When it *)
(* names a column, no event carries that column (unless the source has one *)
(* of the names of the envelope's own fields); when it says a transform    *)
(* flattens the event, some column of the sink table is left empty; when   *)
(* it says the table is not captured, it is not.                           *)
ErrorsAreReal ==
    pc = Done =>
        \A f \in {g \in fs : g.subject.sink # 0} :
        \A im \in Feeders(input, input.sinks[f.subject.sink]) :
            LET columns == input.sinks[f.subject.sink].columns
                Empty(k) == NeverArrives(input, im, columns[k].name)
            IN  FedBy(f.subject.sink, im) /\ Documented(input.contract, Between(input, im)) =>
                    /\ f.rule = "sink-column-not-captured" =>
                          LET k == f.subject.item[1] IN Empty(k) \/ EnvelopeName(columns[k].name)
                    /\ f.rule = "sink-column-flattened" => \E k \in DOMAIN columns : Empty(k)
                    /\ f.rule = "sink-table-not-captured" => ~Captured(input, im[1])

-----------------------------------------------------------------------------
(* The diff rule. *)

BaseContracts == {inp.base[1].contract : inp \in {x \in Inputs : x.base # <<>>}}

DiffFindings(found, i) ==
    {f \in found : f.rule = "schema-before-connector" /\ f.subject.table = i}

(* What the diff rule says of a table depends on the old connector only    *)
(* through whether it captured that table: any other edit of the connector *)
(* in the same change, for another table or another column, silences       *)
(* nothing and raises nothing (the bug of the first release, #966).        *)
EditElsewhereSaysNothing ==
    pc = Done /\ input.base # <<>> =>
        \A old \in BaseContracts, i \in DOMAIN input.source :
            LET other == [input EXCEPT !.base[1].contract = old, !.base[1].changed = TRUE]
            IN  (CapturedAtBase(input, i) <=> CapturedAtBase(other, i)) =>
                    DiffFindings(fs, i) = DiffFindings(SchemaBeforeConnector(other, reads), i)

-----------------------------------------------------------------------------
(* Materialized views. *)

(* The columns that get output j of a view: the j-th column from a         *)
(* refreshable view, the one of its name from a streaming one.             *)
Lands(v, columns, j) ==
    {k \in DOMAIN columns : IF v.refreshable THEN k = j ELSE columns[k].name = v.columns[j]}

(* Every output lands in the column of its own name, and a refreshable     *)
(* view also fills every column.                                           *)
LandsRight(v, columns) ==
    /\ \A j \in DOMAIN v.columns :
          /\ Lands(v, columns, j) # {}
          /\ \A k \in Lands(v, columns, j) : columns[k].name = v.columns[j]
    /\ v.refreshable =>
          \A k \in DOMAIN columns : \E j \in DOMAIN v.columns : k \in Lands(v, columns, j)

(* Sink table k is the only ClickHouse table the view may mean. *)
Targets(v, k) ==
    /\ v.target # <<>>
    /\ \A j \in DOMAIN input.sinks :
          input.sinks[j].sink = "clickhouse"
              /\ v.target \in {input.sinks[j].name, LastSegment(input.sinks[j].name)} <=> j = k

(* A finding about a view names its line, so that two views on one line    *)
(* cannot be told apart.                                                   *)
AloneOnItsLine(v) == \A u \in ToSet(input.views) : u.pos = v.pos => u = v

(* A view whose target is one ClickHouse table is reported exactly when    *)
(* some output would land in a column of another name, or nowhere, or a    *)
(* refreshable view leaves a column unfilled.                              *)
ViewReportedIffItMisplaces ==
    pc = Done =>
        \A v \in ToSet(input.views), k \in DOMAIN input.sinks :
            Targets(v, k) /\ AloneOnItsLine(v) =>
                (LandsRight(v, input.sinks[k].columns) <=>
                    ~\E f \in fs : f.rule = "mv-column-match" /\ f.pos = v.pos)
=============================================================================
