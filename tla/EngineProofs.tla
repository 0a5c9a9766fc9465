---------------------------- MODULE EngineProofs ----------------------------
(***************************************************************************)
(* Theorems about Engine, for every set of inputs.  The inductive          *)
(* invariant says what the report holds after each rule; the type          *)
(* invariant, the listing of left-out columns, the diff rule's blindness   *)
(* to edits elsewhere and the verdict on views follow from it, and so does *)
(* that a run implements Verdict.  With what RulesProofs says of a record *)
(* between two connectors, it gives the two theorems about the events: no  *)
(* column that stays empty passes in silence, and no error is false.       *)
(***************************************************************************)
EXTENDS Engine, RulesProofs

-----------------------------------------------------------------------------
(* The inductive invariant.  TypeOK and the listing property speak of the  *)
(* report; to be inductive they need what resolve may have left in reads,  *)
(* and that the report is at every point what the rules run so far find in *)
(* the finished reads.                                                     *)

Sofar(p, k, found) == IF p > k THEN found ELSE {}

(* What the report holds when rule p is about to run. *)
Report(p, inp, rs) ==
    Sofar(p, 1, TopicTableMapping(inp, rs))
    \cup Sofar(p, 2, SinkTableNotCaptured(inp, rs))
    \cup Sofar(p, 3, SinkColumnNotCaptured(inp, rs))
    \cup Sofar(p, 4, SinkColumnUnknown(inp, rs))
    \cup Sofar(p, 5, SinkColumnFlattened(inp, rs))
    \cup Sofar(p, 6, SchemaBeforeConnector(inp, rs))
    \cup Sofar(p, 7, SourceColumnNotCaptured(inp, rs, Raised(inp, rs)))
    \cup Sofar(p, 8, CapturedColumnMissing(inp))
    \cup Sofar(p, 9, CapturedTableMissing(inp))
    \cup Sofar(p, 10, MvColumnMatch(inp))

IInv ==
    /\ IsInput(input)
    /\ pc \in 0..Done
    /\ next \in 1..(Len(input.sinks) + 1)
    /\ \A r \in reads : ReadOK(input, r)
    /\ raised = Sofar(pc, 6, Raised(input, reads))
    /\ fs = Report(pc, input, reads)

(* Before the first rule the report is empty; each rule adds its findings. *)
LEMMA ReportSteps ==
    ASSUME NEW inp, NEW rs
    PROVE  /\ Report(0, inp, rs) = {} /\ Report(1, inp, rs) = {}
           /\ Report(2, inp, rs) = Report(1, inp, rs) \cup TopicTableMapping(inp, rs)
           /\ Report(3, inp, rs) = Report(2, inp, rs) \cup SinkTableNotCaptured(inp, rs)
           /\ Report(4, inp, rs) = Report(3, inp, rs) \cup SinkColumnNotCaptured(inp, rs)
           /\ Report(5, inp, rs) = Report(4, inp, rs) \cup SinkColumnUnknown(inp, rs)
           /\ Report(6, inp, rs) = Report(5, inp, rs) \cup SinkColumnFlattened(inp, rs)
           /\ Report(7, inp, rs) = Report(6, inp, rs) \cup SchemaBeforeConnector(inp, rs)
           /\ Report(8, inp, rs) = Report(7, inp, rs)
                   \cup SourceColumnNotCaptured(inp, rs, Raised(inp, rs))
           /\ Report(9, inp, rs) = Report(8, inp, rs) \cup CapturedColumnMissing(inp)
           /\ Report(10, inp, rs) = Report(9, inp, rs) \cup CapturedTableMissing(inp)
           /\ Report(11, inp, rs) = Report(10, inp, rs) \cup MvColumnMatch(inp)
  BY DEF Report, Sofar

LEMMA InitIInv == Init => IInv
<1> SUFFICES ASSUME Init PROVE IInv
  OBVIOUS
<1>1. IsInput(input)
  BY InputsAssumption DEF Init
<1>2. Len(input.sinks) \in Nat
  BY <1>1 DEF IsInput, IsSequence
<1>3. pc \in 0..Done /\ next \in 1..(Len(input.sinks) + 1)
  BY <1>2 DEF Init, Done
<1>4. fs = Report(pc, input, reads)
  BY ReportSteps DEF Init
<1>5. raised = Sofar(pc, 6, Raised(input, reads))
  BY DEF Init, Sofar
<1> QED
  BY <1>1, <1>3, <1>4, <1>5 DEF IInv, Init

(* Resolving the next sink table adds reads the input allows, and runs no  *)
(* rule.                                                                   *)
LEMMA ResolveIInv == IInv /\ ResolveSinkTable => IInv'
<1> SUFFICES ASSUME IInv, ResolveSinkTable PROVE IInv'
  OBVIOUS
<1>1. PICK w \in Resolutions(input, input.sinks[next]) :
         reads' = reads \cup ReadsOf(input, next, w)
  BY DEF ResolveSinkTable
<1>2. /\ pc = 0 /\ pc' = 0 /\ input' = input /\ fs' = fs /\ raised' = raised
      /\ next \in DOMAIN input.sinks /\ next' = next + 1
  BY DEF ResolveSinkTable
<1>3. \A r \in reads' : ReadOK(input', r)
  <2>1. \A r \in ReadsOf(input, next, w) : ReadOK(input, r)
    BY <1>2, ReadsTyped DEF IInv
  <2> QED
    BY <1>1, <1>2, <2>1 DEF IInv
<1>4. next' \in 1..(Len(input'.sinks) + 1)
  <2>1. DOMAIN input.sinks = 1..Len(input.sinks) /\ Len(input.sinks) \in Nat
    BY DEF IInv, IsInput, IsSequence
  <2> QED
    BY <1>2, <2>1
<1>5. fs' = Report(pc', input', reads')
  BY <1>2, ReportSteps DEF IInv
<1>6. raised' = Sofar(pc', 6, Raised(input', reads'))
  BY <1>2 DEF IInv, Sofar
<1> QED
  BY <1>2, <1>3, <1>4, <1>5, <1>6 DEF IInv, Done

LEMMA ResolvedIInv == IInv /\ Resolved => IInv'
<1> SUFFICES ASSUME IInv, Resolved PROVE IInv'
  OBVIOUS
<1>1. /\ pc = 0 /\ pc' = 1
      /\ input' = input /\ reads' = reads /\ fs' = fs /\ raised' = raised /\ next' = next
  BY DEF Resolved
<1>2. fs' = Report(pc', input', reads')
  BY <1>1, ReportSteps DEF IInv
<1>3. raised' = Sofar(pc', 6, Raised(input', reads'))
  BY <1>1 DEF IInv, Sofar
<1> QED
  BY <1>1, <1>2, <1>3 DEF IInv, Done

(* What every rule keeps: it reads the input and what resolve found, and   *)
(* moves on by one.                                                        *)
LEMMA RuleFrame ==
    ASSUME IInv, NEW k \in 1..10,
           pc = k, pc' = k + 1, UNCHANGED <<input, next, reads>>,
           fs' = Report(k + 1, input, reads),
           raised' = Sofar(k + 1, 6, Raised(input, reads))
    PROVE  IInv'
<1>1. pc' \in 0..Done
  BY DEF Done
<1> QED
  BY <1>1 DEF IInv

(* Every rule but the diff rule hands raised on as it was.                 *)
LEMMA RaisedFrame ==
    ASSUME IInv, NEW k \in (1..10) \ {6}, pc = k, UNCHANGED raised
    PROVE  raised' = Sofar(k + 1, 6, Raised(input, reads))
<1>1. k + 1 > 6 <=> k > 6
  OBVIOUS
<1> QED
  BY <1>1 DEF IInv, Sofar

LEMMA NextIInv == IInv /\ [Next]_vars => IInv'
<1> SUFFICES ASSUME IInv, [Next]_vars PROVE IInv'
  OBVIOUS
<1>1. CASE ResolveSinkTable
  BY <1>1, ResolveIInv
<1>2. CASE Resolved
  BY <1>2, ResolvedIInv
<1>3. CASE RunTopicTableMapping
  <2>1. /\ pc = 1 /\ pc' = 2 /\ UNCHANGED <<input, next, reads, raised>>
        /\ fs' = fs \cup TopicTableMapping(input, reads)
    BY <1>3 DEF RunTopicTableMapping, RunRule
  <2>2. fs' = Report(2, input, reads)
    BY <2>1, ReportSteps DEF IInv
  <2>3. raised' = Sofar(2, 6, Raised(input, reads))
    BY <2>1, RaisedFrame
  <2> QED
    BY <2>1, <2>2, <2>3, RuleFrame
<1>4. CASE RunSinkTableNotCaptured
  <2>1. /\ pc = 2 /\ pc' = 3 /\ UNCHANGED <<input, next, reads, raised>>
        /\ fs' = fs \cup SinkTableNotCaptured(input, reads)
    BY <1>4 DEF RunSinkTableNotCaptured, RunRule
  <2>2. fs' = Report(3, input, reads)
    BY <2>1, ReportSteps DEF IInv
  <2>3. raised' = Sofar(3, 6, Raised(input, reads))
    BY <2>1, RaisedFrame
  <2> QED
    BY <2>1, <2>2, <2>3, RuleFrame
<1>5. CASE RunSinkColumnNotCaptured
  <2>1. /\ pc = 3 /\ pc' = 4 /\ UNCHANGED <<input, next, reads, raised>>
        /\ fs' = fs \cup SinkColumnNotCaptured(input, reads)
    BY <1>5 DEF RunSinkColumnNotCaptured, RunRule
  <2>2. fs' = Report(4, input, reads)
    BY <2>1, ReportSteps DEF IInv
  <2>3. raised' = Sofar(4, 6, Raised(input, reads))
    BY <2>1, RaisedFrame
  <2> QED
    BY <2>1, <2>2, <2>3, RuleFrame
<1>6. CASE RunSinkColumnUnknown
  <2>1. /\ pc = 4 /\ pc' = 5 /\ UNCHANGED <<input, next, reads, raised>>
        /\ fs' = fs \cup SinkColumnUnknown(input, reads)
    BY <1>6 DEF RunSinkColumnUnknown, RunRule
  <2>2. fs' = Report(5, input, reads)
    BY <2>1, ReportSteps DEF IInv
  <2>3. raised' = Sofar(5, 6, Raised(input, reads))
    BY <2>1, RaisedFrame
  <2> QED
    BY <2>1, <2>2, <2>3, RuleFrame
<1>7. CASE RunSinkColumnFlattened
  <2>1. /\ pc = 5 /\ pc' = 6 /\ UNCHANGED <<input, next, reads, raised>>
        /\ fs' = fs \cup SinkColumnFlattened(input, reads)
    BY <1>7 DEF RunSinkColumnFlattened, RunRule
  <2>2. fs' = Report(6, input, reads)
    BY <2>1, ReportSteps DEF IInv
  <2>3. raised' = Sofar(6, 6, Raised(input, reads))
    BY <2>1, RaisedFrame
  <2> QED
    BY <2>1, <2>2, <2>3, RuleFrame
<1>8. CASE RunSchemaBeforeConnector
  <2>1. /\ pc = 6 /\ pc' = 7 /\ UNCHANGED <<input, next, reads>>
        /\ fs' = fs \cup SchemaBeforeConnector(input, reads)
        /\ raised' = Raised(input, reads)
    BY <1>8 DEF RunSchemaBeforeConnector, RunRule
  <2>2. fs' = Report(7, input, reads)
    BY <2>1, ReportSteps DEF IInv
  <2>3. raised' = Sofar(7, 6, Raised(input, reads))
    BY <2>1 DEF Sofar
  <2> QED
    BY <2>1, <2>2, <2>3, RuleFrame
<1>9. CASE RunSourceColumnNotCaptured
  <2>1. /\ pc = 7 /\ pc' = 8 /\ UNCHANGED <<input, next, reads, raised>>
        /\ fs' = fs \cup SourceColumnNotCaptured(input, reads, raised)
    BY <1>9 DEF RunSourceColumnNotCaptured, RunRule
  <2>2. raised = Raised(input, reads)
    BY <2>1 DEF IInv, Sofar
  <2>3. fs' = Report(8, input, reads)
    BY <2>1, <2>2, ReportSteps DEF IInv
  <2>4. raised' = Sofar(8, 6, Raised(input, reads))
    BY <2>1, RaisedFrame
  <2> QED
    BY <2>1, <2>3, <2>4, RuleFrame
<1>10. CASE RunCapturedColumnMissing
  <2>1. /\ pc = 8 /\ pc' = 9 /\ UNCHANGED <<input, next, reads, raised>>
        /\ fs' = fs \cup CapturedColumnMissing(input)
    BY <1>10 DEF RunCapturedColumnMissing, RunRule
  <2>2. fs' = Report(9, input, reads)
    BY <2>1, ReportSteps DEF IInv
  <2>3. raised' = Sofar(9, 6, Raised(input, reads))
    BY <2>1, RaisedFrame
  <2> QED
    BY <2>1, <2>2, <2>3, RuleFrame
<1>11. CASE RunCapturedTableMissing
  <2>1. /\ pc = 9 /\ pc' = 10 /\ UNCHANGED <<input, next, reads, raised>>
        /\ fs' = fs \cup CapturedTableMissing(input)
    BY <1>11 DEF RunCapturedTableMissing, RunRule
  <2>2. fs' = Report(10, input, reads)
    BY <2>1, ReportSteps DEF IInv
  <2>3. raised' = Sofar(10, 6, Raised(input, reads))
    BY <2>1, RaisedFrame
  <2> QED
    BY <2>1, <2>2, <2>3, RuleFrame
<1>12. CASE RunMvColumnMatch
  <2>1. /\ pc = 10 /\ pc' = 11 /\ UNCHANGED <<input, next, reads, raised>>
        /\ fs' = fs \cup MvColumnMatch(input)
    BY <1>12 DEF RunMvColumnMatch, RunRule
  <2>2. fs' = Report(11, input, reads)
    BY <2>1, ReportSteps DEF IInv
  <2>3. raised' = Sofar(11, 6, Raised(input, reads))
    BY <2>1, RaisedFrame
  <2> QED
    BY <2>1, <2>2, <2>3, RuleFrame
<1>13. CASE UNCHANGED vars
  BY <1>13 DEF vars, IInv
<1> QED
  BY <1>1, <1>2, <1>3, <1>4, <1>5, <1>6, <1>7, <1>8, <1>9, <1>10, <1>11, <1>12, <1>13
     DEF Next, Terminating

-----------------------------------------------------------------------------
(* What follows from the invariant. *)

(* Every finding in the report so far is one of some rule's.               *)
LEMMA ReportFrom ==
    ASSUME NEW p, NEW inp, NEW rs, NEW f \in Report(p, inp, rs)
    PROVE  \/ f \in TopicTableMapping(inp, rs) \/ f \in SinkTableNotCaptured(inp, rs)
           \/ f \in SinkColumnNotCaptured(inp, rs) \/ f \in SinkColumnUnknown(inp, rs)
           \/ f \in SinkColumnFlattened(inp, rs) \/ f \in SchemaBeforeConnector(inp, rs)
           \/ f \in SourceColumnNotCaptured(inp, rs, Raised(inp, rs))
           \/ f \in CapturedColumnMissing(inp) \/ f \in CapturedTableMissing(inp)
           \/ f \in MvColumnMatch(inp)
<1>1. \A k, found : Sofar(p, k, found) \subseteq found
  BY Zenon DEF Sofar
<1> QED
  BY <1>1, Zenon DEF Report

LEMMA IInvTypeOK == IInv => TypeOK
<1> SUFFICES ASSUME IInv PROVE TypeOK
  OBVIOUS
<1>1. \A f \in fs : FindingOK(input, f)
  <2> SUFFICES ASSUME NEW f \in fs PROVE FindingOK(input, f)
    OBVIOUS
  <2>1. f \in Report(pc, input, reads)
    BY DEF IInv
  <2> QED
    BY <2>1, ReportFrom, OtherRulesOverReads, OtherRulesOverLists,
       SinkColumnNotCapturedFacts, SchemaBeforeConnectorFacts,
       SourceColumnNotCapturedFacts, Zenon DEF IInv, OtherFinding
<1>2. raised \subseteq LeftOut(input)
  BY RaisedFacts, Zenon DEF IInv, Sofar
<1> QED
  BY <1>1, <1>2 DEF IInv, TypeOK, FindingOK, ReadOK

(* When the run ends, each left-out column is under the one rule its case  *)
(* calls for.                                                              *)
LEMMA IInvListedOnce == IInv => EveryLeftOutColumnListedOnce
<1> SUFFICES ASSUME IInv, pc = Done, NEW ic \in LeftOut(input)
             PROVE  \E rule \in CaptureRules : Listing(ic[1], ic[2]) = {rule}
  BY DEF EveryLeftOutColumnListedOnce
<1> DEFINE A == SinkColumnNotCaptured(input, reads)
           B == SchemaBeforeConnector(input, reads)
           C == SourceColumnNotCaptured(input, reads, Raised(input, reads))
           Names(f) == f.subject.table = ic[1] /\ f.subject.column = ic[2]
           D == IsDeclared(input, reads, ic[1], ic[2])
           R == ic \in Raised(input, reads)
<1>1. ic = <<ic[1], ic[2]>>
  BY SourceColumnsFacts, Zenon DEF LeftOut
<1>2. A \cup B \cup C \subseteq fs
  <2>1. \A k \in 1..10 : \A found : Sofar(pc, k, found) = found
    BY DEF Sofar, Done
  <2>2. 3 \in 1..10 /\ 6 \in 1..10 /\ 7 \in 1..10
    OBVIOUS
  <2>3. Sofar(pc, 3, A) = A /\ Sofar(pc, 6, B) = B /\ Sofar(pc, 7, C) = C
    BY <2>1, <2>2, Zenon
  <2> QED
    BY <2>3, Zenon DEF IInv, Report
<1>3. \A f \in fs : f.rule \in CaptureRules => f \in A \cup B \cup C
  BY ReportFrom, OtherRulesOverReads, OtherRulesOverLists, Zenon DEF IInv, OtherFinding
<1>4. /\ \A f \in A : f.rule = "sink-column-not-captured" /\ (Names(f) => D)
      /\ D => \E f \in A : Names(f)
  BY SinkColumnNotCapturedFacts, Zenon DEF IInv
<1>5. /\ \A f \in B : f.rule = "schema-before-connector" /\ (Names(f) => R)
      /\ R => \E f \in B : Names(f)
  <2>1. /\ \A f \in B : /\ f.rule = "schema-before-connector"
                        /\ <<f.subject.table, f.subject.column>> \in Raised(input, reads)
        /\ R => \E f \in B : Names(f)
    BY SchemaBeforeConnectorFacts, Zenon DEF IInv
  <2>2. \A f \in B : Names(f) => <<f.subject.table, f.subject.column>> = ic
    BY <1>1, Zenon
  <2> QED
    BY <2>1, <2>2
<1>6. /\ \A f \in C : f.rule = "source-column-not-captured" /\ (Names(f) => ~D /\ ~R)
      /\ ~D /\ ~R => \E f \in C : Names(f)
  <2>1. IsInput(input)
    BY DEF IInv
  <2>2. ASSUME NEW f \in C
        PROVE  /\ f.rule = "source-column-not-captured"
               /\ ~IsDeclared(input, reads, f.subject.table, f.subject.column)
               /\ <<f.subject.table, f.subject.column>> \notin Raised(input, reads)
    BY <2>1, SourceColumnNotCapturedFacts
  <2>3. ~D /\ ~R => \E f \in C : Names(f)
    BY <2>1, SourceColumnNotCapturedFacts
  <2>4. \A f \in C : Names(f) => <<f.subject.table, f.subject.column>> = ic
    BY <1>1, Zenon
  <2> QED
    BY <2>2, <2>3, <2>4
<1>7. R => ~D
  BY RaisedFacts, Zenon
<1> HIDE DEF A, B, C, Names, D, R
<1>8. CASE D
  <2>1. Listing(ic[1], ic[2]) = {"sink-column-not-captured"}
    BY <1>2, <1>3, <1>4, <1>5, <1>6, <1>7, <1>8 DEF Listing, CaptureRules, Names
  <2> QED
    BY <2>1 DEF CaptureRules
<1>9. CASE R
  <2>1. Listing(ic[1], ic[2]) = {"schema-before-connector"}
    BY <1>2, <1>3, <1>4, <1>5, <1>6, <1>7, <1>9 DEF Listing, CaptureRules, Names
  <2> QED
    BY <2>1 DEF CaptureRules
<1>10. CASE ~D /\ ~R
  <2>1. Listing(ic[1], ic[2]) = {"source-column-not-captured"}
    BY <1>2, <1>3, <1>4, <1>5, <1>6, <1>10 DEF Listing, CaptureRules, Names
  <2> QED
    BY <2>1 DEF CaptureRules
<1> QED
  BY <1>8, <1>9, <1>10

-----------------------------------------------------------------------------
(* The diff rule. *)

(* Two inputs with the same source, connector and base tables: what the    *)
(* diff rule says of a table hangs on whether the old connector captured   *)
(* it.                                                                     *)
LEMMA DiffFindingsFollow ==
    ASSUME NEW inp, NEW other, NEW rs, NEW i,
           other.source = inp.source, other.contract = inp.contract,
           inp.base # <<>>, other.base # <<>>,
           other.base[1].source = inp.base[1].source,
           CapturedAtBase(inp, i) <=> CapturedAtBase(other, i)
    PROVE  DiffFindings(SchemaBeforeConnector(inp, rs), i)
             \subseteq DiffFindings(SchemaBeforeConnector(other, rs), i)
<1>1. LeftOut(inp) = LeftOut(other)
  BY DEF LeftOut, SourceColumns, Captured, ColumnCaptured
<1>2. \A c : IsDeclared(inp, rs, i, c) <=> IsDeclared(other, rs, i, c)
  BY DEF IsDeclared, Declared, Column, SourceOf
<1>3. BaseTable(inp, i) = BaseTable(other, i)
  BY DEF BaseTable
<1>4. DiffApplies(inp) <=> DiffApplies(other)
  BY DEF DiffApplies
<1> SUFFICES ASSUME NEW f \in SchemaBeforeConnector(inp, rs),
                    f.rule = "schema-before-connector", f.subject.table = i
             PROVE  f \in SchemaBeforeConnector(other, rs)
  BY DEF DiffFindings
<1>5. PICK ic \in Raised(inp, rs) :
         f = Finding("schema-before-connector", Warning, inp.source[ic[1]].cols[ic[2]],
                     Subject(0, <<>>, ic[1], ic[2]), ColumnFix(inp, ic[1], ic[2]))
  BY Zenon DEF SchemaBeforeConnector
<1>6. ic[1] = i
  BY <1>5 DEF Finding, Subject
<1>7. /\ DiffApplies(inp) /\ ic \in LeftOut(inp) /\ CapturedAtBase(inp, ic[1])
      /\ ic[2] \notin DOMAIN inp.base[1].source[BaseTable(inp, ic[1])].cols
      /\ ~IsDeclared(inp, rs, ic[1], ic[2])
  BY <1>5, Zenon DEF Raised
<1>8. ic \in Raised(other, rs)
  BY <1>1, <1>2, <1>3, <1>4, <1>6, <1>7, Zenon DEF Raised
<1>9. ColumnFix(inp, ic[1], ic[2]) = ColumnFix(other, ic[1], ic[2])
  BY DEF ColumnFix, Column
<1> QED
  BY <1>5, <1>8, <1>9, Zenon DEF SchemaBeforeConnector

(* What the report says under the diff rule's name is what that rule said. *)
LEMMA DiffFindingsInReport ==
    ASSUME IInv, pc = Done, NEW i
    PROVE  DiffFindings(fs, i) = DiffFindings(SchemaBeforeConnector(input, reads), i)
<1>1. \A f \in fs : f.rule = "schema-before-connector" => f \in SchemaBeforeConnector(input, reads)
  <2> SUFFICES ASSUME NEW f \in fs, f.rule = "schema-before-connector"
               PROVE  f \in SchemaBeforeConnector(input, reads)
    OBVIOUS
  <2>1. f \in Report(pc, input, reads) /\ IsInput(input) /\ \A r \in reads : ReadOK(input, r)
    BY DEF IInv
  <2>2. f.rule \in CaptureRules
    BY DEF CaptureRules
  <2>3. f \notin SinkColumnNotCaptured(input, reads)
    BY <2>1, SinkColumnNotCapturedFacts
  <2>4. f \notin SourceColumnNotCaptured(input, reads, Raised(input, reads))
    BY <2>1, SourceColumnNotCapturedFacts
  <2> QED
    BY <2>1, <2>2, <2>3, <2>4, ReportFrom, OtherRulesOverReads, OtherRulesOverLists, Zenon
       DEF OtherFinding
<1>2. SchemaBeforeConnector(input, reads) \subseteq fs
  <2>1. Sofar(pc, 6, SchemaBeforeConnector(input, reads)) = SchemaBeforeConnector(input, reads)
    BY DEF Sofar, Done
  <2> QED
    BY <2>1, Zenon DEF IInv, Report
<1> QED
  BY <1>1, <1>2, Zenon DEF DiffFindings

(* An input with another old connector differs in nothing else.            *)
LEMMA IInvEditElsewhere == IInv => EditElsewhereSaysNothing
<1> SUFFICES ASSUME IInv, pc = Done, input.base # <<>>, NEW old, NEW i
             PROVE  LET other == [input EXCEPT !.base[1].contract = old, !.base[1].changed = TRUE]
                    IN  (CapturedAtBase(input, i) <=> CapturedAtBase(other, i)) =>
                          DiffFindings(fs, i) = DiffFindings(SchemaBeforeConnector(other, reads), i)
  BY DEF EditElsewhereSaysNothing
<1> DEFINE other == [input EXCEPT !.base[1].contract = old, !.base[1].changed = TRUE]
<1>1. /\ "source" \in DOMAIN input /\ "contract" \in DOMAIN input /\ "base" \in DOMAIN input
      /\ 1 \in DOMAIN input.base /\ DOMAIN input.base = {1}
      /\ "source" \in DOMAIN input.base[1]
  BY DEF IInv, IsInput, HasFields
<1>2. other.source = input.source /\ other.contract = input.contract
  BY <1>1
<1>3. other.base[1].source = input.base[1].source
  BY <1>1
<1>4. other.base # <<>>
  BY <1>1
<1> HIDE DEF other
<1>5. ASSUME CapturedAtBase(input, i) <=> CapturedAtBase(other, i)
      PROVE  DiffFindings(fs, i) = DiffFindings(SchemaBeforeConnector(other, reads), i)
  <2>1. DiffFindings(SchemaBeforeConnector(input, reads), i)
          \subseteq DiffFindings(SchemaBeforeConnector(other, reads), i)
    BY <1>2, <1>3, <1>4, <1>5, DiffFindingsFollow
  <2>2. DiffFindings(SchemaBeforeConnector(other, reads), i)
          \subseteq DiffFindings(SchemaBeforeConnector(input, reads), i)
    BY <1>2, <1>3, <1>4, <1>5, DiffFindingsFollow
  <2> QED
    BY <2>1, <2>2, DiffFindingsInReport
<1> QED
  BY <1>5 DEF other

-----------------------------------------------------------------------------
(* Materialized views. *)

(* The only table a view may mean is the one the code looks up.            *)
LEMMA TargetFound ==
    ASSUME NEW inp, IsInput(inp), NEW v, NEW k \in DOMAIN inp.sinks,
           \A j \in DOMAIN inp.sinks :
              inp.sinks[j].sink = "clickhouse"
                /\ v.target \in {inp.sinks[j].name, LastSegment(inp.sinks[j].name)} <=> j = k
    PROVE  TargetOf(inp, v) = k /\ k # 0
<1> DEFINE n == Len(inp.sinks)
           I == {i \in 1..n : /\ inp.sinks[i].sink = "clickhouse"
                              /\ v.target \in {inp.sinks[i].name, LastSegment(inp.sinks[i].name)}}
<1>1. DOMAIN inp.sinks = 1..n /\ n \in Nat
  BY DEF IsInput, IsSequence
<1>2. TargetOf(inp, v) = IF I # {} THEN Max(I) ELSE 0
  BY DEF TargetOf, SelectLastInSeq
<1>3. I = {k} /\ k # 0
  BY <1>1
<1> HIDE DEF n, I
<1>4. {k} \in SUBSET (1..n) /\ {k} # {}
  BY <1>1
<1>5. Max({k}) \in {k}
  BY <1>1, <1>4, MaxExists
<1> QED
  BY <1>2, <1>3, <1>5

(* The findings about view x of the input, whatever its kind.              *)
ViewFindings(inp, x) ==
    IF inp.views[x].refreshable THEN RefreshableMismatch(inp, x) ELSE StreamingMismatch(inp, x)

LEMMA ViewFindingsAtItsLine ==
    ASSUME NEW inp, NEW x, NEW f \in ViewFindings(inp, x)
    PROVE  f.rule = "mv-column-match" /\ f.pos = inp.views[x].pos
<1>1. PICK k, item :
         f = Finding("mv-column-match", Error, inp.views[x].pos, Subject(k, item, 0, ""), NoFix)
  <2>1. CASE f \in RefreshableMismatch(inp, x)
    BY <2>1, Zenon DEF RefreshableMismatch
  <2>2. CASE f \in StreamingMismatch(inp, x)
    BY <2>2, Zenon DEF StreamingMismatch
  <2> QED
    BY <2>1, <2>2, Zenon DEF ViewFindings
<1> QED
  BY <1>1 DEF Finding

(* A view is silent exactly when it lands right in the table looked up.    *)
LEMMA SilentIffLandsRight ==
    ASSUME NEW inp, IsInput(inp), NEW x \in DOMAIN inp.views,
           NEW k \in DOMAIN inp.sinks, TargetOf(inp, inp.views[x]) = k
    PROVE  ViewFindings(inp, x) = {} <=> LandsRight(inp.views[x], inp.sinks[k].columns)
<1> DEFINE v == inp.views[x]
           columns == inp.sinks[k].columns
           At(item) == Finding("mv-column-match", Error, v.pos, Subject(k, item, 0, ""), NoFix)
<1>1. /\ DOMAIN v.columns = 1..Len(v.columns) /\ Len(v.columns) \in Nat
      /\ DOMAIN columns = 1..Len(columns) /\ Len(columns) \in Nat
  BY DEF IsInput, IsSequence
<1>2. CASE v.refreshable
  <2> DEFINE M == Misplaced(inp, v)
             First == {i \in M : \A h \in M : i <= h}
  <2>1. M = {j \in DOMAIN v.columns \cap DOMAIN columns : v.columns[j] # columns[j].name}
    BY DEF Misplaced
  <2>2. M # {} => First # {}
    <3>1. M \in SUBSET (1..Len(columns))
      BY <1>1, <2>1
    <3>2. M # {} => \E m \in M : \A h \in M : m <= h
      BY <1>1, <3>1, LeastExists
    <3> QED
      BY <3>2
  <2>3. ViewFindings(inp, x) =
          {At(<<j>>) : j \in First}
            \cup IF Len(v.columns) = Len(columns) THEN {} ELSE {At(<<>>)}
    BY <1>2, Zenon DEF ViewFindings, RefreshableMismatch
  <2> HIDE DEF M, First, At
  <2>4. ViewFindings(inp, x) = {} <=> First = {} /\ Len(v.columns) = Len(columns)
    BY <2>3
  <2>5. First = {} <=> M = {}
    BY <2>2 DEF First
  <2>6. \A j : Lands(v, columns, j) = {i \in DOMAIN columns : i = j}
    BY <1>2, Zenon DEF Lands
  <2>7. ASSUME LandsRight(v, columns) PROVE M = {} /\ Len(v.columns) = Len(columns)
    <3>1. \A j \in DOMAIN v.columns : j \in DOMAIN columns /\ columns[j].name = v.columns[j]
      BY <2>6, <2>7 DEF LandsRight
    <3>2. \A i \in DOMAIN columns : i \in DOMAIN v.columns
      BY <1>2, <2>6, <2>7 DEF LandsRight
    <3>3. Len(v.columns) = Len(columns)
      <4>1. 1..Len(v.columns) = 1..Len(columns)
        BY <1>1, <3>1, <3>2
      <4> HIDE DEF v, columns
      <4> QED
        BY <1>1, <4>1
    <3> QED
      BY <2>1, <3>1, <3>3
  <2>8. ASSUME M = {}, Len(v.columns) = Len(columns) PROVE LandsRight(v, columns)
    <3>1. DOMAIN v.columns = DOMAIN columns
      BY <1>1, <2>8
    <3>2. \A j \in DOMAIN columns : v.columns[j] = columns[j].name
      BY <2>1, <2>8, <3>1
    <3> QED
      BY <2>6, <3>1, <3>2 DEF LandsRight
  <2> QED
    BY <2>4, <2>5, <2>7, <2>8
<1>3. CASE ~v.refreshable
  <2> DEFINE names == {col.name : col \in ToSet(columns)}
  <2>1. ViewFindings(inp, x) = {At(<<j>>) : j \in {i \in DOMAIN v.columns : v.columns[i] \notin names}}
    BY <1>3, Zenon DEF ViewFindings, StreamingMismatch
  <2>2. \A n : n \in names <=> \E i \in DOMAIN columns : columns[i].name = n
    BY Zenon DEF ToSet
  <2>3. \A j : Lands(v, columns, j) = {i \in DOMAIN columns : columns[i].name = v.columns[j]}
    BY <1>3, Zenon DEF Lands
  <2> HIDE DEF names, At
  <2>4. ViewFindings(inp, x) = {} <=> \A j \in DOMAIN v.columns : v.columns[j] \in names
    BY <2>1
  <2>5. LandsRight(v, columns) <=> \A j \in DOMAIN v.columns : Lands(v, columns, j) # {}
    BY <1>3, <2>3 DEF LandsRight
  <2> QED
    BY <2>2, <2>3, <2>4, <2>5
<1> QED
  BY <1>2, <1>3

LEMMA IInvViews == IInv => ViewReportedIffItMisplaces
<1> SUFFICES ASSUME IInv, pc = Done, NEW v \in ToSet(input.views), NEW k \in DOMAIN input.sinks,
                    Targets(v, k), AloneOnItsLine(v)
             PROVE  LandsRight(v, input.sinks[k].columns) <=>
                      ~\E f \in fs : f.rule = "mv-column-match" /\ f.pos = v.pos
  BY Zenon DEF ViewReportedIffItMisplaces
<1>1. IsInput(input) /\ \A r \in reads : ReadOK(input, r)
  BY DEF IInv
<1>2. PICK x \in DOMAIN input.views : v = input.views[x]
  BY Zenon DEF ToSet
<1>3. TargetOf(input, v) = k /\ k # 0
  <2>1. \A j \in DOMAIN input.sinks :
          input.sinks[j].sink = "clickhouse"
            /\ v.target \in {input.sinks[j].name, LastSegment(input.sinks[j].name)} <=> j = k
    BY Zenon DEF Targets
  <2> QED
    BY <1>1, <2>1, TargetFound
<1>4. MvColumnMatch(input) =
        UNION {ViewFindings(input, y) : y \in {z \in DOMAIN input.views :
                  input.views[z].target # <<>> /\ TargetOf(input, input.views[z]) # 0}}
  BY Zenon DEF MvColumnMatch, ViewFindings
<1>5. \A f \in fs : f.rule = "mv-column-match" => f \in MvColumnMatch(input)
  <2> SUFFICES ASSUME NEW f \in fs, f.rule = "mv-column-match" PROVE f \in MvColumnMatch(input)
    OBVIOUS
  <2>1. f \in Report(pc, input, reads)
    BY DEF IInv
  <2> QED
    BY <2>1, ReportFrom, RuleOfFinding DEF IsOf
<1>6. MvColumnMatch(input) \subseteq fs
  <2>1. Sofar(pc, 10, MvColumnMatch(input)) = MvColumnMatch(input)
    BY DEF Sofar, Done
  <2> QED
    BY <2>1, Zenon DEF IInv, Report
<1>7. ASSUME NEW f \in ViewFindings(input, x)
      PROVE  f \in fs /\ f.rule = "mv-column-match" /\ f.pos = v.pos
  <2>1. f \in MvColumnMatch(input)
    BY <1>2, <1>3, <1>4, <1>7 DEF Targets
  <2> QED
    BY <1>2, <1>6, <1>7, <2>1, ViewFindingsAtItsLine
<1>8. ASSUME NEW f \in fs, f.rule = "mv-column-match", f.pos = v.pos
      PROVE  ViewFindings(input, x) # {}
  <2>1. PICK y \in DOMAIN input.views :
           /\ TargetOf(input, input.views[y]) # 0
           /\ f \in ViewFindings(input, y)
    BY <1>4, <1>5, <1>8
  <2>2. input.views[y].pos = v.pos
    BY <1>8, <2>1, ViewFindingsAtItsLine
  <2>3. input.views[y] = v
    BY <2>2, Zenon DEF AloneOnItsLine, ToSet
  <2>4. ViewFindings(input, y) = ViewFindings(input, x)
    BY <1>2, <2>3 DEF ViewFindings, RefreshableMismatch, StreamingMismatch
  <2> QED
    BY <2>1, <2>4
<1>9. ViewFindings(input, x) = {} <=> LandsRight(v, input.sinks[k].columns)
  BY <1>1, <1>2, <1>3, SilentIffLandsRight
<1> QED
  BY <1>7, <1>8, <1>9

-----------------------------------------------------------------------------
(* The invariant holds throughout every run over every set of inputs.      *)
THEOREM Invariance == Spec => []IInv
  BY InitIInv, NextIInv, PTL DEF Spec

(* At every moment of a run the variables have the values TypeOK gives:    *)
(* reads and findings are about objects the input has, and what the diff   *)
(* rule hands on is left out by the connector.                             *)
THEOREM TypeCorrectness == Spec => []TypeOK
  BY Invariance, IInvTypeOK, PTL

(* A column of a captured table that the connector leaves out is in the    *)
(* report under exactly one of the three rules that can name it, whatever  *)
(* the schemas, the connector, the base and the sink connectors are, and   *)
(* however the sink tables are resolved.                                   *)
THEOREM LeftOutListedOnce == Spec => []EveryLeftOutColumnListedOnce
  BY Invariance, IInvListedOnce, PTL

(* Whatever else the change does to the connector, the diff rule says of a *)
(* table what it says for any old connector that treats the table alike.   *)
THEOREM EditElsewhere == Spec => []EditElsewhereSaysNothing
  BY Invariance, IInvEditElsewhere, PTL

(* Whatever the views and the tables, a view is reported exactly when an   *)
(* output of it lands under another name or nowhere.                       *)
THEOREM ViewsReported == Spec => []ViewReportedIffItMisplaces
  BY Invariance, IInvViews, PTL

-----------------------------------------------------------------------------
(* A run implements Verdict.  The mapping shows no answer until the last   *)
(* rule has run, so every step before that one stutters; the last one must *)
(* answer with what the rules find in the reads of one way of resolving    *)
(* all sink tables, which the report invariant gives once reads is known   *)
(* to be those of such a way.                                              *)

(* What the sink tables before number n leave, resolved as w says.         *)
ReadsBefore(inp, w, n) == UNION {ReadsOf(inp, s, w[s]) : s \in {t \in DOMAIN inp.sinks : t < n}}

ReadsOfAWay(n) == \E w \in Resolvings(input) : reads = ReadsBefore(input, w, n)

RInv ==
    /\ ReadsOfAWay(next)
    /\ pc # 0 => next \notin DOMAIN input.sinks

(* resolve always ties a sink table to something, if only to no table.     *)
LEMMA ResolutionsNonEmpty ==
    ASSUME NEW inp, NEW st
    PROVE  Resolutions(inp, st) # {}
<1>1. \A x : {x} # {}
  OBVIOUS
<1> QED
  BY <1>1, Zenon DEF Resolutions

(* A way to resolve every sink table is a choice for each of them.         *)
LEMMA ResolvingsFacts ==
    ASSUME NEW inp, IsInput(inp),
           NEW w, w = [s \in DOMAIN inp.sinks |-> w[s]],
           \A s \in DOMAIN inp.sinks : w[s] \in Resolutions(inp, inp.sinks[s])
    PROVE  w \in Resolvings(inp)
<1> DEFINE All == UNION {Resolutions(inp, st) : st \in ToSet(inp.sinks)}
<1>1. ASSUME NEW s \in DOMAIN inp.sinks PROVE w[s] \in All
  <2>1. inp.sinks[s] \in ToSet(inp.sinks)
    BY Zenon DEF ToSet
  <2> QED
    BY <2>1, Zenon
<1> HIDE DEF All
<1>2. w \in [DOMAIN inp.sinks -> All]
  BY <1>1
<1> QED
  BY <1>2, Zenon DEF Resolvings, All

LEMMA InitRInv == Init => RInv
<1> SUFFICES ASSUME Init PROVE RInv
  OBVIOUS
<1> DEFINE w == [s \in DOMAIN input.sinks |-> CHOOSE x : x \in Resolutions(input, input.sinks[s])]
<1>1. IsInput(input)
  BY InputsAssumption DEF Init
<1>2. \A s \in DOMAIN input.sinks : w[s] \in Resolutions(input, input.sinks[s])
  BY ResolutionsNonEmpty, Zenon
<1>3. w = [s \in DOMAIN input.sinks |-> w[s]]
  OBVIOUS
<1> HIDE DEF w
<1>4. w \in Resolvings(input)
  BY <1>1, <1>2, <1>3, ResolvingsFacts
<1>5. DOMAIN input.sinks = 1..Len(input.sinks) /\ Len(input.sinks) \in Nat
  BY <1>1 DEF IsInput, IsSequence
<1>6. {t \in DOMAIN input.sinks : t < 1} = {}
  BY <1>5
<1>7. reads = ReadsBefore(input, w, next)
  BY <1>6 DEF Init, ReadsBefore
<1> QED
  BY <1>4, <1>7 DEF Init, RInv, ReadsOfAWay

(* Resolving the next sink table makes its choice the one just taken.      *)
LEMMA ResolveRInv == IInv /\ RInv /\ ResolveSinkTable => RInv'
<1> SUFFICES ASSUME IInv, RInv, ResolveSinkTable PROVE RInv'
  OBVIOUS
<1>1. PICK x \in Resolutions(input, input.sinks[next]) :
         reads' = reads \cup ReadsOf(input, next, x)
  BY DEF ResolveSinkTable
<1>2. /\ pc = 0 /\ pc' = 0 /\ input' = input
      /\ next \in DOMAIN input.sinks /\ next' = next + 1
  BY DEF ResolveSinkTable
<1>3. PICK w \in Resolvings(input) : reads = ReadsBefore(input, w, next)
  BY DEF RInv, ReadsOfAWay
<1>4. IsInput(input) /\ DOMAIN input.sinks \subseteq Nat
  BY DEF IInv, IsInput, IsSequence
<1> DEFINE v == [w EXCEPT ![next] = x]
<1>5. DOMAIN w = DOMAIN input.sinks
      /\ \A s \in DOMAIN input.sinks : w[s] \in Resolutions(input, input.sinks[s])
  BY Zenon DEF Resolvings
<1>6. w = [s \in DOMAIN input.sinks |-> w[s]]
  BY DEF Resolvings
<1>7. v = [s \in DOMAIN input.sinks |-> v[s]] /\ v[next] = x
      /\ \A s \in DOMAIN input.sinks : s # next => v[s] = w[s]
  BY <1>2, <1>6
<1> HIDE DEF v
<1>8. \A s \in DOMAIN input.sinks : v[s] \in Resolutions(input, input.sinks[s])
  BY <1>1, <1>5, <1>7
<1>9. v \in Resolvings(input)
  BY <1>4, <1>7, <1>8, ResolvingsFacts
<1>10. \A s \in DOMAIN input.sinks : s < next + 1 <=> s < next \/ s = next
  BY <1>2, <1>4
<1>11. \A s \in DOMAIN input.sinks : s < next => v[s] = w[s]
  BY <1>2, <1>4, <1>7
<1>12. ReadsBefore(input, v, next + 1) = ReadsBefore(input, w, next) \cup ReadsOf(input, next, x)
  <2>1. ASSUME NEW r \in ReadsBefore(input, v, next + 1)
        PROVE  r \in ReadsBefore(input, w, next) \cup ReadsOf(input, next, x)
    <3>1. PICK s \in DOMAIN input.sinks : s < next + 1 /\ r \in ReadsOf(input, s, v[s])
      BY DEF ReadsBefore
    <3>2. CASE s = next
      BY <3>1, <3>2, <1>7
    <3>3. CASE s < next
      BY <3>1, <3>3, <1>11 DEF ReadsBefore
    <3> QED
      BY <3>1, <3>2, <3>3, <1>10
  <2>2. ASSUME NEW r \in ReadsBefore(input, w, next) PROVE r \in ReadsBefore(input, v, next + 1)
    <3>1. PICK s \in DOMAIN input.sinks : s < next /\ r \in ReadsOf(input, s, w[s])
      BY DEF ReadsBefore
    <3> QED
      BY <3>1, <1>10, <1>11 DEF ReadsBefore
  <2>3. ASSUME NEW r \in ReadsOf(input, next, x) PROVE r \in ReadsBefore(input, v, next + 1)
    BY <2>3, <1>2, <1>7, <1>10 DEF ReadsBefore
  <2> QED
    BY <2>1, <2>2, <2>3
<1>13. reads' = ReadsBefore(input', v, next')
  BY <1>1, <1>2, <1>3, <1>12
<1> QED
  BY <1>2, <1>9, <1>13 DEF RInv, ReadsOfAWay

LEMMA NextRInv == IInv /\ RInv /\ [Next]_vars => RInv'
<1> SUFFICES ASSUME IInv, RInv, [Next]_vars PROVE RInv'
  OBVIOUS
<1>1. CASE ResolveSinkTable
  BY <1>1, ResolveRInv
<1>2. CASE Resolved
  BY <1>2 DEF Resolved, RInv, ReadsOfAWay
<1>3. CASE UNCHANGED vars
  BY <1>3 DEF vars, RInv, ReadsOfAWay
<1>4. CASE Next /\ ~ResolveSinkTable /\ ~Resolved /\ ~Terminating
  <2>1. pc # 0 /\ UNCHANGED <<input, next, reads>>
    BY <1>4 DEF Next, RunTopicTableMapping, RunSinkTableNotCaptured, RunSinkColumnNotCaptured,
                RunSinkColumnUnknown, RunSinkColumnFlattened, RunSchemaBeforeConnector,
                RunSourceColumnNotCaptured, RunCapturedColumnMissing,
                RunCapturedTableMissing, RunMvColumnMatch, RunRule
  <2> QED
    BY <2>1 DEF RInv, ReadsOfAWay
<1> QED
  BY <1>1, <1>2, <1>3, <1>4 DEF Terminating

(* After the last sink table the reads are all that w leaves.              *)
LEMMA AllResolved ==
    ASSUME IInv, RInv, pc # 0
    PROVE  \E w \in Resolvings(input) : reads = AllReads(input, w)
<1>1. PICK w \in Resolvings(input) : reads = ReadsBefore(input, w, next)
  BY DEF RInv, ReadsOfAWay
<1>2. DOMAIN input.sinks = 1..Len(input.sinks) /\ Len(input.sinks) \in Nat
  BY DEF IInv, IsInput, IsSequence
<1>3. next = Len(input.sinks) + 1
  BY <1>2 DEF IInv, RInv
<1>4. {t \in DOMAIN input.sinks : t < next} = DOMAIN input.sinks
  BY <1>2, <1>3
<1>5. ReadsBefore(input, w, next) = AllReads(input, w)
  BY <1>4, Zenon DEF ReadsBefore, AllReads
<1> QED
  BY <1>1, <1>5

(* The report after the last rule is what a whole run finds.               *)
LEMMA ReportDone ==
    ASSUME NEW inp, NEW rs
    PROVE  Report(Done, inp, rs) = FindingsOf(inp, rs)
<1>1. \A k \in 1..10 : \A found : Sofar(Done, k, found) = found
  BY DEF Sofar, Done
<1>2. /\ 1 \in 1..10 /\ 2 \in 1..10 /\ 3 \in 1..10 /\ 4 \in 1..10 /\ 5 \in 1..10
      /\ 6 \in 1..10 /\ 7 \in 1..10 /\ 8 \in 1..10 /\ 9 \in 1..10 /\ 10 \in 1..10
  OBVIOUS
<1> QED
  BY <1>1, <1>2, Zenon DEF Report, FindingsOf

(* The last rule's step is a judgement; every other step stutters.         *)
LEMMA StepImplements == IInv /\ RInv /\ [Next]_vars => [Abstract!Judge]_(Abstract!verdictVars)
<1> SUFFICES ASSUME IInv, RInv, [Next]_vars PROVE [Abstract!Judge]_(Abstract!verdictVars)
  OBVIOUS
<1>1. CASE RunMvColumnMatch
  <2>1. /\ pc = 10 /\ pc' = Done /\ UNCHANGED <<input, next, reads>>
        /\ fs' = fs \cup MvColumnMatch(input)
    BY <1>1 DEF RunMvColumnMatch, RunRule, Done
  <2>2. fs' = FindingsOf(input, reads)
    <3>1. fs' = Report(Done, input, reads)
      BY <2>1, ReportSteps DEF IInv, Done
    <3> QED
      BY <3>1, ReportDone
  <2>3. PICK w \in Resolvings(input) : reads = AllReads(input, w)
    BY <2>1, AllResolved
  <2>4. fs' \in Answers(input)
    BY <2>2, <2>3 DEF Answers
  <2>5. pc # Done
    BY <2>1 DEF Done
  <2> QED
    BY <2>1, <2>4, <2>5 DEF Abstract!Judge
<1>2. CASE UNCHANGED vars
  BY <1>2 DEF vars, Abstract!verdictVars
<1>3. CASE Next /\ ~RunMvColumnMatch /\ ~Terminating
  <2>1. pc # Done /\ pc' # Done /\ UNCHANGED input
    BY <1>3 DEF Next, ResolveSinkTable, Resolved,
                RunTopicTableMapping, RunSinkTableNotCaptured, RunSinkColumnNotCaptured,
                RunSinkColumnUnknown, RunSinkColumnFlattened, RunSchemaBeforeConnector,
                RunSourceColumnNotCaptured, RunCapturedColumnMissing,
                RunCapturedTableMissing, RunRule, Done
  <2> QED
    BY <2>1 DEF Abstract!verdictVars
<1> QED
  BY <1>1, <1>2, <1>3 DEF Terminating

(* The invariant and the way of resolving hold together throughout.        *)
LEMMA RInvariance == Spec => [](IInv /\ RInv)
BY InitIInv, InitRInv, NextIInv, NextRInv, PTL DEF Spec

LEMMA InitImplements == Init => Abstract!VerdictInit
BY DEF Init, Abstract!VerdictInit, Done

(* On every input, a run is one judgement: it shows nothing until its last *)
(* rule has run, and then what all the rules together find in one way of   *)
(* resolving the sink tables, whatever order they ran in and whatever the  *)
(* diff rule handed to the inventory.                                      *)
THEOREM RunImplementsVerdict == Spec => ImplementsVerdict
<1>1. Spec => [](IInv /\ RInv)
  BY RInvariance
<1>2. IInv /\ RInv /\ [Next]_vars => [Abstract!Judge]_(Abstract!verdictVars)
  BY StepImplements
<1> QED
  BY <1>1, <1>2, InitImplements, PTL DEF Spec, ImplementsVerdict, Abstract!VerdictSpec

-----------------------------------------------------------------------------
(* What the findings say of what really arrives.  At the end of a run the  *)
(* reads are those of one way of resolving, and a sink table fed by one    *)
(* table is tied to it in every way; so each of its columns was read under *)
(* the shape ValuesFit compares with the events.                           *)

(* The end of a run, for a sink table one source table feeds.              *)
EndOfRun(w) ==
    /\ IsInput(input)
    /\ w \in Resolvings(input)
    /\ reads = AllReads(input, w)
    /\ fs = FindingsOf(input, reads)

LEMMA DoneEnds == IInv /\ RInv /\ pc = Done => \E w : EndOfRun(w)
<1> SUFFICES ASSUME IInv, RInv, pc = Done PROVE \E w : EndOfRun(w)
  OBVIOUS
<1>1. PICK w \in Resolvings(input) : reads = AllReads(input, w)
  BY AllResolved DEF Done
<1>2. fs = FindingsOf(input, reads)
  BY ReportDone DEF IInv
<1> QED
  BY <1>1, <1>2 DEF EndOfRun, IInv

(* What the linter knows of the single feeder of sink table s.             *)
LEMMA FedTable ==
    ASSUME NEW w, EndOfRun(w), NEW s \in DOMAIN input.sinks, NEW im, FedBy(s, im)
    PROVE  /\ im \in (DOMAIN input.source) \X (0..Len(input.mappers))
           /\ w[s].table = im[1] /\ w[s].mapper = im[2]
           /\ im[1] \in DOMAIN input.source /\ im[1] # 0
           /\ Fits(Values(input.contract, input.source[im[1]], Between(input, im)),
                   ShapeFor(input, w[s]), Carries(input.contract, input.source[im[1]]))
<1>1. IsInput(input) /\ w[s] \in Resolutions(input, input.sinks[s])
  BY Zenon DEF EndOfRun, Resolvings
<1>2. /\ im \in (DOMAIN input.source) \X (0..Len(input.mappers))
      /\ w[s].table = im[1] /\ w[s].mapper = im[2]
  BY <1>1, FeederIsResolved DEF FedBy
<1>3. im[1] \in DOMAIN input.source /\ im[1] # 0
  BY <1>1, <1>2 DEF IsInput, IsSequence
<1> QED
  BY <1>1, <1>2, <1>3, ValuesFit

(* What arrives under a shape: under row and flattened, every captured     *)
(* column by the name a sink uses for it, and the envelope's own fields    *)
(* with the flattened envelope; no bare column with the latter.            *)
LEMMA Arrivals ==
    ASSUME NEW values, NEW shape, NEW cols, Fits(values, shape, cols)
    PROVE  /\ shape.kind = "row" => \A c \in cols : \E v \in values : Bare(c) \in v
           /\ shape.kind = "flattened" =>
                /\ \A e \in EnvelopeFields : \E v \in values : Bare(e) \in v
                /\ \A i \in {"before", "after"}, c \in cols : \E v \in values :
                      [image |-> i, delim |-> shape.delim, name |-> c] \in v
                /\ \A c : c \notin EnvelopeFields => \A v \in values : Bare(c) \notin v
<1>1. \A n : Bare(n).image = "" /\ Bare(n).delim = "" /\ Bare(n).name = n
  BY DEF Bare
<1>2. ASSUME shape.kind = "row", NEW c \in cols PROVE \E v \in values : Bare(c) \in v
  <2>1. values = {RowValue(cols)}
    BY <1>2 DEF Fits
  <2> QED
    BY <2>1 DEF RowValue
<1>3. ASSUME shape.kind = "flattened"
      PROVE  /\ \A e \in EnvelopeFields : \E v \in values : Bare(e) \in v
             /\ \A i \in {"before", "after"}, c \in cols : \E v \in values :
                   [image |-> i, delim |-> shape.delim, name |-> c] \in v
             /\ \A c : c \notin EnvelopeFields => \A v \in values : Bare(c) \notin v
  <2> DEFINE E == EnvelopeValue(cols)
             J == Joined(E, shape.delim)
  <2>1. values = {J}
    BY <1>3 DEF Fits
  <2>2. ASSUME NEW e \in EnvelopeFields PROVE Bare(e) \in J
    <3>1. Bare(e) \in E
      BY EnvelopeFacts
    <3>2. Bare(e).delim # "nested"
      BY <1>1
    <3> HIDE DEF E
    <3> QED
      BY <3>1, <3>2, Zenon DEF Joined
  <2>3. ASSUME NEW i \in {"before", "after"}, NEW c \in cols
        PROVE  [image |-> i, delim |-> shape.delim, name |-> c] \in J
    <3> DEFINE g == [image |-> i, delim |-> "nested", name |-> c]
               f == [image |-> i, delim |-> shape.delim, name |-> c]
    <3>1. g \in E
      BY EnvelopeFacts
    <3>2. g.delim = "nested" /\ f = [g EXCEPT !.delim = shape.delim]
      OBVIOUS
    <3> HIDE DEF E, g, f
    <3>3. f \in J
      BY <3>1, <3>2, Zenon DEF Joined
    <3> QED
      BY <3>3 DEF f
  <2>4. ASSUME NEW c, c \notin EnvelopeFields, Bare(c) \in J PROVE FALSE
    <3>1. PICK g \in E : Bare(c) = IF g.delim = "nested" THEN [g EXCEPT !.delim = shape.delim] ELSE g
      BY <2>4 DEF Joined
    <3>2. \/ \E i \in {"before", "after"}, x \in cols : g = [image |-> i, delim |-> "nested", name |-> x]
          \/ g = Bare(g.name) /\ g.name \in EnvelopeFields
      BY EnvelopeFacts
    <3>3. ASSUME NEW i \in {"before", "after"}, NEW x \in cols,
                 g = [image |-> i, delim |-> "nested", name |-> x]
          PROVE  FALSE
      <4>1. Bare(c) = [image |-> i, delim |-> shape.delim, name |-> x]
        BY <3>1, <3>3
      <4>2. Bare(c).image = i
        BY <4>1
      <4> QED
        BY <1>1, <4>2
    <3>4. CASE g = Bare(g.name) /\ g.name \in EnvelopeFields
      BY <1>1, <2>4, <3>1, <3>4
    <3> QED
      BY <3>2, <3>3, <3>4
  <2> HIDE DEF J
  <2> QED
    BY <2>1, <2>2, <2>3, <2>4
<1> QED
  BY <1>2, <1>3

(* The read resolve makes of a column that is not skipped.                 *)
LEMMA ColumnRead ==
    ASSUME NEW w, EndOfRun(w), NEW s \in DOMAIN input.sinks, w[s].table # 0,
           NEW k \in DOMAIN input.sinks[s].columns,
           ~Skipped(ShapeFor(input, w[s]), input.sinks[s].columns[k].name)
    PROVE  \E r \in reads :
              /\ r.sink = s /\ r.col = k /\ r.table = w[s].table
              /\ r.field = Field(ShapeFor(input, w[s]), input.sinks[s].columns[k].name)
              /\ r.unreached = Unreached(ShapeFor(input, w[s]), input.source[w[s].table],
                                         input.sinks[s].columns[k].name)
<1> DEFINE columns == input.sinks[s].columns
           shape == ShapeFor(input, w[s])
           r == [sink |-> s, col |-> k, table |-> w[s].table,
                 field |-> Field(shape, columns[k].name),
                 unreached |-> Unreached(shape, input.source[w[s].table], columns[k].name)]
<1>1. r \in MappedReads(input, s, w[s])
  BY Zenon DEF MappedReads
<1>2. r \in ReadsOf(input, s, w[s])
  BY <1>1 DEF ReadsOf
<1>3. r \in reads
  BY <1>2, Zenon DEF EndOfRun, AllReads
<1>4. /\ r.sink = s /\ r.col = k /\ r.table = w[s].table
      /\ r.field = Field(shape, columns[k].name)
      /\ r.unreached = Unreached(shape, input.source[w[s].table], columns[k].name)
  OBVIOUS
<1> HIDE DEF r
<1> QED
  BY <1>3, <1>4

(* And the other way round: every read was made so.                        *)
LEMMA ReadOfColumn ==
    ASSUME NEW w, EndOfRun(w), NEW r \in reads
    PROVE  /\ r.sink \in DOMAIN input.sinks
           /\ r.table # 0 =>
                /\ r.col \in DOMAIN input.sinks[r.sink].columns
                /\ r.table = w[r.sink].table
                /\ ~Skipped(ShapeFor(input, w[r.sink]), input.sinks[r.sink].columns[r.col].name)
                /\ r.field = Field(ShapeFor(input, w[r.sink]), input.sinks[r.sink].columns[r.col].name)
                /\ r.unreached = Unreached(ShapeFor(input, w[r.sink]), input.source[r.table],
                                           input.sinks[r.sink].columns[r.col].name)
           /\ r.table = 0 => ~r.unreached
<1>1. PICK s \in DOMAIN input.sinks : r \in ReadsOf(input, s, w[s])
  BY Zenon DEF EndOfRun, AllReads
<1>2. CASE w[s].table # 0
  <2> DEFINE columns == input.sinks[s].columns
             shape == ShapeFor(input, w[s])
  <2>1. r \in MappedReads(input, s, w[s])
    BY <1>1, <1>2 DEF ReadsOf
  <2>2. PICK k \in {j \in DOMAIN columns : ~Skipped(shape, columns[j].name)} :
           r = [sink |-> s, col |-> k, table |-> w[s].table,
                field |-> Field(shape, columns[k].name),
                unreached |-> Unreached(shape, input.source[w[s].table], columns[k].name)]
    BY <2>1, Zenon DEF MappedReads
  <2>3. k \in DOMAIN columns /\ ~Skipped(shape, columns[k].name)
    BY <2>2
  <2>4. /\ r.sink = s /\ r.col = k /\ r.table = w[s].table
        /\ r.field = Field(shape, columns[k].name)
        /\ r.unreached = Unreached(shape, input.source[w[s].table], columns[k].name)
    BY <2>2
  <2> QED
    BY <1>2, <2>3, <2>4
<1>3. CASE w[s].table = 0
  <2>1. r = UnmappedRead(s)
    BY <1>1, <1>3 DEF ReadsOf
  <2> QED
    BY <2>1 DEF UnmappedRead
<1> QED
  BY <1>2, <1>3

LEMMA DoneNoSilentDefault == IInv /\ RInv => NoSilentDefault
<1> SUFFICES ASSUME IInv, RInv, pc = Done,
                    NEW s \in DOMAIN input.sinks,
                    NEW im \in (DOMAIN input.source) \X (0..Len(input.mappers)),
                    FedBy(s, im), KnownShape(im),
                    NEW k \in DOMAIN input.sinks[s].columns,
                    EventField(input.sinks[s].columns[k].name),
                    NeverFilled(im, input.sinks[s].columns[k].name)
             PROVE  \E f \in fs :
                      /\ f.severity >= IF HasColumn(input.source[im[1]], input.sinks[s].columns[k].name)
                                       THEN Error ELSE Warning
                      /\ f.subject.sink = s
                      /\ f.subject.item \in {<<>>, <<k>>}
  BY Zenon DEF NoSilentDefault
<1> DEFINE n == input.sinks[s].columns[k].name
           t == input.source[im[1]]
           values == Values(input.contract, t, Between(input, im))
           cols == Carries(input.contract, t)
<1>1. PICK w : EndOfRun(w)
  BY DoneEnds
<1> DEFINE shape == ShapeFor(input, w[s])
<1>2. /\ w[s].table = im[1] /\ w[s].mapper = im[2] /\ im[1] # 0
      /\ Fits(values, shape, cols)
  BY <1>1, FedTable
<1>3. shape.kind \in {"row", "flattened"}
  BY <1>2 DEF KnownShape, ShapeFor
<1>4. /\ n = [image |-> n.image, delim |-> n.delim, name |-> n.name]
      /\ n.image = "" => n = Bare(n.name)
  BY <1>1 DEF EndOfRun, IsInput, PlainNames
<1>5. (NeverArrives(input, im, n) <=> \A v \in values : n \notin v)
  BY DEF NeverArrives
<1>6. /\ shape.kind = "row" => \A c \in cols : \E v \in values : Bare(c) \in v
      /\ shape.kind = "flattened" =>
           /\ \A e \in EnvelopeFields : \E v \in values : Bare(e) \in v
           /\ \A i \in {"before", "after"}, c \in cols : \E v \in values :
                 [image |-> i, delim |-> shape.delim, name |-> c] \in v
  BY <1>2, Arrivals
<1> HIDE DEF values
<1>7. ~Skipped(shape, n)
  <2> SUFFICES ASSUME Skipped(shape, n) PROVE FALSE
    OBVIOUS
  <2>1. shape.kind = "flattened" /\ EnvelopeName(n)
    BY DEF EventField, Skipped, EnvelopeName
  <2>2. \A v \in values : n \notin v
    BY <1>5, <2>1 DEF NeverFilled
  <2> QED
    BY <1>4, <1>6, <2>1, <2>2 DEF EnvelopeName
<1>8. PICK r \in reads :
         /\ r.sink = s /\ r.col = k /\ r.table = im[1]
         /\ r.field = Field(shape, n) /\ r.unreached = Unreached(shape, t, n)
  BY <1>1, <1>2, <1>7, ColumnRead
<1>9. /\ SinkTableNotCaptured(input, reads) \subseteq fs
      /\ SinkColumnNotCaptured(input, reads) \subseteq fs
      /\ SinkColumnUnknown(input, reads) \subseteq fs
      /\ SinkColumnFlattened(input, reads) \subseteq fs
  BY <1>1, Zenon DEF EndOfRun, FindingsOf
<1>10. r.table # 0 /\ SourceOf(input, r) = t
  BY <1>2, <1>8 DEF SourceOf
<1>11. Error >= Error /\ Error >= Warning /\ Warning >= Warning
  BY DEF Error, Warning
<1>12. CASE ~Captured(input, im[1])
  <2>1. \E f \in SinkTableNotCaptured(input, reads) :
           f.severity = Error /\ f.subject.sink = r.sink /\ f.subject.item = <<>>
    BY <1>8, <1>10, <1>12, ReadRaises
  <2> QED
    BY <1>8, <1>9, <1>11, <2>1
<1>13. CASE r.unreached
  <2>1. \E f \in SinkColumnFlattened(input, reads) :
           f.severity = Error /\ f.subject.sink = r.sink /\ f.subject.item = <<>>
    BY <1>10, <1>13, ReadRaises
  <2> QED
    BY <1>8, <1>9, <1>11, <2>1
<1>14. CASE Captured(input, im[1]) /\ ~r.unreached /\ HasColumn(t, r.field)
  <2>1. \A v \in values : n \notin v
    BY <1>5, <1>14 DEF NeverFilled
  <2>2. r.field.name \notin cols
    <3>1. CASE shape.kind = "row"
      <4>1. r.field = n /\ n = Bare(n.name)
        BY <1>4, <1>8, <1>14, <3>1 DEF Field, Image, HasColumn
      <4> QED
        BY <1>6, <2>1, <3>1, <4>1
    <3>2. CASE shape.kind = "flattened" /\ Image(shape, n)
      <4>1. r.field.name = n.name
        <5>1. r.field = Bare(n.name)
          BY <1>8, <3>2, Zenon DEF Field
        <5>2. \A x : Bare(x).name = x
          BY DEF Bare
        <5> QED
          BY <5>1, <5>2, Zenon
      <4>2. n.image \in {"before", "after"} /\ n.delim = shape.delim
        BY <3>2 DEF Image
      <4> QED
        BY <1>4, <1>6, <2>1, <3>2, <4>1, <4>2
    <3>3. CASE shape.kind = "flattened" /\ ~Image(shape, n)
      <4>1. HasColumn(t, n)
        BY <1>8, <1>14, <3>3 DEF Field
      <4> QED
        BY <1>7, <1>8, <1>14, <3>3, <4>1 DEF Unreached
    <3> QED
      BY <1>3, <3>1, <3>2, <3>3
  <2>3. ~ColumnCaptured(input, im[1], r.field.name)
    BY <1>14, <2>2 DEF Carries, ColumnCaptured, HasColumn
  <2>4. \E f \in SinkColumnNotCaptured(input, reads) :
           f.severity = Error /\ f.subject.sink = r.sink /\ f.subject.item = <<r.col>>
    BY <1>8, <1>10, <1>14, <2>3, ReadRaises
  <2> QED
    BY <1>8, <1>9, <1>11, <2>4
<1>15. CASE ~r.unreached /\ ~HasColumn(t, r.field)
  <2>1. ~HasColumn(t, n)
    <3>1. CASE Image(shape, n)
      BY <3>1 DEF Image, HasColumn
    <3>2. CASE ~Image(shape, n)
      BY <1>8, <1>15, <3>2 DEF Field
    <3> QED
      BY <3>1, <3>2
  <2>2. \E f \in SinkColumnUnknown(input, reads) :
           f.severity = Warning /\ f.subject.sink = r.sink /\ f.subject.item = <<r.col>>
    BY <1>10, <1>15, ReadRaises
  <2> QED
    BY <1>8, <1>9, <1>11, <2>1, <2>2
<1> QED
  BY <1>12, <1>13, <1>14, <1>15

(* The read behind each of the three errors, of the report at the end.     *)
LEMMA ErrorRead ==
    ASSUME NEW w, EndOfRun(w), NEW f \in fs
    PROVE  /\ f.rule = "sink-table-not-captured" => \E r \in reads :
                f.subject.sink = r.sink /\ r.table # 0 /\ ~Captured(input, r.table)
           /\ f.rule = "sink-column-not-captured" => \E r \in reads :
                /\ f.subject.sink = r.sink /\ f.subject.item = <<r.col>> /\ r.table # 0
                /\ HasColumn(SourceOf(input, r), r.field)
                /\ ~ColumnCaptured(input, r.table, r.field.name)
           /\ f.rule = "sink-column-flattened" => \E r \in reads :
                f.subject.sink = r.sink /\ r.unreached
<1>1. \/ f \in TopicTableMapping(input, reads) \/ f \in SinkTableNotCaptured(input, reads)
      \/ f \in SinkColumnNotCaptured(input, reads) \/ f \in SinkColumnUnknown(input, reads)
      \/ f \in SinkColumnFlattened(input, reads) \/ f \in SchemaBeforeConnector(input, reads)
      \/ f \in SourceColumnNotCaptured(input, reads, Raised(input, reads))
      \/ f \in CapturedColumnMissing(input) \/ f \in CapturedTableMissing(input)
      \/ f \in MvColumnMatch(input)
  BY Zenon DEF EndOfRun, FindingsOf
<1>2. /\ f.rule = "sink-table-not-captured" => f \in SinkTableNotCaptured(input, reads)
      /\ f.rule = "sink-column-not-captured" => f \in SinkColumnNotCaptured(input, reads)
      /\ f.rule = "sink-column-flattened" => f \in SinkColumnFlattened(input, reads)
  BY <1>1, RuleOfFinding DEF IsOf
<1> QED
  BY <1>2, RaisedByRead

LEMMA DoneErrorsAreReal == IInv /\ RInv => ErrorsAreReal
<1> SUFFICES ASSUME IInv, RInv, pc = Done, NEW f \in fs,
                    NEW im \in Feeders(input, input.sinks[f.subject.sink]),
                    FedBy(f.subject.sink, im)
             PROVE  LET columns == input.sinks[f.subject.sink].columns
                        Empty(k) == NeverArrives(input, im, columns[k].name)
                    IN  /\ f.rule = "sink-column-not-captured" =>
                              LET k == f.subject.item[1] IN Empty(k) \/ EnvelopeName(columns[k].name)
                        /\ f.rule = "sink-column-flattened" => \E k \in DOMAIN columns : Empty(k)
                        /\ f.rule = "sink-table-not-captured" => ~Captured(input, im[1])
  BY Zenon DEF ErrorsAreReal
<1> DEFINE s == f.subject.sink
           columns == input.sinks[s].columns
           t == input.source[im[1]]
           values == Values(input.contract, t, Between(input, im))
           cols == Carries(input.contract, t)
<1>1. PICK w : EndOfRun(w)
  BY DoneEnds
<1> DEFINE shape == ShapeFor(input, w[s])
<1>2. \A n : Bare(n).image = "" /\ Bare(n).name = n
  BY DEF Bare
<1>3. ASSUME NEW r \in reads, r.sink = s, r.table # 0 \/ r.unreached
      PROVE  /\ r.table = im[1] /\ SourceOf(input, r) = t /\ r.col \in DOMAIN columns
             /\ Fits(values, shape, cols)
             /\ ~Skipped(shape, columns[r.col].name)
             /\ r.field = Field(shape, columns[r.col].name)
             /\ r.unreached = Unreached(shape, t, columns[r.col].name)
             /\ columns[r.col].name.image = "" => columns[r.col].name = Bare(columns[r.col].name.name)
  <2>1. r.sink \in DOMAIN input.sinks /\ r.table # 0
    BY <1>1, <1>3, ReadOfColumn
  <2>2. w[s].table = im[1] /\ Fits(values, shape, cols)
    BY <1>1, <1>3, <2>1, FedTable
  <2>3. /\ r.col \in DOMAIN columns /\ r.table = w[s].table
        /\ ~Skipped(shape, columns[r.col].name)
        /\ r.field = Field(shape, columns[r.col].name)
        /\ r.unreached = Unreached(shape, input.source[r.table], columns[r.col].name)
    BY <1>1, <1>3, <2>1, ReadOfColumn
  <2>4. columns[r.col].name.image = "" => columns[r.col].name = Bare(columns[r.col].name.name)
    BY <1>1, <1>3, <2>1, <2>3 DEF EndOfRun, IsInput, PlainNames
  <2> QED
    BY <2>2, <2>3, <2>4 DEF SourceOf
<1>4. \A n : NeverArrives(input, im, n) <=> \A v \in values : n \notin v
  BY DEF NeverArrives
<1>5. ASSUME f.rule = "sink-column-not-captured"
      PROVE  LET k == f.subject.item[1]
             IN  NeverArrives(input, im, columns[k].name) \/ EnvelopeName(columns[k].name)
  <2>1. PICK r \in reads :
           /\ s = r.sink /\ f.subject.item = <<r.col>> /\ r.table # 0
           /\ HasColumn(SourceOf(input, r), r.field)
           /\ ~ColumnCaptured(input, r.table, r.field.name)
    BY <1>1, <1>5, ErrorRead
  <2> DEFINE n == columns[r.col].name
  <2>2. /\ r.table = im[1] /\ Fits(values, shape, cols) /\ r.field = Field(shape, n)
        /\ n.image = "" => n = Bare(n.name)
    BY <1>3, <2>1
  <2>3. r.field.name \notin cols
    BY <2>1, <2>2 DEF Carries, ColumnCaptured
  <2>4. r.field.image = ""
    BY <2>1 DEF HasColumn
  <2>5. f.subject.item[1] = r.col
    BY <2>1
  <2> HIDE DEF n, values, cols, shape
  <2>6. ASSUME NEW v \in values, n \in v, ~EnvelopeName(n) PROVE FALSE
    <3>1. Possible(n, cols)
      BY <2>2, <2>6 DEF Fits
    <3>2. CASE Image(shape, n)
      BY <1>2, <2>2, <2>3, <3>1, <3>2 DEF Possible, Field, Image
    <3>3. CASE ~Image(shape, n)
      BY <1>2, <2>2, <2>3, <2>4, <2>6, <3>1, <3>3 DEF Possible, Field, EnvelopeName
    <3> QED
      BY <3>2, <3>3
  <2>7. NeverArrives(input, im, n) \/ EnvelopeName(n)
    BY <1>4, <2>6
  <2> QED
    BY <2>5, <2>7 DEF n
<1>6. ASSUME f.rule = "sink-column-flattened"
      PROVE  \E k \in DOMAIN columns : NeverArrives(input, im, columns[k].name)
  <2>1. PICK r \in reads : s = r.sink /\ r.unreached
    BY <1>1, <1>6, ErrorRead
  <2> DEFINE n == columns[r.col].name
  <2>2. /\ r.col \in DOMAIN columns /\ Fits(values, shape, cols)
        /\ Unreached(shape, t, n) /\ (n.image = "" => n = Bare(n.name))
    BY <1>3, <2>1
  <2>3. /\ shape.kind = "flattened" /\ n = Bare(n.name) /\ n.name \notin EnvelopeFields
    BY <2>2 DEF Unreached, Skipped, HasColumn
  <2>4. \A v \in values : n \notin v
    <3>1. \A c : c \notin EnvelopeFields => \A v \in values : Bare(c) \notin v
      <4> HIDE DEF values, shape, cols
      <4> QED
        BY <2>2, <2>3, Arrivals
    <3> QED
      BY <2>3, <3>1, Zenon
  <2> QED
    BY <1>4, <2>2, <2>4
<1>7. ASSUME f.rule = "sink-table-not-captured" PROVE ~Captured(input, im[1])
  <2>1. PICK r \in reads : s = r.sink /\ r.table # 0 /\ ~Captured(input, r.table)
    BY <1>1, <1>7, ErrorRead
  <2> QED
    BY <1>3, <2>1
<1> QED
  BY <1>5, <1>6, <1>7

(* Whatever the schemas, the captures, the transforms of both connectors   *)
(* and the spellings of the sink: when one table feeds a sink table and    *)
(* the linter knows the shape of its events, a column that no event fills  *)
(* is reported.                                                            *)
THEOREM SilentDefaultsReported == Spec => []NoSilentDefault
  BY RInvariance, DoneNoSilentDefault, PTL

(* And no error about a capture is a false alarm.                          *)
THEOREM ErrorsReal == Spec => []ErrorsAreReal
  BY RInvariance, DoneErrorsAreReal, PTL
=============================================================================
