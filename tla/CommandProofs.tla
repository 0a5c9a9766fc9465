---------------------------- MODULE CommandProofs ----------------------------
(***************************************************************************)
(* Theorems about the command, cmd/cdclint: its two state machines, and    *)
(* the splitter through which every SQL file reaches it.                   *)
(*                                                                         *)
(* About Lint, for every set of invocations: types, what exit 0 means,     *)
(* what --disable does, and which markers can be deleted.  The state of a  *)
(* run is a function of the findings the rules answered with, the markers  *)
(* and the flags (Progress); each property is then one about the operators *)
(* of Ignore.                                                              *)
(*                                                                         *)
(* About GitBase, for every repository, working tree and number of moves:  *)
(* what a run knows at each point, that nothing is made up whatever moves  *)
(* meanwhile, and that an undisturbed run judges the change against the    *)
(* commit it names and fails only when it must.                            *)
(*                                                                         *)
(* About SqlSplit, for every family of files: the count of lines never     *)
(* drifts, and the tokens of each statement stand where its text says      *)
(* (Tracked).                                                              *)
(***************************************************************************)
EXTENDS Lint, GitBase, SqlSplit, RulesProofs, SequenceTheorems

Severities == {Info, Warning, Error}

-----------------------------------------------------------------------------
(* Every finding of the rules has a rule's name other than the markers' own*)
(* and one of the severities.                                              *)
Ordinary(f) == f.rule \in RuleNames \ {"ignore-marker"} /\ f.severity \in Severities

LEMMA AnswersOrdinary == ASSUME NEW inp, NEW rs PROVE \A f \in FindingsOf(inp, rs) : Ordinary(f)
<1> DEFINE raised == Raised(inp, rs)
<1> HIDE DEF raised
<1>1. FindingsOf(inp, rs) =
        TopicTableMapping(inp, rs) \cup SinkTableNotCaptured(inp, rs)
        \cup SinkColumnNotCaptured(inp, rs) \cup SinkColumnUnknown(inp, rs)
        \cup SinkColumnFlattened(inp, rs) \cup SchemaBeforeConnector(inp, rs)
        \cup SourceColumnNotCaptured(inp, rs, raised)
        \cup CapturedColumnMissing(inp) \cup CapturedTableMissing(inp)
        \cup MvColumnMatch(inp)
  BY Zenon DEF FindingsOf, raised
<1>2. ASSUME NEW f \in FindingsOf(inp, rs)
      PROVE  \E rule \in RuleNames \ {"ignore-marker"}, severity \in Severities : IsOf(f, rule, severity)
  BY <1>1, RuleOfFinding DEF RuleNames, Severities
<1> QED
  BY <1>2, Zenon DEF IsOf, Ordinary

-----------------------------------------------------------------------------
(* The markers. *)

(* What the assumption on invocations says of an invocation's markers.     *)
AreMarkers(markers) ==
    /\ DOMAIN markers = 1..Len(markers) /\ Len(markers) \in Nat
    /\ \A j, k \in DOMAIN markers : markers[j].pos = markers[k].pos => j = k

(* By gives a marker that acknowledges f, if there is one.                 *)
LEMMA ByFacts ==
    ASSUME NEW markers, AreMarkers(markers), NEW f
    PROVE  /\ By(markers, f) # 0 =>
                By(markers, f) \in DOMAIN markers /\ Acknowledges(markers[By(markers, f)], f)
           /\ (\E k \in DOMAIN markers : Acknowledges(markers[k], f)) => By(markers, f) # 0
<1> DEFINE I == {k \in 1..Len(markers) : Acknowledges(markers[k], f)}
<1>1. By(markers, f) = IF I # {} THEN Min(I) ELSE 0
  BY DEF By, SelectInSeq
<1>2. I \in SUBSET (1..Len(markers)) /\ Len(markers) \in Nat
  BY DEF AreMarkers
<1>3. 0 \notin I
  BY <1>2
<1> HIDE DEF I
<1>4. I # {} => Min(I) \in I
  BY <1>2, MinExists
<1>5. (By(markers, f) # 0 => By(markers, f) \in I) /\ (I # {} => By(markers, f) # 0)
  BY <1>1, <1>3, <1>4
<1> QED
  BY <1>5 DEF I, AreMarkers

LEMMA InvocationFacts ==
    ASSUME args \in Invocations
    PROVE  AreMarkers(args.markers) /\ args.threshold \in Severities
<1>1. DOMAIN args.markers = 1..Len(args.markers)
  BY InvocationsAssumption
<1> QED
  BY <1>1, InvocationsAssumption DEF AreMarkers, Severities

-----------------------------------------------------------------------------
(* The inductive invariant: what the variables hold at each stage.         *)

AllKept == Kept(answer[1], args.markers, Ran, {DiffRule})
Enabled(findings) == {f \in findings : f.rule \notin args.disabled}
Disabled(findings) == {f \in findings : f.rule \in args.disabled}

Progress ==
    /\ args \in Invocations
    /\ stage \in {"load", "judge", "mark", "filter", "report", "end"}
    /\ stage = "load" => input = args.input
    /\ stage # "load" =>
          input = [args.input EXCEPT !.base = IF DiffRule \in args.disabled THEN <<>> ELSE args.base]
    /\ stage \notin {"load", "judge"} =>
          /\ \A f \in answer[1] : Ordinary(f)
          /\ \E w \in Resolvings(input) : answer[1] = FindingsOf(input, AllReads(input, w))
    /\ stage \in {"load", "judge", "mark"} => kept = {} /\ acked = {}
    /\ stage \in {"load", "judge", "mark", "filter"} => hidden = {}
    /\ stage = "filter" => kept = AllKept
    /\ stage \in {"filter", "report", "end"} => acked = Enabled(Acknowledged(answer[1], args.markers))
    /\ stage \in {"report", "end"} => kept = Enabled(AllKept) /\ hidden = Disabled(AllKept)
    /\ stage # "end" => exit = 0
    /\ stage = "end" => exit = IF \E f \in kept : f.severity >= args.threshold THEN 1 ELSE 0

LEMMA InitProgress == Init => Progress
BY DEF Init, Progress

LEMMA NextProgress == Progress /\ [Next]_vars => Progress'
<1> SUFFICES ASSUME Progress, [Next]_vars PROVE Progress'
  OBVIOUS
<1> USE DEF Progress, AllKept, Enabled, Disabled, Ran
<1>1. CASE LoadBase
  BY <1>1 DEF LoadBase
<1>2. CASE RunRules
  <2>1. PICK w \in Resolvings(input) : answer' = <<FindingsOf(input, AllReads(input, w))>>
    BY <1>2 DEF RunRules, Judge, Answers
  <2>2. answer'[1] = FindingsOf(input, AllReads(input, w))
    BY <2>1
  <2>3. \A f \in FindingsOf(input, AllReads(input, w)) : Ordinary(f)
    BY AnswersOrdinary, Zenon
  <2>4. \A f \in answer'[1] : Ordinary(f)
    BY <2>2, <2>3, Zenon
  <2>5. \E v \in Resolvings(input) : answer'[1] = FindingsOf(input, AllReads(input, v))
    BY <2>2
  <2>6. /\ stage = "judge" /\ stage' = "mark" /\ input' = input
        /\ UNCHANGED <<args, kept, acked, hidden, exit>>
    BY <1>2 DEF RunRules, Judge
  <2> HIDE DEF AllKept, Enabled, Disabled, Ran
  <2>7. \E v \in Resolvings(input') : answer'[1] = FindingsOf(input', AllReads(input', v))
    BY <2>5, <2>6
  <2> QED
    BY <2>4, <2>6, <2>7
<1>3. CASE ApplyMarkers
  BY <1>3 DEF ApplyMarkers
<1>4. CASE Without
  BY <1>4 DEF Without
<1>5. CASE Report
  BY <1>5 DEF Report
<1>6. CASE Exited \/ UNCHANGED vars
  BY <1>6 DEF Exited, vars
<1> QED
  BY <1>1, <1>2, <1>3, <1>4, <1>5, <1>6 DEF Next

-----------------------------------------------------------------------------
(* A finding that stands is the rules' or a warning about a marker.        *)
LEMMA ProblemFields ==
    ASSUME NEW m
    PROVE  /\ Problem(m).rule = "ignore-marker" /\ Problem(m).severity = Warning
           /\ Problem(m).pos = m.pos
BY DEF Problem, Finding

LEMMA KeptFacts ==
    ASSUME NEW findings, NEW markers, NEW ran, NEW diffRules, NEW f \in Kept(findings, markers, ran, diffRules)
    PROVE  \/ f \in findings
           \/ \E k \in DOMAIN markers :
                 /\ f = Problem(markers[k])
                 /\ \/ ~Valid(markers[k])
                    \/ k \notin Used(findings, markers) /\ JudgedNow(markers[k], ran, diffRules)
BY Zenon DEF Kept, Problems

(* LintTypeOK: what is printed has a rule's name and a severity; what      *)
(* --disable hides is of a disabled rule, and nothing acknowledged is.     *)
LEMMA ProgressTyped == Progress => LintTypeOK
<1> SUFFICES ASSUME Progress PROVE LintTypeOK
  OBVIOUS
<1>1. ASSUME NEW f \in AllKept, stage \in {"filter", "report", "end"}
      PROVE  f.rule \in RuleNames /\ f.severity \in Severities
  <2>1. CASE f \in answer[1]
    BY <1>1, <2>1 DEF Progress, Ordinary
  <2>2. CASE \E k \in DOMAIN args.markers : f = Problem(args.markers[k])
    BY <2>2, ProblemFields DEF RuleNames, Severities
  <2>3. f \in answer[1] \/ \E k \in DOMAIN args.markers : f = Problem(args.markers[k])
    BY <1>1, Zenon DEF AllKept, Kept, Problems
  <2> QED
    BY <2>1, <2>2, <2>3
<1>2. ASSUME NEW f \in Acknowledged(answer[1], args.markers), stage \in {"filter", "report", "end"}
      PROVE  f.rule \in RuleNames /\ f.severity \in Severities
  BY <1>2 DEF Acknowledged, Progress, Ordinary
<1>3. \A f \in kept \cup hidden : f.rule \in RuleNames /\ f.severity \in Severities
  BY <1>1 DEF Progress, Enabled, Disabled
<1>4. \A f \in acked : f.rule \in RuleNames /\ f.severity \in Severities /\ f.rule \notin args.disabled
  BY <1>2 DEF Progress, Enabled
<1>5. \A f \in hidden : f.rule \in args.disabled
  BY DEF Progress, Disabled
<1>6. exit \in {0, 1}
  BY DEF Progress
<1> QED
  BY <1>3, <1>4, <1>5, <1>6 DEF Progress, LintTypeOK, Severities

(* NothingEscapes: a finding that counts and does not stand was            *)
(* acknowledged by a well-formed marker that covers it.                    *)
LEMMA ProgressEscapes == Progress => NothingEscapes
<1> SUFFICES ASSUME Progress, stage = "end", exit = 0, NEW f \in answer[1],
                    ~(f.severity < args.threshold), f.rule \notin args.disabled
             PROVE  \E m \in ToSet(args.markers) :
                        /\ m.reason /\ f.rule \in m.rules /\ m.rules \subseteq RuleNames
                        /\ m.pos.file = f.pos.file
                        /\ f.pos.line = IF m.alone THEN m.pos.line + 1 ELSE m.pos.line
  BY DEF NothingEscapes
<1> DEFINE k == By(args.markers, f)
<1>1. AreMarkers(args.markers) /\ args.threshold \in Severities
  BY InvocationFacts DEF Progress
<1>2. f.severity \in Severities
  BY DEF Progress, Ordinary
<1>3. f.severity >= args.threshold
  BY <1>1, <1>2 DEF Severities, Info, Warning, Error
<1>4. f \notin kept
  BY <1>3 DEF Progress
<1>5. f \notin AllKept
  BY <1>4 DEF Progress, Enabled
<1>6. k # 0
  BY <1>5 DEF AllKept, Kept, Acknowledged
<1> HIDE DEF k
<1>7. k \in DOMAIN args.markers /\ Acknowledges(args.markers[k], f)
  BY <1>1, <1>6, ByFacts DEF k
<1>8. args.markers[k] \in ToSet(args.markers)
  BY <1>7 DEF ToSet
<1> QED
  BY <1>7, <1>8 DEF Acknowledges, Valid, Covers

(* DisableOnlyHides: with the same base, disabling rules only lowers the   *)
(* set of rules a marker is judged for.                                    *)
LEMMA ProgressDisable == Progress => DisableOnlyHides
<1> DEFINE ran == IF input.base = <<>> THEN RuleNames \ {DiffRule} ELSE RuleNames
           all == Kept(answer[1], args.markers, ran, {DiffRule})
           Excused(f) == \/ f.rule \in args.disabled
                         \/ \E m \in ToSet(args.markers) : m.pos = f.pos /\ m.rules \cap args.disabled # {}
<1> SUFFICES ASSUME Progress, stage = "end"
             PROVE  kept \subseteq all /\ \A f \in all \ kept : Excused(f)
  BY Zenon DEF DisableOnlyHides
<1>1. Ran = ran \ args.disabled
  BY DEF Ran
<1> HIDE DEF ran
<1>2. \A m : JudgedNow(m, Ran, {DiffRule}) <=> JudgedNow(m, ran, {DiffRule}) /\ m.rules \cap args.disabled = {}
  BY <1>1 DEF JudgedNow
<1>3. AllKept \subseteq all
  BY <1>2, Zenon DEF AllKept, Kept, Problems
<1>4. kept = Enabled(AllKept)
  BY DEF Progress
<1>5. ASSUME NEW f \in all, f \notin kept PROVE Excused(f)
  <2>1. CASE f \in AllKept
    BY <1>4, <1>5, <2>1 DEF Enabled
  <2>2. CASE f \notin AllKept
    <3>1. f \in Problems(answer[1], args.markers, ran, {DiffRule})
      BY <1>5, <2>2 DEF AllKept, Kept
    <3>2. PICK k \in DOMAIN args.markers :
             /\ f = Problem(args.markers[k])
             /\ \/ ~Valid(args.markers[k])
                \/ k \notin Used(answer[1], args.markers) /\ JudgedNow(args.markers[k], ran, {DiffRule})
      BY <3>1, Zenon DEF Problems
    <3>3. f \notin Problems(answer[1], args.markers, Ran, {DiffRule})
      BY <2>2, Zenon DEF AllKept, Kept
    <3>4. ~JudgedNow(args.markers[k], Ran, {DiffRule}) /\ JudgedNow(args.markers[k], ran, {DiffRule})
      BY <3>2, <3>3, Zenon DEF Problems
    <3>5. args.markers[k].rules \cap args.disabled # {}
      BY <3>4, <1>2
    <3>6. args.markers[k].pos = f.pos /\ args.markers[k] \in ToSet(args.markers)
      BY <3>2, ProblemFields DEF ToSet
    <3> QED
      BY <3>5, <3>6
  <2> QED
    BY <2>1, <2>2
<1> QED
  BY <1>3, <1>4, <1>5 DEF Enabled

(* ReportedMarkersAreUseless: the marker a finding is charged to is valid  *)
(* and used, so no warning stands at its place.                            *)
LEMMA ProgressUseless == Progress => ReportedMarkersAreUseless
<1> SUFFICES ASSUME Progress, stage = "end", NEW f \in Acknowledged(answer[1], args.markers)
             PROVE  \E m \in ToSet(args.markers) : ~Reported(m) /\ Acknowledges(m, f)
  BY Zenon DEF ReportedMarkersAreUseless
<1> DEFINE k == By(args.markers, f)
<1>1. AreMarkers(args.markers)
  BY InvocationFacts DEF Progress
<1>2. f \in answer[1] /\ k # 0
  BY DEF Acknowledged
<1>3. k \in DOMAIN args.markers /\ Acknowledges(args.markers[k], f)
  BY <1>1, <1>2, ByFacts
<1>4. k \in Used(answer[1], args.markers)
  BY <1>2 DEF Used
<1> HIDE DEF k
<1>5. ASSUME NEW g \in kept, g.rule = "ignore-marker", g.pos = args.markers[k].pos PROVE FALSE
  <2>1. g \in AllKept
    BY <1>5 DEF Progress, Enabled
  <2>2. g \notin answer[1]
    BY <1>5 DEF Progress, Ordinary
  <2>3. PICK j \in DOMAIN args.markers :
           /\ g = Problem(args.markers[j])
           /\ ~Valid(args.markers[j]) \/ j \notin Used(answer[1], args.markers)
    BY <2>1, <2>2, KeptFacts, Zenon DEF AllKept
  <2>4. args.markers[j].pos = args.markers[k].pos
    BY <1>5, <2>3, ProblemFields
  <2>5. j = k
    BY <1>1, <1>3, <2>4 DEF AreMarkers
  <2> QED
    BY <1>3, <1>4, <2>3, <2>5 DEF Acknowledges
<1>6. ~Reported(args.markers[k])
  BY <1>5, Zenon DEF Reported
<1> QED
  BY <1>3, <1>6 DEF ToSet

(* LeftOutNeverVanishes: one of the three rules names the column, not the  *)
(* diff rule when it is disabled, for then there is no base; the finding   *)
(* stands, or was acknowledged.                                            *)
LEMMA ProgressVanish == Progress => LeftOutNeverVanishes
<1> SUFFICES ASSUME Progress, stage = "end", NEW ic \in LeftOut(input),
                    {"sink-column-not-captured", "source-column-not-captured"} \cap args.disabled = {}
             PROVE  \E f \in kept \cup acked : f.subject.table = ic[1] /\ f.subject.column = ic[2]
  BY DEF LeftOutNeverVanishes
<1>1. input = [args.input EXCEPT !.base = IF DiffRule \in args.disabled THEN <<>> ELSE args.base]
  BY DEF Progress
<1>2. IsInput(input)
  BY <1>1, InvocationsAssumption DEF Progress
<1>3. DiffRule \in args.disabled => input.base = <<>>
  <2>1. "base" \in DOMAIN args.input
    BY <1>1, <1>2 DEF IsInput, HasFields
  <2> QED
    BY <1>1, <2>1
<1>4. PICK w \in Resolvings(input) : answer[1] = FindingsOf(input, AllReads(input, w))
  BY DEF Progress
<1>5. PICK f \in answer[1] :
         /\ f.subject.table = ic[1] /\ f.subject.column = ic[2]
         /\ f.rule \in CaptureRules
         /\ input.base = <<>> => f.rule # "schema-before-connector"
  BY <1>2, <1>4, AllReadsTyped, LeftOutNamed
<1>6. f.rule \notin args.disabled
  BY <1>3, <1>5 DEF CaptureRules, DiffRule
<1>7. f \in AllKept \/ f \in Acknowledged(answer[1], args.markers)
  BY Zenon DEF AllKept, Kept
<1>8. f \in kept \cup acked
  BY <1>6, <1>7 DEF Progress, Enabled
<1> QED
  BY <1>5, <1>8

-----------------------------------------------------------------------------
LEMMA AlwaysProgress == Spec => []Progress
BY InitProgress, NextProgress, PTL DEF Spec

(* Whatever the files and flags, what is printed, acknowledged and hidden  *)
(* are findings of known rules, each on the side --disable puts it.        *)
THEOREM LintTypeCorrect == Spec => []LintTypeOK
BY AlwaysProgress, ProgressTyped, PTL

(* Whatever the markers and flags, a run that exits 0 has no finding at    *)
(* the threshold that nobody decided on.                                   *)
THEOREM ExitZeroIsDecided == Spec => []NothingEscapes
BY AlwaysProgress, ProgressEscapes, PTL

(* Whatever the markers, --disable adds nothing to the report.             *)
THEOREM DisableHides == Spec => []DisableOnlyHides
BY AlwaysProgress, ProgressDisable, PTL

(* Whatever the markers, deleting the reported ones uncovers nothing.      *)
THEOREM ReportedAreUseless == Spec => []ReportedMarkersAreUseless
BY AlwaysProgress, ProgressUseless, PTL

(* Whatever the base, the markers and the flags, disabling the diff rule   *)
(* loses no column that the connector leaves out.                          *)
THEOREM LeftOutStays == Spec => []LeftOutNeverVanishes
BY AlwaysProgress, ProgressVanish, PTL

-----------------------------------------------------------------------------
(* The base of the change. *)

Fields == {"source", "contract", "id", "head", "files", "base", "absent", "markers"}

(* got keeps its fields; with this an EXCEPT has the fields it leaves. *)
Shape == DOMAIN got = Fields /\ got = [f \in Fields |-> got[f]]

Steps == {"connector", "source", "resolve", "head", "dir", "archive", "exists",
          "changed", "show", "print", "scan", "done", "failed"}
Early == {"connector", "source", "resolve"}     \* before the ref is resolved
Late == Steps \ (Early \cup {"failed"})
AfterHead == Late \ {"head"}                    \* the reader of the base is known
Based1 == {"scan", "done"}                      \* the base is known

-----------------------------------------------------------------------------
(* What is known at each point, whatever moves: BaseTypeOK and what makes  *)
(* it inductive.                                                           *)
Known ==
    /\ Shape
    /\ pc \in Steps
    /\ tip \in Commits \cup {NoCommit}
    /\ moves \in 0..MaxMoves /\ disturbed \subseteq {"ref", "tree"} /\ named \subseteq Commits
    /\ got.absent \subseteq {"migrations", "connector"}
    /\ pc \notin {"connector", "failed"} => got.contract # <<>>
    /\ pc \in Late => got.id \in named
    /\ pc \in AfterHead => got.head # <<>>
    /\ pc \in Steps \ Based1 => "connector" \notin got.absent
    /\ pc \in Based1 =>
         /\ got.base # <<>>
         /\ "connector" \in got.absent => got.base[1].changed /\ got.base[1].contract = <<>>

LEMMA KnownInit == BaseInit => Known
<1> SUFFICES ASSUME BaseInit PROVE Known
  OBVIOUS
<1>1. Shape
  <2>1. DOMAIN got = Fields
    BY DEF BaseInit, Nothing, Fields
  <2>2. got = [f \in DOMAIN got |-> got[f]]
    BY DEF BaseInit, Nothing
  <2> QED
    BY <2>1, <2>2 DEF Shape
<1>2. got.absent = {}
  BY DEF BaseInit, Nothing
<1> QED
  BY <1>1, <1>2, GitBaseAssumption DEF BaseInit, Known, Steps, Early, Late, AfterHead, Based1

(* Keeping one field keeps the others. *)
LEMMA KeepShape ==
    ASSUME Shape, NEW f \in Fields, NEW v, Keep(f, v)
    PROVE  Shape' /\ got'[f] = v /\ \A g \in Fields \ {f} : got'[g] = got[g]
  BY DEF Shape, Keep

LEMMA BasedShape ==
    ASSUME Shape, NEW contract, NEW changed, NEW absent, Based(contract, changed, absent)
    PROVE  \/ got' = got /\ pc' = "failed" /\ ~Readable(got.files, got.head)
           \/ /\ Shape' /\ pc' = "scan" /\ Readable(got.files, got.head)
              /\ got'.absent = absent
              /\ got'.base = <<[source |-> Placed(got.files, got.head), contract |-> contract, changed |-> changed]>>
              /\ \A g \in Fields \ {"base", "absent"} : got'[g] = got[g]
<1>1. CASE ~Readable(got.files, got.head)
  BY <1>1 DEF Based, Fail, Goto
<1>2. CASE Readable(got.files, got.head)
  BY <1>2 DEF Based, Goto, Shape, Fields
<1> QED
  BY <1>1, <1>2

(* The step that ends with a base keeps what is known. *)
LEMMA KnownBased ==
    ASSUME Known, pc \in {"exists", "changed", "print"}, UNCHANGED <<environment, named>>,
           NEW contract, NEW changed, NEW absent \in SUBSET {"migrations", "connector"},
           "connector" \in absent => changed /\ contract = <<>>,
           Based(contract, changed, absent)
    PROVE  Known'
<1> USE DEF Steps, Early, Late, AfterHead, Based1, Fields
<1>1. CASE got' = got /\ pc' = "failed"
  BY <1>1 DEF Known, Shape, environment
<1>2. CASE /\ Shape' /\ pc' = "scan" /\ Readable(got.files, got.head)
           /\ got'.absent = absent
           /\ got'.base = <<[source |-> Placed(got.files, got.head), contract |-> contract, changed |-> changed]>>
           /\ \A g \in Fields \ {"base", "absent"} : got'[g] = got[g]
  <2>1. got'.contract = got.contract /\ got'.id = got.id /\ got'.head = got.head
    BY <1>2
  <2>2. /\ got'.base # <<>> /\ got'.base[1].source = Placed(got.files, got.head)
        /\ got'.base[1].contract = contract /\ got'.base[1].changed = changed
    BY <1>2
  <2> QED
    BY <1>2, <2>1, <2>2 DEF Known, environment
<1> QED
  BY <1>1, <1>2, BasedShape DEF Known

LEMMA KnownStep == Known /\ [BaseNext]_baseVars => Known'
<1> SUFFICES ASSUME Known, [BaseNext]_baseVars PROVE Known'
  OBVIOUS
<1> USE DEF Steps, Early, Late, AfterHead, Based1, Fields
<1>1. CASE ReadConnector
  BY <1>1, KeepShape DEF ReadConnector, Known, Shape, environment, Keep, Goto, Fail
<1>2. CASE ReadSource
  BY <1>2, KeepShape DEF ReadSource, Known, Shape, environment, Keep, Goto, Fail
<1>3. CASE Resolve
  BY <1>3, KeepShape DEF Resolve, Known, Shape, environment, Keep, Goto, Fail
<1>4. CASE ReadHead
  BY <1>4, KeepShape DEF ReadHead, Known, Shape, environment, Keep, Goto, Fail
<1>5. CASE DirExists
  BY <1>5, KeepShape DEF DirExists, Absent, Known, Shape, environment, Keep, Goto, Fail
<1>6. CASE Archive
  BY <1>6, KeepShape DEF Archive, Known, Shape, environment, Keep, Goto, Fail
<1>7. CASE ConnectorExists
  <2>1. CASE Based(<<>>, TRUE, got.absent \cup {"connector"})
    BY <1>7, <2>1, KnownBased DEF ConnectorExists, Known
  <2>2. CASE pc = "exists" /\ pc' = "changed" /\ UNCHANGED <<got, environment, named>>
    BY <2>2 DEF Known, Shape, environment
  <2> QED
    BY <1>7, <2>1, <2>2 DEF ConnectorExists, Goto
<1>8. CASE ConnectorChanged
  <2>1. CASE Based(<<>>, FALSE, got.absent)
    BY <1>8, <2>1, KnownBased DEF ConnectorChanged, Known
  <2>2. CASE pc = "changed" /\ pc' \in {"show", "failed"} /\ UNCHANGED <<got, environment, named>>
    BY <2>2 DEF Known, Shape, environment
  <2> QED
    BY <1>8, <2>1, <2>2, Zenon DEF ConnectorChanged, Goto, Fail
<1>9. CASE ShowExists
  BY <1>9 DEF ShowExists, Known, Shape, environment, Goto, Fail
<1>10. CASE Show
  <2>1. CASE Based(repo[tip].contract, TRUE, got.absent)
    BY <1>10, <2>1, KnownBased DEF Show, Known
  <2>2. CASE pc = "print" /\ pc' = "failed" /\ UNCHANGED <<got, environment, named>>
    BY <2>2 DEF Known, Shape, environment
  <2> QED
    BY <1>10, <2>1, <2>2 DEF Show, Goto, Fail
<1>11. CASE Scan
  BY <1>11, KeepShape DEF Scan, Known, Shape, environment, Keep, Goto
<1>12. CASE MoveRef
  BY <1>12, GitBaseAssumption DEF MoveRef, Known, Shape
<1>13. CASE EditTree
  BY <1>13, GitBaseAssumption DEF EditTree, Known, Shape
<1>14. CASE Over \/ UNCHANGED baseVars
  BY <1>14 DEF Over, baseVars, Known, Shape
<1> QED
  BY <1>1, <1>2, <1>3, <1>4, <1>5, <1>6, <1>7, <1>8, <1>9, <1>10, <1>11, <1>12, <1>13, <1>14 DEF BaseNext

(* What the runs check of it, for every value of the constants. *)
THEOREM BaseTypeCorrect == BaseSpec => []BaseTypeOK
<1>1. Known => BaseTypeOK
  BY DEF Known, BaseTypeOK, Steps, Early, Late, AfterHead, Based1
<1> QED
  BY KnownInit, KnownStep, <1>1, PTL DEF BaseSpec

-----------------------------------------------------------------------------
(* Nothing is made up.  The ref, as long as it is there, names a commit    *)
(* that is in named, so what git prints of it is of one of those.          *)
Honest ==
    /\ pc \in Late => named # {} /\ tip \in named \cup {NoCommit}
    /\ pc \in Early \cup {"head", "dir", "archive"} => got.files = <<>>
    /\ pc \in Steps \ (Based1 \cup {"failed"}) => got.base = <<>>
    /\ got.files # <<>> => got.files \in {repo[c].source : c \in named}
    /\ NothingMadeUp

LEMMA HonestInit == BaseInit => Honest
  BY DEF BaseInit, Nothing, Honest, NothingMadeUp, Early, Late, Steps

(* What is read of no files is no table. *)
LEMMA PlacedNone == ASSUME NEW contract PROVE Placed(<<>>, contract) = <<>>
  BY DEF Placed

LEMMA HonestBased ==
    ASSUME Known, Honest, pc \in {"exists", "changed", "print"}, UNCHANGED <<environment, named>>,
           NEW contract, NEW changed, NEW absent,
           contract # <<>> => contract \in {repo[c].contract : c \in named},
           Based(contract, changed, absent)
    PROVE  Honest'
<1> USE DEF Steps, Early, Late, AfterHead, Based1, Fields
<1>1. CASE got' = got /\ pc' = "failed"
  BY <1>1 DEF Honest, NothingMadeUp, environment
<1>2. CASE /\ Shape' /\ pc' = "scan" /\ Readable(got.files, got.head)
           /\ got'.absent = absent
           /\ got'.base = <<[source |-> Placed(got.files, got.head), contract |-> contract, changed |-> changed]>>
           /\ \A g \in Fields \ {"base", "absent"} : got'[g] = got[g]
  <2>1. got'.files = got.files
    BY <1>2
  <2>2. got'.base[1].source = Placed(got.files, got.head) /\ got'.base[1].contract = contract
    BY <1>2
  <2>3. NothingMadeUp'
    <3>1. got'.head = got.head /\ repo' = repo /\ named' = named
      BY <1>2 DEF environment
    <3>2. got.files # <<>> => got.files \in {repo[c].source : c \in named}
      BY DEF Honest
    <3>3. Placed(got.files, got.head) # <<>> => got.files # <<>>
      BY PlacedNone
    <3> QED
      BY <2>2, <3>1, <3>2, <3>3 DEF NothingMadeUp
  <2> QED
    BY <1>2, <2>1, <2>3 DEF Honest, environment
<1> QED
  BY <1>1, <1>2, BasedShape DEF Known

LEMMA HonestStep == Known /\ Honest /\ [BaseNext]_baseVars => Honest'
<1> SUFFICES ASSUME Known, Honest, [BaseNext]_baseVars PROVE Honest'
  OBVIOUS
<1> USE DEF Steps, Early, Late, AfterHead, Based1, Fields
<1>0. Shape
  BY DEF Known
<1>1. CASE ReadConnector
  BY <1>0, <1>1, KeepShape DEF ReadConnector, Honest, NothingMadeUp, environment, Goto, Fail
<1>2. CASE ReadSource
  BY <1>0, <1>2, KeepShape DEF ReadSource, Honest, NothingMadeUp, environment, Goto, Fail
<1>3. CASE Resolve
  BY <1>0, <1>3, KeepShape DEF Resolve, Honest, NothingMadeUp, environment, Goto, Fail
<1>4. CASE ReadHead
  BY <1>0, <1>4, KeepShape DEF ReadHead, Honest, NothingMadeUp, environment, Goto, Fail
<1>5. CASE DirExists
  BY <1>0, <1>5, KeepShape DEF DirExists, Absent, Honest, NothingMadeUp, environment, Goto, Fail
<1>6. CASE Archive
  <2>1. CASE Exists("migrations") /\ Keep("files", repo[tip].source) /\ pc' = "exists"
    <3>1. got'.files = repo[tip].source /\ got'.base = got.base
      BY <1>0, <2>1, KeepShape
    <3>2. tip \in named
      BY <1>6, <2>1 DEF Archive, Honest, Exists
    <3>3. UNCHANGED <<repo, tip, named>>
      BY <1>6 DEF Archive, environment
    <3>4. NothingMadeUp'
      BY <1>6, <3>1 DEF Archive, Honest, NothingMadeUp
    <3> QED
      BY <1>6, <2>1, <3>1, <3>2, <3>3, <3>4 DEF Honest, Archive
  <2>2. CASE pc' = "failed" /\ got' = got
    BY <1>6, <2>2 DEF Archive, Honest, NothingMadeUp, environment
  <2> QED
    BY <1>6, <2>1, <2>2 DEF Archive, Goto, Fail
<1>7. CASE ConnectorExists
  <2>1. CASE Based(<<>>, TRUE, got.absent \cup {"connector"})
    BY <1>7, <2>1, HonestBased DEF ConnectorExists
  <2>2. CASE pc = "exists" /\ pc' = "changed" /\ UNCHANGED <<got, environment, named>>
    BY <2>2 DEF Honest, NothingMadeUp, environment
  <2> QED
    BY <1>7, <2>1, <2>2 DEF ConnectorExists, Goto
<1>8. CASE ConnectorChanged
  <2>1. CASE Based(<<>>, FALSE, got.absent)
    BY <1>8, <2>1, HonestBased DEF ConnectorChanged
  <2>2. CASE pc = "changed" /\ pc' \in {"show", "failed"} /\ UNCHANGED <<got, environment, named>>
    BY <2>2 DEF Honest, NothingMadeUp, environment
  <2> QED
    BY <1>8, <2>1, <2>2, Zenon DEF ConnectorChanged, Goto, Fail
<1>9. CASE ShowExists
  BY <1>9 DEF ShowExists, Honest, NothingMadeUp, environment, Goto, Fail
<1>10. CASE Show
  <2>1. CASE Exists("connector") /\ Based(repo[tip].contract, TRUE, got.absent)
    <3>1. tip \in named
      BY <1>10, <2>1 DEF Show, Honest, Exists
    <3> QED
      BY <1>10, <2>1, <3>1, HonestBased DEF Show
  <2>2. CASE pc = "print" /\ pc' = "failed" /\ UNCHANGED <<got, environment, named>>
    BY <2>2 DEF Honest, NothingMadeUp, environment
  <2> QED
    BY <1>10, <2>1, <2>2 DEF Show, Goto, Fail
<1>11. CASE Scan
  BY <1>0, <1>11, KeepShape DEF Scan, Honest, NothingMadeUp, environment, Goto
<1>12. CASE MoveRef
  <2>1. UNCHANGED <<repo, pc, got>> /\ named \subseteq named'
    BY <1>12 DEF MoveRef
  <2>2. pc \in Late => named' # {} /\ tip' \in named' \cup {NoCommit}
    BY <1>12 DEF MoveRef, Honest
  <2>3. NothingMadeUp' /\ (got'.files # <<>> => got'.files \in {repo'[c].source : c \in named'})
    BY <2>1 DEF Honest, NothingMadeUp
  <2> QED
    BY <2>1, <2>2, <2>3 DEF Honest
<1>13. CASE EditTree
  BY <1>13 DEF EditTree, Honest, NothingMadeUp
<1>14. CASE Over \/ UNCHANGED baseVars
  BY <1>14 DEF Over, baseVars, Honest, NothingMadeUp
<1> QED
  BY <1>1, <1>2, <1>3, <1>4, <1>5, <1>6, <1>7, <1>8, <1>9, <1>10, <1>11, <1>12, <1>13, <1>14 DEF BaseNext

(* Whatever moves while the base is read, a schema or contract taken for   *)
(* the base's is one a commit of the ref holds.                            *)
THEOREM NothingInvented == BaseSpec => []NothingMadeUp
<1>1. Honest => NothingMadeUp
  BY DEF Honest
<1> QED
  BY KnownInit, KnownStep, HonestInit, HonestStep, <1>1, PTL DEF BaseSpec

-----------------------------------------------------------------------------
(***************************************************************************)
(* What a run that nothing disturbs does, for every repository and working *)
(* tree: it fails only when it must, and what it raises is what the commit *)
(* named in the finding and the working tree give.  Quiet is the inductive *)
(* invariant: what each read found, in terms of the files, as long as      *)
(* nothing moved.                                                          *)
(***************************************************************************)

HeadRead ==
    /\ pc \notin {"connector", "failed"} => tree.contract # <<>> /\ got.contract = tree.contract
    /\ pc \in Late \cup {"resolve"} =>
         Readable(tree.source, tree.contract) /\ got.source = Placed(tree.source, tree.contract)
    /\ pc \in Late => tip # NoCommit /\ got.id = tip
    /\ pc \in AfterHead => got.head = tree.contract

BaseRead ==
    /\ pc = "archive" => repo[tip].source # <<>>
    /\ pc \in {"exists", "changed", "show", "print"} => got.files = repo[tip].source
    /\ pc \in {"changed", "show", "print"} => repo[tip].contract # <<>>
    /\ pc \in {"show", "print"} => Differs

(* The base as the rules are given it: with the commit's contract, or, for *)
(* a connector the change leaves alone, without.                           *)
ReadOf(contract, changed) ==
    <<[source |-> Placed(repo[tip].source, tree.contract), contract |-> contract, changed |-> changed]>>

BaseGiven ==
    pc \in Based1 =>
        \/ got.base = ReadOf(repo[tip].contract, TRUE)
        \/ got.base = ReadOf(<<>>, FALSE) /\ repo[tip].contract = tree.contract

MustFail ==
    \/ tree.contract = <<>> \/ ~Readable(tree.source, tree.contract)
    \/ tip = NoCommit \/ ~Readable(repo[tip].source, tree.contract)

Quiet ==
    disturbed = {} => HeadRead /\ BaseRead /\ BaseGiven /\ (pc = "failed" => MustFail)

LEMMA QuietInit == BaseInit => Quiet
  BY DEF BaseInit, Quiet, HeadRead, BaseRead, BaseGiven, Steps, Early, Late, AfterHead, Based1

(* The step that ends with a base, or fails for a base no reader takes.    *)
LEMMA QuietBased ==
    ASSUME Known, Quiet, disturbed = {}, pc \in {"exists", "changed", "print"},
           UNCHANGED <<environment, named>>,
           NEW contract, NEW changed, NEW absent,
           \/ contract = repo[tip].contract /\ changed = TRUE
           \/ contract = <<>> /\ changed = FALSE /\ repo[tip].contract = tree.contract,
           Based(contract, changed, absent)
    PROVE  Quiet'
<1> USE DEF Steps, Early, Late, AfterHead, Based1, Fields
<1>1. got.files = repo[tip].source /\ got.head = tree.contract
  BY DEF Quiet, HeadRead, BaseRead
<1>2. UNCHANGED <<repo, tip, tree, disturbed>>
  BY DEF environment
<1>3. CASE got' = got /\ pc' = "failed" /\ ~Readable(got.files, got.head)
  BY <1>1, <1>2, <1>3 DEF Quiet, HeadRead, BaseRead, BaseGiven, MustFail
<1>4. CASE /\ Shape' /\ pc' = "scan" /\ Readable(got.files, got.head)
           /\ got'.absent = absent
           /\ got'.base = <<[source |-> Placed(got.files, got.head),
                             contract |-> contract, changed |-> changed]>>
           /\ \A g \in Fields \ {"base", "absent"} : got'[g] = got[g]
  <2>1. got'.base = <<[source |-> Placed(repo[tip].source, tree.contract),
                       contract |-> contract, changed |-> changed]>>
    BY <1>1, <1>4
  <2>2. BaseGiven'
    BY <1>2, <2>1 DEF BaseGiven, ReadOf
  <2>3. got'.contract = got.contract /\ got'.source = got.source /\ got'.id = got.id
            /\ got'.head = got.head
    BY <1>4
  <2>4. HeadRead'
    BY <1>2, <1>4, <2>3 DEF Quiet, HeadRead
  <2> QED
    BY <1>2, <1>4, <2>2, <2>4 DEF Quiet, BaseRead
<1> QED
  BY <1>3, <1>4, BasedShape DEF Known

LEMMA QuietStep == Known /\ Honest /\ Quiet /\ [BaseNext]_baseVars => Quiet'
<1> SUFFICES ASSUME Known, Honest, Quiet, [BaseNext]_baseVars PROVE Quiet'
  OBVIOUS
<1> USE DEF Steps, Early, Late, AfterHead, Based1, Fields
<1>0. Shape
  BY DEF Known
<1>1. CASE ReadConnector
  BY <1>0, <1>1, KeepShape
     DEF ReadConnector, Quiet, HeadRead, BaseRead, BaseGiven, MustFail, environment, Goto, Fail
<1>2. CASE ReadSource
  BY <1>0, <1>2, KeepShape
     DEF ReadSource, Quiet, HeadRead, BaseRead, BaseGiven, MustFail, environment, Goto, Fail
<1>3. CASE Resolve
  BY <1>0, <1>3, KeepShape
     DEF Resolve, Quiet, HeadRead, BaseRead, BaseGiven, MustFail, environment, Goto, Fail
<1>4. CASE ReadHead
  BY <1>0, <1>4, KeepShape
     DEF ReadHead, Quiet, HeadRead, BaseRead, BaseGiven, MustFail, environment, Goto, Fail
<1>5. CASE DirExists
  <2>1. got.files = <<>>
    BY <1>5 DEF DirExists, Honest
  <2> QED
    BY <1>0, <1>5, <2>1, KeepShape
       DEF DirExists, Absent, Exists, HasPath, Quiet, HeadRead, BaseRead, BaseGiven, MustFail,
           environment, Goto, Fail
<1>6. CASE Archive
  BY <1>0, <1>6, KeepShape
     DEF Archive, Exists, HasPath, Quiet, HeadRead, BaseRead, BaseGiven, MustFail,
         environment, Goto, Fail
<1>7. CASE ConnectorExists
  <2>1. CASE disturbed = {} /\ ~Exists("connector")
            /\ Based(<<>>, TRUE, got.absent \cup {"connector"})
    <3>1. repo[tip].contract = <<>>
      BY <1>7, <2>1 DEF ConnectorExists, Exists, HasPath, Quiet, HeadRead
    <3> QED
      BY <1>7, <2>1, <3>1, QuietBased DEF ConnectorExists
  <2>2. CASE Exists("connector") /\ pc = "exists" /\ pc' = "changed"
            /\ UNCHANGED <<got, environment, named>>
    BY <2>2 DEF Exists, HasPath, Quiet, HeadRead, BaseRead, BaseGiven, environment
  <2>3. CASE disturbed # {}
    BY <1>7, <2>3 DEF ConnectorExists, environment, Quiet
  <2> QED
    BY <1>7, <2>1, <2>2, <2>3 DEF ConnectorExists, Goto
<1>8. CASE ConnectorChanged
  <2>1. CASE disturbed = {} /\ tip # NoCommit /\ ~Differs /\ Based(<<>>, FALSE, got.absent)
    BY <1>8, <2>1, QuietBased DEF ConnectorChanged, Differs
  <2>2. CASE Differs /\ pc = "changed" /\ pc' = "show" /\ UNCHANGED <<got, environment, named>>
    BY <2>2 DEF Differs, Quiet, HeadRead, BaseRead, BaseGiven, environment
  <2>3. CASE tip = NoCommit /\ pc' = "failed" /\ UNCHANGED <<got, environment, named>>
    BY <2>3 DEF Quiet, HeadRead, BaseRead, BaseGiven, MustFail, environment
  <2>4. CASE disturbed # {}
    BY <1>8, <2>4 DEF ConnectorChanged, environment, Quiet
  <2> QED
    BY <1>8, <2>1, <2>2, <2>3, <2>4, Zenon DEF ConnectorChanged, Goto, Fail
<1>9. CASE ShowExists
  BY <1>9 DEF ShowExists, Exists, HasPath, Differs, Quiet, HeadRead, BaseRead, BaseGiven, MustFail,
              environment, Goto, Fail
<1>10. CASE Show
  <2>1. CASE disturbed = {} /\ Based(repo[tip].contract, TRUE, got.absent)
    BY <1>10, <2>1, QuietBased DEF Show
  <2>2. CASE ~Exists("connector") /\ pc = "print" /\ pc' = "failed"
            /\ UNCHANGED <<got, environment, named>>
    BY <2>2 DEF Exists, HasPath, Quiet, HeadRead, BaseRead, BaseGiven, MustFail, environment
  <2>3. CASE disturbed # {}
    BY <1>10, <2>3 DEF Show, environment, Quiet
  <2> QED
    BY <1>10, <2>1, <2>2, <2>3 DEF Show, Goto, Fail
<1>11. CASE Scan
  BY <1>0, <1>11, KeepShape
     DEF Scan, Quiet, HeadRead, BaseRead, BaseGiven, ReadOf, MustFail, environment, Goto
<1>12. CASE MoveRef
  BY <1>12 DEF MoveRef, Quiet
<1>13. CASE EditTree
  BY <1>13 DEF EditTree, Quiet
<1>14. CASE Over \/ UNCHANGED baseVars
  BY <1>14 DEF Over, baseVars, Quiet, HeadRead, BaseRead, BaseGiven, ReadOf, MustFail, Differs
<1> QED
  BY <1>1, <1>2, <1>3, <1>4, <1>5, <1>6, <1>7, <1>8, <1>9, <1>10, <1>11, <1>12, <1>13, <1>14 DEF BaseNext

(* A run that nothing disturbs ends in an error only for a connector or a  *)
(* ref that is not there, or a schema that cannot be placed: no answer of  *)
(* git's to a plain difference is taken for a failure.                     *)
THEOREM FailsOnly == BaseSpec => []FailsOnlyWhenItMust
<1>1. Quiet => FailsOnlyWhenItMust
  BY DEF Quiet, MustFail, FailsOnlyWhenItMust
<1> QED
  BY KnownInit, KnownStep, HonestInit, HonestStep, QuietInit, QuietStep, <1>1, PTL DEF BaseSpec

-----------------------------------------------------------------------------
LEMMA ColumnIn ==
    ASSUME NEW inp, NEW x
    PROVE  x \in SourceColumns(inp) <=>
             \E k \in DOMAIN inp.source : \E c \in DOMAIN inp.source[k].cols : x = <<k, c>>
<1>1. ASSUME x \in SourceColumns(inp)
      PROVE  \E k \in DOMAIN inp.source : \E c \in DOMAIN inp.source[k].cols : x = <<k, c>>
  <2>1. PICK k \in DOMAIN inp.source : \E c \in DOMAIN inp.source[k].cols : x = <<k, c>>
    BY <1>1 DEF SourceColumns
  <2> QED
    BY <2>1
<1>2. ASSUME NEW k \in DOMAIN inp.source, NEW c \in DOMAIN inp.source[k].cols, x = <<k, c>>
      PROVE  x \in SourceColumns(inp)
  <2> DEFINE Of(n) == {<<n, d>> : d \in DOMAIN inp.source[n].cols}
  <2>1. x \in Of(k)
    BY <1>2
  <2>2. Of(k) \in {Of(n) : n \in DOMAIN inp.source}
    BY <1>2, Zenon
  <2> HIDE DEF Of
  <2>3. x \in UNION {Of(n) : n \in DOMAIN inp.source}
    BY <2>1, <2>2
  <2> QED
    BY <2>3, Zenon DEF SourceColumns, Of
<1> QED
  BY <1>1, <1>2

(* A base without its contract, unchanged, is judged like one with the     *)
(* contract of now.                                                        *)
LEMMA SameContract ==
    ASSUME NEW source, NEW contract, NEW from,
           NEW a, NEW b, a = InputOf(source, contract, [source |-> from, contract |-> <<>>, changed |-> FALSE]),
           b = InputOf(source, contract, [source |-> from, contract |-> <<contract>>, changed |-> TRUE])
    PROVE  Raised(a, {}) = Raised(b, {})
<1>1. /\ a.source = source /\ b.source = source /\ a.contract = contract /\ b.contract = contract
      /\ a.base # <<>> /\ b.base # <<>>
  BY DEF InputOf
<1>2. a.base[1].source = from /\ b.base[1].source = from
  BY DEF InputOf
<1>3. BaseContract(a) = <<contract>> /\ BaseContract(b) = <<contract>>
  BY DEF InputOf, BaseContract
<1>4. \A k : CapturedAtBase(a, k) = CapturedAtBase(b, k)
  BY <1>1, <1>2, <1>3 DEF CapturedAtBase, BaseTable
<1>5. LeftOut(a) = LeftOut(b)
  <2>1. SourceColumns(a) = SourceColumns(b)
    <3>1. \A x : x \in SourceColumns(a) <=> x \in SourceColumns(b)
      <4> TAKE x
      <4>1. \A k : DOMAIN a.source[k].cols = DOMAIN b.source[k].cols
        BY <1>1
      <4> QED
        BY <1>1, <4>1, ColumnIn
    <3> QED
      BY <3>1
  <2>2. \A k, c : Captured(a, k) = Captured(b, k) /\ ColumnCaptured(a, k, c) = ColumnCaptured(b, k, c)
    BY <1>1 DEF Captured, ColumnCaptured
  <2> QED
    BY <2>1, <2>2 DEF LeftOut
<1>6. \A k, c : IsDeclared(a, {}, k, c) = IsDeclared(b, {}, k, c)
  BY <1>1 DEF IsDeclared, Declared, Column
<1>7. \A k : BaseTable(a, k) = BaseTable(b, k)
  BY <1>1, <1>2 DEF BaseTable
<1>8. DiffApplies(a) = DiffApplies(b)
  BY <1>1 DEF DiffApplies
<1> QED
  BY <1>2, <1>4, <1>5, <1>6, <1>7, <1>8 DEF Raised

OneOfTrees == tree \in Trees

(* A run that nothing disturbs raises what the commit its finding names    *)
(* and the working tree give, whichever of the reads it could spare.       *)
THEOREM Judged == BaseSpec => []JudgedAgainstTheCommit
<1>1. ASSUME Known, Quiet, OneOfTrees, pc = "done", disturbed = {}
      PROVE  Raised(Given, {}) = Raised(Ideal, {})
  <2> DEFINE from == Placed(repo[tip].source, tree.contract)
             now == Placed(tree.source, tree.contract)
  <2>1. /\ got.source = now /\ got.contract = tree.contract /\ got.id = tip
        /\ tree.contract # <<>>
    BY <1>1 DEF Quiet, HeadRead, Steps, Early, Late
  <2>2. Ideal = InputOf(now, tree.contract[1],
                        [source |-> from, contract |-> repo[tip].contract, changed |-> TRUE])
    BY <2>1 DEF Ideal
  <2>3. CASE got.base = ReadOf(repo[tip].contract, TRUE)
    <3>1. got.base[1] = [source |-> from, contract |-> repo[tip].contract, changed |-> TRUE]
      BY <2>3 DEF ReadOf
    <3> QED
      BY <2>1, <2>2, <3>1 DEF Given
  <2>4. CASE got.base = ReadOf(<<>>, FALSE) /\ repo[tip].contract = tree.contract
    <3>1. got.base[1] = [source |-> from, contract |-> <<>>, changed |-> FALSE]
      BY <2>4 DEF ReadOf
    <3>2. Given = InputOf(now, tree.contract[1],
                          [source |-> from, contract |-> <<>>, changed |-> FALSE])
      BY <2>1, <3>1 DEF Given
    <3>3. repo[tip].contract = <<tree.contract[1]>>
      BY <1>1, <2>1, <2>4, GitBaseAssumption DEF OneOfTrees
    <3> QED
      BY <2>2, <3>2, <3>3, SameContract
  <2> QED
    BY <1>1, <2>3, <2>4 DEF Quiet, BaseGiven, Based1
<1>2. Known /\ Quiet /\ OneOfTrees => JudgedAgainstTheCommit
  BY <1>1 DEF JudgedAgainstTheCommit
<1>3. BaseInit => OneOfTrees
  BY DEF BaseInit, OneOfTrees
<1>4. OneOfTrees /\ [BaseNext]_baseVars => OneOfTrees'
  BY DEF OneOfTrees, BaseNext, ReadConnector, ReadSource, Resolve, ReadHead, DirExists, Archive, ConnectorExists,
         ConnectorChanged, ShowExists, Show, Scan, Over, MoveRef, EditTree, baseVars, environment
<1> QED
  BY KnownInit, KnownStep, HonestInit, HonestStep, QuietInit, QuietStep, <1>2, <1>3, <1>4, PTL DEF BaseSpec


-----------------------------------------------------------------------------
(* The statements a SQL file is cut into.                                   *)
(* The lines of a text: each newline starts one. *)
Nl(t) == IF t = "nl" THEN 1 ELSE 0

LEMMA LineMoves ==
    ASSUME NEW ts \in Seq(STRING), NEW p \in Nat
    PROVE  /\ LineAt(ts, p) \in Nat \ {0}
           /\ LineAt(ts, p + 1) = LineAt(ts, p) + IF p \in 1..Len(ts) THEN Nl(ts[p]) ELSE 0
<1> DEFINE Before(q) == {k \in DOMAIN ts : k < q /\ ts[k] = "nl"}
<1>1. DOMAIN ts = 1..Len(ts) /\ Len(ts) \in Nat
  OBVIOUS
<1>2. \A q : IsFiniteSet(Before(q)) /\ Cardinality(Before(q)) \in Nat
  <2>1. IsFiniteSet(1..Len(ts))
    BY <1>1, FS_Interval
  <2>2. \A q : Before(q) \subseteq 1..Len(ts)
    BY <1>1
  <2> HIDE DEF Before
  <2> QED
    BY <2>1, <2>2, FS_Subset, FS_CardinalityType
<1>9. \A q : LineAt(ts, q) = 1 + Cardinality(Before(q))
  BY DEF LineAt
<1>3. CASE p \in 1..Len(ts) /\ ts[p] = "nl"
  <2>1. Before(p + 1) = Before(p) \cup {p} /\ p \notin Before(p)
    BY <1>1, <1>3
  <2> HIDE DEF Before
  <2>2. Cardinality(Before(p + 1)) = Cardinality(Before(p)) + 1
    BY <1>2, <2>1, FS_AddElement
  <2> QED
    BY <1>2, <1>3, <1>9, <2>2 DEF Nl
<1>4. CASE ~(p \in 1..Len(ts) /\ ts[p] = "nl")
  <2>1. Before(p + 1) = Before(p)
    BY <1>1, <1>4
  <2> HIDE DEF Before
  <2> QED
    BY <1>2, <1>4, <1>9, <2>1 DEF Nl
<1> QED
  BY <1>3, <1>4

(* A stretch from m to n. *)
LEMMA StretchLines ==
    ASSUME src \in Seq(STRING), NEW m \in Nat \ {0}, NEW n \in Nat, m <= n + 1
    PROVE  /\ IsFiniteSet(NewLines(m, n)) /\ Cardinality(NewLines(m, n)) \in Nat
           /\ LineAt(src, n + 1) = LineAt(src, m) + Cardinality(NewLines(m, n))
<1> DEFINE ts == src
           Before(q) == {k \in DOMAIN ts : k < q /\ ts[k] = "nl"}
<1> HIDE DEF ts
<1>1. ts \in Seq(STRING) /\ ts = src
  BY DEF ts
<1>2. DOMAIN ts = 1..Len(ts) /\ Len(ts) \in Nat
  BY <1>1
<1>3. IsFiniteSet(1..Len(ts))
  BY <1>2, FS_Interval
<1>4. \A q : IsFiniteSet(Before(q)) /\ Cardinality(Before(q)) \in Nat
  <2>1. \A q : Before(q) \subseteq 1..Len(ts)
    BY <1>2
  <2> HIDE DEF Before
  <2> QED
    BY <1>3, <2>1, FS_Subset, FS_CardinalityType
<1>5. NewLines(m, n) = {k \in m..n : k \in DOMAIN ts /\ ts[k] = "nl"}
  BY <1>1 DEF NewLines
<1>6. IsFiniteSet(NewLines(m, n)) /\ Cardinality(NewLines(m, n)) \in Nat
  <2>1. NewLines(m, n) \subseteq 1..Len(ts)
    BY <1>2, <1>5
  <2> QED
    BY <1>3, <2>1, FS_Subset, FS_CardinalityType
<1>7. Before(n + 1) = Before(m) \cup NewLines(m, n) /\ Before(m) \cap NewLines(m, n) = {}
  BY <1>2, <1>5
<1>8. Cardinality(Before(n + 1)) = Cardinality(Before(m)) + Cardinality(NewLines(m, n))
  <2> HIDE DEF Before
  <2>1. Cardinality(Before(m) \cup NewLines(m, n))
          = Cardinality(Before(m)) + Cardinality(NewLines(m, n)) - Cardinality({})
    BY <1>4, <1>6, <1>7, FS_Union
  <2>2. Cardinality({}) = 0
    BY FS_EmptySet
  <2>3. Cardinality(Before(m)) \in Nat
    BY <1>4
  <2>4. Cardinality(Before(n + 1)) = Cardinality(Before(m) \cup NewLines(m, n))
    BY <1>7, Zenon
  <2> QED
    BY <1>6, <2>1, <2>2, <2>3, <2>4
<1>9. \A q : LineAt(src, q) = 1 + Cardinality(Before(q))
  BY <1>1 DEF LineAt
<1> QED
  <2> HIDE DEF Before
  <2> QED
    BY <1>4, <1>6, <1>8, <1>9

LEMMA NoNewLine ==
    ASSUME src \in Seq(STRING), NEW m \in Nat \ {0}, NEW n \in Nat, m <= n + 1,
           \A k \in m..n : src[k] # "nl"
    PROVE  LineAt(src, n + 1) = LineAt(src, m)
<1>1. NewLines(m, n) = {}
  BY DEF NewLines
<1>2. LineAt(src, m) \in Nat
  BY LineMoves
<1>3. Cardinality(NewLines(m, n)) = 0
  BY <1>1, FS_EmptySet
<1>4. LineAt(src, n + 1) = LineAt(src, m) + Cardinality(NewLines(m, n))
  BY StretchLines
<1> QED
  BY <1>2, <1>3, <1>4

(* The first of some tokens, or the end of the text. *)
LEMMA NextFacts ==
    ASSUME src \in Seq(STRING), NEW toks, NEW m \in Nat \ {0}, m <= Len(src) + 1
    PROVE  /\ Next1(toks, m) \in m..Len(src) + 1
           /\ \A k \in m..Next1(toks, m) - 1 : src[k] \notin toks
<1> DEFINE S == {k \in m..Len(src) : src[k] \in toks} \cup {Len(src) + 1}
<1>1. Len(src) \in Nat
  OBVIOUS
<1>2. S \in SUBSET (1..Len(src) + 1) /\ S # {} /\ Len(src) + 1 \in Nat
  BY <1>1
<1>3. PICK x \in S : \A y \in S : x <= y
  <2> HIDE DEF S
  <2> QED
    BY <1>2, LeastExists
<1>4. Min(S) \in S /\ \A y \in S : Min(S) <= y
  <2> HIDE DEF S
  <2> QED
    BY <1>3 DEF Min
<1>5. Next1(toks, m) = Min(S)
  BY DEF Next1
<1>6. Min(S) \in m..Len(src) + 1
  BY <1>1, <1>4
<1>7. ASSUME NEW k \in m..Min(S) - 1 PROVE src[k] \notin toks
  BY <1>1, <1>4, <1>6
<1> QED
  BY <1>5, <1>6, <1>7

(* Tokens of a text, and how a sequence of them lies in it: each is on the *)
(* line the one before it leads to, and the last one leads to line l.      *)
Space == " "

Semicolon == ";"

\* The file's, and those the loop has of its own.
Character == STRING \cup {Space, Semicolon}

Cell == [tok : Character, place : Nat]

LineOf(ts, c) == LineAt(ts, c.place)

Joins(ts, t, l) ==
    \A k \in 1..Len(t) :
        (IF k = Len(t) THEN l ELSE LineOf(ts, t[k + 1])) = LineOf(ts, t[k]) + Nl(t[k].tok)

Begins(ts, t, l) == t # <<>> => LineOf(ts, t[1]) = l

LEMMA JoinsConcat ==
    ASSUME NEW ts, NEW t \in Seq(Cell), NEW u \in Seq(Cell), NEW l, NEW m,
           Joins(ts, t, l), Joins(ts, u, m), Begins(ts, u, l), u = <<>> => m = l
    PROVE  t \o u \in Seq(Cell) /\ Joins(ts, t \o u, m)
<1> DEFINE w == t \o u
<1>1. /\ w \in Seq(Cell) /\ Len(w) = Len(t) + Len(u)
      /\ \A k \in 1..Len(t) : w[k] = t[k]
      /\ \A k \in 1..Len(w) : k > Len(t) => w[k] = u[k - Len(t)]
  BY ConcatProperties
<1>2. Len(t) \in Nat /\ Len(u) \in Nat
  OBVIOUS
<1>3. ASSUME NEW k \in 1..Len(w)
      PROVE  (IF k = Len(w) THEN m ELSE LineOf(ts, w[k + 1])) = LineOf(ts, w[k]) + Nl(w[k].tok)
  <2> HIDE DEF w
  <2>1. CASE k > Len(t)
    <3> DEFINE j == k - Len(t)
    <3>1. j \in 1..Len(u) /\ w[k] = u[j] /\ (k = Len(w) <=> j = Len(u))
      BY <1>1, <1>2, <2>1
    <3>2. k # Len(w) => w[k + 1] = u[j + 1]
      BY <1>1, <1>2, <2>1
    <3>3. (IF j = Len(u) THEN m ELSE LineOf(ts, u[j + 1])) = LineOf(ts, u[j]) + Nl(u[j].tok)
      BY <3>1 DEF Joins
    <3> QED
      BY <3>1, <3>2, <3>3
  <2>2. CASE k = Len(t)
    <3>1. l = LineOf(ts, t[k]) + Nl(t[k].tok) /\ w[k] = t[k]
      BY <1>1, <1>2, <2>2 DEF Joins
    <3>2. CASE u = <<>>
      <4>1. Len(u) = 0
        BY <3>2
      <4> QED
        BY <1>1, <1>2, <2>2, <3>1, <3>2, <4>1
    <3>3. CASE u # <<>>
      <4>1. Len(u) # 0 /\ LineOf(ts, u[1]) = l
        BY <3>3 DEF Begins
      <4>2. k # Len(w) /\ k + 1 \in 1..Len(w) /\ k + 1 > Len(t) /\ (k + 1) - Len(t) = 1
        BY <1>1, <1>2, <2>2, <4>1
      <4>3. w[k + 1] = u[1]
        BY <1>1, <4>2
      <4> QED
        BY <3>1, <4>1, <4>2, <4>3
    <3> QED
      BY <3>2, <3>3
  <2>3. CASE k < Len(t)
    <3>1. k \in 1..Len(t) /\ k + 1 \in 1..Len(t) /\ k # Len(w) /\ k # Len(t)
      BY <1>1, <1>2, <2>3
    <3>2. w[k] = t[k] /\ w[k + 1] = t[k + 1]
      BY <1>1, <3>1
    <3> QED
      BY <3>1, <3>2 DEF Joins
  <2> QED
    BY <1>2, <2>1, <2>2, <2>3
<1> QED
  BY <1>1, <1>3 DEF Joins

(* Tokens copied as they are. *)
LEMMA TokensLie ==
    ASSUME src \in Seq(STRING), NEW m \in 1..Len(src), NEW n \in m..Len(src)
    PROVE  /\ Tokens(m, n) \in Seq(Cell) /\ Tokens(m, n) # <<>> /\ Len(Tokens(m, n)) = n - m + 1
           /\ \A k \in 1..n - m + 1 :
                Tokens(m, n)[k] = [tok |-> src[m + k - 1], place |-> m + k - 1]
           /\ Begins(src, Tokens(m, n), LineAt(src, m))
           /\ Joins(src, Tokens(m, n), LineAt(src, n + 1))
<1> DEFINE t == Tokens(m, n)
           N == n - m + 1
<1>1. N \in Nat \ {0} /\ \A k \in 1..N : m + k - 1 \in 1..Len(src) /\ m + k - 1 \in Nat
  OBVIOUS
<1>2. t = [k \in 1..N |-> [tok |-> src[m + k - 1], place |-> m + k - 1]]
  BY DEF Tokens
<1>3. \A k \in 1..N : src[m + k - 1] \in STRING
  BY <1>1
<1>4. \A k \in 1..N : [tok |-> src[m + k - 1], place |-> m + k - 1] \in Cell
  BY <1>1, <1>3 DEF Cell, Character
<1> HIDE DEF N
<1>5. t \in Seq(Cell) /\ Len(t) = N /\ t # <<>>
  <2>1. t \in [1..N -> Cell]
    BY <1>2, <1>4
  <2>2. t \in Seq(Cell) /\ Len(t) = N
    BY <1>1, <2>1, IsASeq, LenProperties
  <2> QED
    BY <1>1, <2>2
<1>6. \A k \in 1..N : t[k] = [tok |-> src[m + k - 1], place |-> m + k - 1]
  BY <1>2
<1>7. \A k \in 1..N : LineOf(src, t[k]) = LineAt(src, m + k - 1) /\ t[k].tok = src[m + k - 1]
  <2> HIDE DEF t
  <2> SUFFICES ASSUME NEW k \in 1..N
               PROVE  LineOf(src, t[k]) = LineAt(src, m + k - 1) /\ t[k].tok = src[m + k - 1]
    OBVIOUS
  <2>0. t[k] = [tok |-> src[m + k - 1], place |-> m + k - 1]
    BY <1>6, Zenon
  <2>1. t[k].place = m + k - 1 /\ t[k].tok = src[m + k - 1]
    BY <2>0
  <2> QED
    BY <2>1 DEF LineOf
<1>8. \A k \in 1..N : LineAt(src, m + k) = LineAt(src, m + k - 1) + Nl(src[m + k - 1])
  <2> SUFFICES ASSUME NEW k \in 1..N
               PROVE  LineAt(src, m + k) = LineAt(src, m + k - 1) + Nl(src[m + k - 1])
    OBVIOUS
  <2> DEFINE p == m + k - 1
  <2>1. p \in Nat /\ p \in 1..Len(src) /\ p + 1 = m + k
    BY <1>1
  <2> HIDE DEF p
  <2>2. LineAt(src, p + 1) = LineAt(src, p) + Nl(src[p])
    BY <2>1, LineMoves
  <2> QED
    BY <2>1, <2>2 DEF p
<1>9. Begins(src, t, LineAt(src, m))
  BY <1>1, <1>7 DEF Begins
<1>10. ASSUME NEW k \in 1..N
       PROVE  (IF k = N THEN LineAt(src, n + 1) ELSE LineOf(src, t[k + 1]))
                = LineOf(src, t[k]) + Nl(t[k].tok)
  <2>1. k = N => m + k = n + 1
    BY DEF N
  <2>2. k # N => k + 1 \in 1..N /\ m + (k + 1) - 1 = m + k
    BY <1>1
  <2> QED
    BY <1>7, <1>8, <2>1, <2>2
<1>11. Joins(src, t, LineAt(src, n + 1))
  BY <1>5, <1>10 DEF Joins
<1> QED
  <2> HIDE DEF t
  <2>1. N = n - m + 1
    BY DEF N
  <2>2. /\ t \in Seq(Cell) /\ t # <<>> /\ Len(t) = n - m + 1
        /\ \A k \in 1..n - m + 1 : t[k] = [tok |-> src[m + k - 1], place |-> m + k - 1]
    BY <1>5, <1>6, <2>1
  <2> QED
    BY <1>9, <1>11, <2>2 DEF t

(* A comment's newlines, put together. *)
LEMMA NewLineTokensLie ==
    ASSUME src \in Seq(STRING), NEW m \in Nat \ {0}, NEW n \in Nat, m <= n + 1
    PROVE  /\ NewLineTokens(m, n) \in Seq(Cell)
           /\ Len(NewLineTokens(m, n)) = Cardinality(NewLines(m, n))
           /\ \A k \in 1..Len(NewLineTokens(m, n)) : NewLineTokens(m, n)[k].tok = "nl"
           /\ Begins(src, NewLineTokens(m, n), LineAt(src, m))
           /\ Joins(src, NewLineTokens(m, n), LineAt(src, n + 1))
<1> DEFINE t == NewLineTokens(m, n)
           N == Cardinality(NewLines(m, n))
           NlUpTo(q) == NewLines(m, q)
           Found(q) == \A k \in 1..Cardinality(NlUpTo(q)) :
                          \E p \in NlUpTo(q) : Cardinality(NlUpTo(p)) = k
           Here(q) == q \in 1..Len(src) /\ src[q] = "nl"
<1>1. \A q \in Nat : m <= q + 1 => /\ IsFiniteSet(NlUpTo(q)) /\ Cardinality(NlUpTo(q)) \in Nat
                                   /\ LineAt(src, q + 1) = LineAt(src, m) + Cardinality(NlUpTo(q))
  BY StretchLines
<1>2. Len(src) \in Nat /\ DOMAIN src = 1..Len(src)
  OBVIOUS
<1>3. \A q \in Nat : NlUpTo(q) = {k \in m..q : Here(k)}
  BY <1>2 DEF NewLines
<1> HIDE DEF NlUpTo
<1>4. \A q \in Nat : \A p \in NlUpTo(q) : p \in Nat /\ m <= p /\ p <= q /\ Here(p)
  BY <1>3
<1> DEFINE S == {j \in Nat : Found(m - 1 + j)}
<1>5. 0 \in S
  <2>1. m - 1 \in Nat /\ m - 1 + 0 = m - 1
    OBVIOUS
  <2>2. NlUpTo(m - 1) = {}
    BY <1>3, <2>1
  <2>3. Cardinality(NlUpTo(m - 1)) = 0
    BY <2>2, FS_EmptySet
  <2>4. Found(m - 1)
    BY <2>3
  <2> QED
    BY <2>1, <2>4
<1>6. ASSUME NEW j \in Nat, j \in S PROVE j + 1 \in S
  <2> DEFINE q == m - 1 + j
  <2>1. q \in Nat /\ m <= q + 1 /\ m <= (q + 1) + 1 /\ q + 1 \in Nat /\ q + 1 = m - 1 + (j + 1)
    OBVIOUS
  <2>2. Found(q)
    BY <1>6
  <2> HIDE DEF q
  <2>3. CASE ~Here(q + 1)
    <3>1. NlUpTo(q + 1) = NlUpTo(q)
      <4> HIDE DEF Here
      <4>1. \A k \in m..q + 1 : k \in m..q \/ k = q + 1
        BY <2>1
      <4>2. NlUpTo(q + 1) = {k \in m..q + 1 : Here(k)} /\ NlUpTo(q) = {k \in m..q : Here(k)}
        BY <1>3, <2>1
      <4>3. m..q \subseteq m..q + 1
        BY <2>1
      <4> QED
        BY <2>3, <4>1, <4>2, <4>3, Zenon
    <3>2. Found(q + 1)
      BY <2>2, <3>1
    <3> QED
      BY <2>1, <3>2
  <2>4. CASE Here(q + 1)
    <3>1. NlUpTo(q + 1) = NlUpTo(q) \cup {q + 1} /\ q + 1 \notin NlUpTo(q)
      BY <1>3, <2>1, <2>4
    <3>2. Cardinality(NlUpTo(q + 1)) = Cardinality(NlUpTo(q)) + 1
      BY <1>1, <2>1, <3>1, FS_AddElement
    <3>3. Cardinality(NlUpTo(q)) \in Nat
      BY <1>1, <2>1
    <3>4. ASSUME NEW k \in 1..Cardinality(NlUpTo(q + 1))
          PROVE  \E p \in NlUpTo(q + 1) : Cardinality(NlUpTo(p)) = k
      <4>1. CASE k = Cardinality(NlUpTo(q + 1))
        BY <3>1, <4>1
      <4>2. CASE k # Cardinality(NlUpTo(q + 1))
        <5>1. k \in 1..Cardinality(NlUpTo(q))
          BY <3>2, <3>3, <4>2
        <5>2. PICK p \in NlUpTo(q) : Cardinality(NlUpTo(p)) = k
          BY <2>2, <5>1
        <5> QED
          BY <3>1, <5>2
      <4> QED
        BY <4>1, <4>2
    <3>5. Found(q + 1)
      BY <3>4
    <3> QED
      BY <2>1, <3>5
  <2> QED
    BY <2>3, <2>4
<1>7. Found(n)
  <2>1. n - (m - 1) \in Nat /\ m - 1 + (n - (m - 1)) = n
    OBVIOUS
  <2>2. n - (m - 1) \in S
    <3> HIDE DEF S
    <3> QED
      BY <1>5, <1>6, <2>1, SetInduction
  <2> QED
    BY <2>1, <2>2
<1> DEFINE P(k) == CHOOSE p \in NewLines(m, n) : Cardinality(NewLines(m, p)) = k
<1>8. \A k \in 1..N : P(k) \in NewLines(m, n) /\ Cardinality(NewLines(m, P(k))) = k
  BY <1>7 DEF NlUpTo
<1>9. t = [k \in 1..N |-> [tok |-> "nl", place |-> P(k)]]
  BY DEF NewLineTokens
<1> HIDE DEF P
<1>10. N \in Nat
  BY <1>1 DEF NlUpTo
<1>11. \A k \in 1..N : /\ P(k) \in Nat \ {0} /\ m <= P(k) /\ Here(P(k))
                       /\ LineAt(src, P(k) + 1) = LineAt(src, m) + k
  <2> SUFFICES ASSUME NEW k \in 1..N
               PROVE  /\ P(k) \in Nat \ {0} /\ m <= P(k) /\ Here(P(k))
                      /\ LineAt(src, P(k) + 1) = LineAt(src, m) + k
    OBVIOUS
  <2>1. P(k) \in NlUpTo(n) /\ Cardinality(NlUpTo(P(k))) = k
    BY <1>8 DEF NlUpTo
  <2>2. P(k) \in Nat /\ m <= P(k) /\ Here(P(k))
    BY <1>4, <2>1
  <2>3. m <= P(k) + 1 /\ P(k) \in Nat \ {0}
    BY <2>2
  <2>4. LineAt(src, P(k) + 1) = LineAt(src, m) + Cardinality(NlUpTo(P(k)))
    BY <1>1, <2>2, <2>3
  <2> QED
    BY <2>1, <2>2, <2>3, <2>4
<1>12. LineAt(src, m) \in Nat
  BY LineMoves
<1>13. \A k \in 1..N : LineAt(src, P(k)) = LineAt(src, m) + k - 1
  <2> SUFFICES ASSUME NEW k \in 1..N PROVE LineAt(src, P(k)) = LineAt(src, m) + k - 1
    OBVIOUS
  <2>1. P(k) \in Nat /\ Here(P(k)) /\ LineAt(src, P(k) + 1) = LineAt(src, m) + k
    BY <1>11
  <2>2. LineAt(src, P(k)) \in Nat /\ LineAt(src, P(k) + 1) = LineAt(src, P(k)) + 1
    BY <2>1, LineMoves DEF Nl
  <2> QED
    BY <1>10, <1>12, <2>1, <2>2
<1>14. t \in Seq(Cell) /\ Len(t) = N
  <2>1. \A k \in 1..N : [tok |-> "nl", place |-> P(k)] \in Cell
    BY <1>11 DEF Cell, Character
  <2> HIDE DEF N
  <2> QED
    BY <1>9, <1>10, <2>1
<1>15. \A k \in 1..N : t[k].tok = "nl" /\ LineOf(src, t[k]) = LineAt(src, m) + k - 1
  BY <1>9, <1>13 DEF LineOf
<1>16. LineAt(src, n + 1) = LineAt(src, m) + N
  BY <1>1 DEF NlUpTo
<1> HIDE DEF t, N
<1>17. Begins(src, t, LineAt(src, m))
  <2> SUFFICES ASSUME t # <<>> PROVE LineOf(src, t[1]) = LineAt(src, m)
    BY DEF Begins
  <2>1. 1 \in 1..N
    BY <1>10, <1>14
  <2> QED
    BY <1>12, <1>15, <2>1
<1>18. ASSUME NEW k \in 1..N
       PROVE  (IF k = N THEN LineAt(src, n + 1) ELSE LineOf(src, t[k + 1]))
                = LineOf(src, t[k]) + Nl(t[k].tok)
  <2>1. k # N => k + 1 \in 1..N
    BY <1>10
  <2> QED
    BY <1>10, <1>12, <1>15, <1>16, <2>1 DEF Nl
<1>19. Joins(src, t, LineAt(src, n + 1))
  BY <1>14, <1>18 DEF Joins
<1> QED
  BY <1>14, <1>15, <1>17, <1>19 DEF t, N

(* The first character of a statement, and the line it is given.           *)
AllBlank(t) == \A k \in 1..Len(t) : IsBlank(t[k])

OpensAt(t, f) == f \in 1..Len(t) /\ ~IsBlank(t[f]) /\ \A k \in 1..f - 1 : IsBlank(t[k])

StandsAt(ts, t, at) ==
    AllBlank(t) \/ \E f : OpensAt(t, f) /\ (t[f].tok \in Quotes \/ LineOf(ts, t[f]) = at)

Starts(ts, t, s) == IF s = 0 THEN AllBlank(t) ELSE ~AllBlank(t) /\ StandsAt(ts, t, s)

LEMMA FirstOnce ==
    ASSUME NEW t, Len(t) \in Nat, NEW e, NEW f, OpensAt(t, e), OpensAt(t, f)
    PROVE  e = f
<1>1. e \in 1..Len(t) /\ f \in 1..Len(t)
  BY DEF OpensAt
<1>2. ~(e \in 1..f - 1) /\ ~(f \in 1..e - 1)
  BY DEF OpensAt
<1> QED
  BY <1>1, <1>2

LEMMA TrimmedFacts ==
    ASSUME NEW t \in Seq(Cell)
    PROVE  /\ Trimmed(t) = <<>> <=> AllBlank(t)
           /\ ~AllBlank(t) => \E f, g : /\ OpensAt(t, f) /\ g \in f..Len(t)
                                     /\ Trimmed(t) = SubSeq(t, f, g)
<1> DEFINE solid == {k \in DOMAIN t : ~IsBlank(t[k])}
<1>1. Len(t) \in Nat /\ DOMAIN t = 1..Len(t)
  OBVIOUS
<1>2. solid \in SUBSET (1..Len(t)) /\ (solid = {} <=> AllBlank(t))
  BY <1>1 DEF AllBlank
<1>3. CASE AllBlank(t)
  <2>1. Trimmed(t) = <<>>
    BY <1>2, <1>3 DEF Trimmed
  <2> QED
    BY <1>3, <2>1
<1>4. CASE ~AllBlank(t)
  <2>1. Trimmed(t) = SubSeq(t, Min(solid), Max(solid))
    BY <1>2, <1>4 DEF Trimmed
  <2>2. \A k \in 1..Len(t) : k \in solid <=> ~IsBlank(t[k])
    BY <1>1
  <2> HIDE DEF solid
  <2>3. PICK x \in solid : \A y \in solid : x <= y
    BY <1>1, <1>2, <1>4, LeastExists
  <2>4. Min(solid) \in solid /\ \A y \in solid : Min(solid) <= y
    BY <2>3 DEF Min
  <2>5. Max(solid) \in solid
    BY <1>1, <1>2, <1>4, MaxExists
  <2> DEFINE f == Min(solid)
             g == Max(solid)
  <2>6. f \in 1..Len(t) /\ g \in f..Len(t)
    <3>1. f \in 1..Len(t) /\ g \in 1..Len(t) /\ f <= g
      BY <1>2, <2>4, <2>5, Zenon
    <3> HIDE DEF f, g
    <3> QED
      BY <1>1, <3>1
  <2>7. ~IsBlank(t[f]) /\ \A k \in 1..f - 1 : IsBlank(t[k])
    <3>1. \A k \in 1..f - 1 : k \in 1..Len(t) /\ ~(f <= k)
      BY <1>1, <2>6
    <3> QED
      BY <2>2, <2>4, <2>6, <3>1
  <2>8. OpensAt(t, f)
    BY <2>6, <2>7 DEF OpensAt
  <2>9. SubSeq(t, f, g) # <<>>
    <3> HIDE DEF f, g
    <3>1. SubSeq(t, f, g) \in Seq(Cell) /\ Len(SubSeq(t, f, g)) # 0
      BY <1>1, <2>6
    <3>2. Len(<<>>) = 0
      OBVIOUS
    <3> QED
      BY <3>1, <3>2, Zenon
  <2>10. Trimmed(t) # <<>>
    BY <2>1, <2>9, Zenon
  <2> QED
    BY <1>4, <2>1, <2>6, <2>8, <2>10
<1> QED
  BY <1>3, <1>4

(* Emit gives a statement its line with its first character. *)
LEMMA StartsConcat ==
    ASSUME NEW ts, NEW t \in Seq(Cell), NEW u \in Seq(Cell), NEW s \in Nat, NEW at \in Nat \ {0},
           Starts(ts, t, s), StandsAt(ts, u, at)
    PROVE  Starts(ts, t \o u, IF s = 0 /\ Trimmed(u) # <<>> THEN at ELSE s)
<1> DEFINE w == t \o u
<1>1. /\ Len(w) = Len(t) + Len(u) /\ Len(t) \in Nat /\ Len(u) \in Nat
      /\ \A k \in 1..Len(t) : w[k] = t[k]
      /\ \A k \in 1..Len(u) : w[Len(t) + k] = u[k]
      /\ \A k \in 1..Len(w) :
            k \in 1..Len(t) \/ (k - Len(t) \in 1..Len(u) /\ w[k] = u[k - Len(t)])
  OBVIOUS
<1> HIDE DEF w
<1>2. CASE s # 0
  <2>1. PICK f : OpensAt(t, f) /\ (t[f].tok \in Quotes \/ LineOf(ts, t[f]) = s)
    BY <1>2 DEF Starts, StandsAt
  <2>2. f \in 1..Len(t) /\ f \in 1..Len(w) /\ \A k \in 1..f - 1 : k \in 1..Len(t)
    BY <1>1, <2>1 DEF OpensAt
  <2>3. OpensAt(w, f) /\ w[f] = t[f]
    BY <1>1, <2>1, <2>2 DEF OpensAt
  <2>4. ~AllBlank(w) /\ StandsAt(ts, w, s)
    BY <2>1, <2>3 DEF OpensAt, AllBlank, StandsAt
  <2> QED
    BY <1>2, <2>4 DEF Starts, w
<1>3. CASE s = 0 /\ AllBlank(u)
  <2>1. AllBlank(t) /\ Trimmed(u) = <<>>
    BY <1>3, TrimmedFacts DEF Starts
  <2>2. AllBlank(w)
    BY <1>1, <1>3, <2>1 DEF AllBlank
  <2> QED
    BY <1>3, <2>1, <2>2 DEF Starts, w
<1>4. CASE s = 0 /\ ~AllBlank(u)
  <2>1. AllBlank(t) /\ Trimmed(u) # <<>>
    BY <1>4, TrimmedFacts DEF Starts
  <2>2. PICK f : OpensAt(u, f) /\ (u[f].tok \in Quotes \/ LineOf(ts, u[f]) = at)
    BY <1>4 DEF StandsAt
  <2> DEFINE g == Len(t) + f
  <2>3. g \in 1..Len(w) /\ w[g] = u[f]
    BY <1>1, <2>2 DEF OpensAt
  <2>4. ASSUME NEW k \in 1..g - 1 PROVE IsBlank(w[k])
    <3>1. k \in 1..Len(t) \/ (k - Len(t) \in 1..f - 1 /\ w[k] = u[k - Len(t)])
      BY <1>1, <2>2 DEF OpensAt
    <3> QED
      BY <1>1, <2>1, <2>2, <3>1 DEF OpensAt, AllBlank
  <2>5. OpensAt(w, g)
    BY <2>2, <2>3, <2>4 DEF OpensAt
  <2> HIDE DEF g
  <2>6. ~AllBlank(w) /\ StandsAt(ts, w, at)
    BY <2>2, <2>3, <2>5 DEF OpensAt, AllBlank, StandsAt
  <2> QED
    BY <1>4, <2>1, <2>6 DEF Starts, w
<1> QED
  BY <1>2, <1>3, <1>4

(* A statement's tokens are where the newlines in its text put them. *)
Lines(ts, st) ==
    Head(st.text).tok \notin Quotes =>
        \A k \in DOMAIN st.text :
            LineAt(ts, st.text[k].place)
              = st.line + Cardinality({m \in 1..k-1 : st.text[m].tok = "nl"})

LEMMA FlushedLines ==
    ASSUME NEW ts \in Seq(STRING), NEW t \in Seq(Cell), NEW l, NEW s \in Nat,
           Joins(ts, t, l), Starts(ts, t, s), Trimmed(t) # <<>>
    PROVE  Trimmed(t) \in Seq(Cell) /\ Lines(ts, [text |-> Trimmed(t), line |-> s])
<1>1. Len(t) \in Nat /\ \A k \in 1..Len(t) : t[k] \in Cell
  OBVIOUS
<1>2. ~AllBlank(t)
  BY TrimmedFacts
<1>3. PICK f, g : OpensAt(t, f) /\ g \in f..Len(t) /\ Trimmed(t) = SubSeq(t, f, g)
  BY <1>2, TrimmedFacts
<1> DEFINE w == SubSeq(t, f, g)
           N == g - f + 1
<1>4. /\ f \in 1..Len(t) /\ g \in 1..Len(t) /\ N \in Nat \ {0}
      /\ w \in Seq(Cell) /\ Len(w) = N /\ \A k \in 1..N : w[k] = t[f + k - 1]
  <2>1. f \in 1..Len(t)
    BY <1>3 DEF OpensAt
  <2>2. f..g \subseteq 1..Len(t) /\ f \in Int /\ g \in Int /\ N \in Nat \ {0} /\ g \in 1..Len(t)
    BY <1>1, <1>3, <2>1
  <2>3. w \in Seq(Cell) /\ Len(w) = N
    BY <1>1, <1>3, <2>1, <2>2
  <2>4. \A k \in 1..N : w[k] = t[f + k - 1]
    BY <1>1, <1>3, <2>1, <2>2
  <2> QED
    BY <2>1, <2>2, <2>3, <2>4
<1>a. f <= g /\ g <= Len(t) /\ f \in Nat /\ g = f + N - 1
  BY <1>1, <1>3, <1>4
<1> SUFFICES ASSUME w[1].tok \notin Quotes
             PROVE  \A k \in 1..N : LineOf(ts, w[k])
                      = s + Cardinality({m \in 1..k-1 : w[m].tok = "nl"})
  <2> DEFINE st == [text |-> w, line |-> s]
  <2>1. Head(w) = w[1] /\ DOMAIN w = 1..N
    BY <1>4
  <2>2. st.text = w /\ st.line = s /\ st = [text |-> Trimmed(t), line |-> s]
    BY <1>3
  <2> HIDE DEF w, N, st
  <2>3. Lines(ts, st)
    BY <2>1, <2>2 DEF Lines, LineOf
  <2> QED
    BY <1>3, <1>4, <2>2, <2>3 DEF w
<1> HIDE DEF w, N
<1>5. s # 0 /\ LineOf(ts, w[1]) = s
  <2>1. s # 0 /\ StandsAt(ts, t, s)
    BY <1>2 DEF Starts
  <2>2. PICK e : OpensAt(t, e) /\ (t[e].tok \in Quotes \/ LineOf(ts, t[e]) = s)
    BY <1>2, <2>1 DEF StandsAt
  <2>3. e = f
    BY <1>1, <1>3, <2>2, FirstOnce
  <2>4. w[1] = t[f]
    BY <1>4
  <2> QED
    BY <2>1, <2>2, <2>3, <2>4
<1> DEFINE NlsTo(k) == {m \in 1..k-1 : w[m].tok = "nl"}
           S == {j \in Nat : j < N => LineOf(ts, w[j + 1]) = s + Cardinality(NlsTo(j + 1))}
<1>6. \A k \in Nat : IsFiniteSet(NlsTo(k)) /\ Cardinality(NlsTo(k)) \in Nat
  <2>1. \A k \in Nat : IsFiniteSet(1..k-1) /\ NlsTo(k) \subseteq 1..k-1
    BY FS_Interval
  <2> HIDE DEF NlsTo
  <2> QED
    BY <2>1, FS_Subset, FS_CardinalityType
<1>7. 0 \in S
  <2>1. NlsTo(1) = {}
    OBVIOUS
  <2>2. Cardinality(NlsTo(1)) = 0
    BY <2>1, FS_EmptySet
  <2> HIDE DEF NlsTo
  <2> QED
    BY <1>5, <2>2
<1>8. ASSUME NEW j \in Nat, j \in S PROVE j + 1 \in S
  <2> SUFFICES ASSUME j + 1 < N
               PROVE  LineOf(ts, w[(j + 1) + 1]) = s + Cardinality(NlsTo((j + 1) + 1))
    OBVIOUS
  <2> DEFINE k == j + 1
  <2>1. k \in 1..N /\ k + 1 \in 1..N /\ k \in Nat /\ j < N
    BY <1>4
  <2>2. LineOf(ts, w[k]) = s + Cardinality(NlsTo(k))
    BY <1>8, <2>1
  <2>3. w[k] = t[f + k - 1] /\ w[k + 1] = t[(f + k - 1) + 1]
    BY <1>4, <2>1
  <2>4. f + k - 1 \in 1..Len(t) /\ f + k - 1 # Len(t)
    BY <1>1, <1>4, <1>a, <2>1
  <2>5. LineOf(ts, w[k + 1]) = LineOf(ts, w[k]) + Nl(w[k].tok)
    BY <2>3, <2>4 DEF Joins
  <2>6. Cardinality(NlsTo(k + 1)) = Cardinality(NlsTo(k)) + Nl(w[k].tok)
    <3>1. CASE w[k].tok = "nl"
      <4>1. NlsTo(k + 1) = NlsTo(k) \cup {k} /\ k \notin NlsTo(k)
        BY <2>1, <3>1
      <4> HIDE DEF NlsTo, k
      <4> QED
        BY <1>6, <2>1, <3>1, <4>1, FS_AddElement DEF Nl
    <3>2. CASE w[k].tok # "nl"
      <4>1. NlsTo(k + 1) = NlsTo(k)
        BY <2>1, <3>2
      <4> HIDE DEF NlsTo, k
      <4> QED
        BY <1>6, <2>1, <3>2, <4>1 DEF Nl
    <3> QED
      BY <3>1, <3>2
  <2>7. Cardinality(NlsTo(k)) \in Nat /\ Nl(w[k].tok) \in Nat
    BY <1>6, <2>1 DEF Nl
  <2> HIDE DEF NlsTo
  <2>8. LineOf(ts, w[k + 1]) = s + Cardinality(NlsTo(k + 1))
    BY <2>2, <2>5, <2>6, <2>7
  <2> QED
    BY <2>8
<1>9. Nat \subseteq S
  <2> HIDE DEF S
  <2> QED
    BY <1>7, <1>8, SetInduction
<1>10. ASSUME NEW k \in 1..N PROVE LineOf(ts, w[k]) = s + Cardinality(NlsTo(k))
  <2>1. k - 1 \in Nat /\ k - 1 < N /\ (k - 1) + 1 = k
    BY <1>4
  <2> QED
    BY <1>9, <2>1
<1> QED
  BY <1>10

(* A search in a text of L tokens that goes forward by one or by two is    *)
(* defined from the end of the text backwards, and stays in it.            *)
SearchAt(f, j, L, escaped, ends, doubled) ==
    IF j > L THEN L
    ELSE IF j \in escaped \/ (j \in ends /\ j \in doubled) THEN f[j + 2]
    ELSE IF j \in ends THEN j ELSE f[j + 1]

IsSearch(f, L, escaped, ends, doubled) ==
    f = [j \in Nat |-> SearchAt(f, j, L, escaped, ends, doubled)]

LEMMA SearchExists ==
    ASSUME NEW L \in Nat, NEW escaped, NEW ends, NEW doubled
    PROVE  \E f : IsSearch(f, L, escaped, ends, doubled)
<1> DEFINE At(f, j) == SearchAt(f, j, L, escaped, ends, doubled)
           From(f, d) == \A j \in Nat : j + d > L => f[j] = At(f, j)
           S == {d \in Nat : \E f \in [Nat -> Nat] : From(f, d)}
<1>1. 0 \in S
  <2> DEFINE f == [j \in Nat |-> L]
  <2>1. f \in [Nat -> Nat]
    OBVIOUS
  <2>2. From(f, 0)
    BY DEF SearchAt
  <2> QED
    BY <2>1, <2>2
<1>2. ASSUME NEW d \in Nat, d \in S PROVE d + 1 \in S
  <2>1. PICK f \in [Nat -> Nat] : From(f, d)
    BY <1>2
  <2>2. CASE d > L
    <3>1. \A j \in Nat : j + d > L
      BY <2>2
    <3>2. From(f, d + 1)
      BY <2>1, <3>1
    <3> QED
      BY <2>1, <3>2
  <2>3. CASE ~(d > L)
    <3> DEFINE p == L - d
               g == [f EXCEPT ![p] = At(f, p)]
    <3>1. p \in Nat /\ p + d = L
      BY <2>3
    <3> HIDE DEF p
    <3>2. At(f, p) \in Nat
      BY <2>1, <3>1 DEF SearchAt
    <3> HIDE DEF At
    <3>3. g \in [Nat -> Nat] /\ g[p] = At(f, p) /\ \A j \in Nat : j # p => g[j] = f[j]
      BY <2>1, <3>1, <3>2
    <3> HIDE DEF g
    <3>4. ASSUME NEW j \in Nat, j + (d + 1) > L PROVE g[j] = At(g, j)
      <4>1. j >= p /\ j + 1 # p /\ j + 2 # p /\ j + 1 \in Nat /\ j + 2 \in Nat
        BY <3>1, <3>4
      <4>2. g[j + 1] = f[j + 1] /\ g[j + 2] = f[j + 2]
        BY <3>3, <4>1
      <4>3. At(g, j) = At(f, j)
        BY <4>2 DEF At, SearchAt
      <4>4. j # p => j + d > L
        BY <3>1, <4>1
      <4> QED
        BY <2>1, <3>3, <4>3, <4>4
    <3>5. From(g, d + 1)
      BY <3>4
    <3> QED
      BY <3>3, <3>5
  <2> QED
    BY <2>2, <2>3
<1>3. L + 1 \in S
  <2> HIDE DEF S
  <2> QED
    BY <1>1, <1>2, SetInduction
<1>4. PICK f \in [Nat -> Nat] : From(f, L + 1)
  BY <1>3
<1>5. \A j \in Nat : f[j] = At(f, j)
  <2>1. \A j \in Nat : j + (L + 1) > L
    OBVIOUS
  <2> QED
    BY <1>4, <2>1
<1>6. f = [j \in Nat |-> At(f, j)]
  <2> HIDE DEF At
  <2> QED
    BY <1>5
<1>7. IsSearch(f, L, escaped, ends, doubled)
  BY <1>6 DEF IsSearch
<1> QED
  BY <1>7

LEMMA SearchStays ==
    ASSUME NEW L \in Nat, NEW escaped, NEW ends, NEW doubled,
           \A j \in escaped \cup doubled : j < L,
           NEW f, IsSearch(f, L, escaped, ends, doubled)
    PROVE  \A j \in 1..L + 1 : f[j] \in Nat /\ f[j] <= L /\ j - 1 <= f[j]
<1> DEFINE At(j) == SearchAt(f, j, L, escaped, ends, doubled)
           Within(j) == f[j] \in Nat /\ f[j] <= L /\ j - 1 <= f[j]
           S == {d \in Nat : \A j \in Nat : j + d > L /\ j <= L + 1 => Within(j)}
<1>1. \A j \in Nat : f[j] = At(j)
  <2> HIDE DEF At
  <2>1. f = [j \in Nat |-> At(j)]
    BY DEF At, IsSearch
  <2> QED
    BY <2>1
<1>2. 0 \in S
  <2> SUFFICES ASSUME NEW j \in Nat, j + 0 > L, j <= L + 1 PROVE Within(j)
    OBVIOUS
  <2>1. j > L
    OBVIOUS
  <2>2. f[j] = L
    BY <1>1, <2>1 DEF SearchAt
  <2> QED
    BY <2>2
<1>3. ASSUME NEW d \in Nat, d \in S PROVE d + 1 \in S
  <2> SUFFICES ASSUME NEW j \in Nat, j + (d + 1) > L, j <= L + 1 PROVE Within(j)
    OBVIOUS
  <2>1. CASE j > L
    <3>1. f[j] = L
      BY <1>1, <2>1 DEF SearchAt
    <3> QED
      BY <3>1
  <2>2. CASE ~(j > L)
    <3>1. j + 1 \in Nat /\ (j + 1) + d > L /\ j + 1 <= L + 1
      BY <2>2
    <3>2. Within(j + 1)
      BY <1>3, <3>1
    <3>3. ASSUME j < L PROVE Within(j + 2)
      <4>1. j + 2 \in Nat /\ (j + 2) + d > L /\ j + 2 <= L + 1
        BY <3>3
      <4> QED
        BY <1>3, <4>1
    <3>4. CASE j \in escaped \/ (j \in ends /\ j \in doubled)
      <4>1. f[j] = f[j + 2] /\ j < L
        BY <1>1, <2>2, <3>4 DEF SearchAt
      <4> QED
        BY <3>3, <4>1
    <3>5. CASE ~(j \in escaped \/ (j \in ends /\ j \in doubled))
      <4>1. f[j] \in {f[j + 1], j}
        BY <1>1, <2>2, <3>5 DEF SearchAt
      <4> QED
        BY <2>2, <3>2, <4>1
    <3> QED
      BY <3>4, <3>5
  <2> QED
    BY <2>1, <2>2
<1>4. L + 1 \in S
  <2> HIDE DEF S
  <2> QED
    BY <1>2, <1>3, SetInduction
<1>5. \A j \in 1..L + 1 : j \in Nat /\ j + (L + 1) > L /\ j <= L + 1
  OBVIOUS
<1> QED
  BY <1>4, <1>5

(* Where a quote closes. *)
LEMMA ClosingFacts ==
    ASSUME src \in Seq(STRING), i \in 1..Len(src)
    PROVE  Closing[i + 1] \in i..Len(src)
<1> DEFINE L == Len(src)
           escaped == {j \in Nat : Escaping /\ src[j] = "\\" /\ j < L}
           ends == {j \in Nat : src[j] = src[i]}
           doubled == {j \in Nat : j < L /\ src[j + 1] = src[i]}
           At(f, j) == SearchAt(f, j, L, escaped, ends, doubled)
           Step(f, j) ==
              CASE j > L -> L
                [] j <= L /\ Escaping /\ src[j] = "\\" /\ j < L -> f[j + 2]
                [] j <= L /\ ~(Escaping /\ src[j] = "\\" /\ j < L) /\ src[j] = src[i] ->
                      IF j < L /\ src[j + 1] = src[i] THEN f[j + 2] ELSE j
                [] OTHER -> f[j + 1]
<1>1. L \in Nat /\ i \in Nat /\ i >= 1 /\ i <= L
  OBVIOUS
<1>2. Closing = CHOOSE f : f = [j \in Nat |-> Step(f, j)]
  BY DEF Closing
<1>3. ASSUME NEW f, NEW j \in Nat PROVE Step(f, j) = At(f, j)
  <2> HIDE DEF L
  <2>1. CASE j > L
    BY <1>1, <2>1 DEF SearchAt
  <2>2. CASE ~(j > L) /\ Escaping /\ src[j] = "\\" /\ j < L
    BY <1>1, <2>2 DEF SearchAt
  <2>3. CASE ~(j > L) /\ ~(Escaping /\ src[j] = "\\" /\ j < L) /\ src[j] = src[i]
    BY <1>1, <2>3 DEF SearchAt
  <2>4. CASE ~(j > L) /\ ~(Escaping /\ src[j] = "\\" /\ j < L) /\ ~(src[j] = src[i])
    BY <1>1, <2>4 DEF SearchAt
  <2> QED
    BY <2>1, <2>2, <2>3, <2>4
<1>4. \A j \in escaped \cup doubled : j < L
  OBVIOUS
<1> HIDE DEF L, Step, escaped, ends, doubled
<1>e. PICK g : IsSearch(g, L, escaped, ends, doubled)
  BY <1>1, SearchExists, Zenon
<1>5. \E f : f = [j \in Nat |-> At(f, j)]
  BY <1>e DEF IsSearch
<1> HIDE DEF At
<1>6. \A f : [j \in Nat |-> Step(f, j)] = [j \in Nat |-> At(f, j)]
  BY <1>3
<1>7. \E f : f = [j \in Nat |-> Step(f, j)]
  BY <1>5, <1>6
<1>8. Closing = [j \in Nat |-> Step(Closing, j)]
  <2> DEFINE Is(f) == f = [j \in Nat |-> Step(f, j)]
  <2>1. \E f : Is(f)
    BY <1>7
  <2>2. Closing = CHOOSE f : Is(f)
    BY <1>2
  <2> HIDE DEF Is
  <2>3. Is(Closing)
    BY <2>1, <2>2
  <2> QED
    BY <2>3 DEF Is
<1>9. PICK c : c = Closing
  OBVIOUS
<1>10. IsSearch(c, L, escaped, ends, doubled)
  BY <1>6, <1>8, <1>9 DEF At, IsSearch
<1>11. \A j \in 1..L + 1 : c[j] \in Nat /\ c[j] <= L /\ j - 1 <= c[j]
  BY <1>1, <1>4, <1>10, SearchStays, Zenon
<1>12. i + 1 \in 1..L + 1 /\ (i + 1) - 1 = i
  BY <1>1
<1>13. c[i + 1] \in i..L
  BY <1>1, <1>11, <1>12
<1> QED
  BY <1>9, <1>13 DEF L

-----------------------------------------------------------------------------
(* What the loop keeps: the statement under construction lies in the file  *)
(* with its next token on the line counted, starts on the line recorded,   *)
(* and no end of a statement holds a newline.                              *)
DollarTags == Tags \cup {""}

Ends(d) == d \in Seq(Character) /\ d # <<>> /\ \A k \in 1..Len(d) : d[k] # "nl"

Statement == [text : Seq(Cell), line : Nat]

AtLine == i \in 1..Len(src) + 2 /\ line = LineAt(src, i)
Modes == bol \in BOOLEAN /\ done \in BOOLEAN /\ dollarT \in DollarTags /\ Ends(delim)
InProgress ==
    /\ buf \in Seq(Cell) /\ Joins(src, buf, line)
    /\ start \in 0..line /\ Starts(src, buf, start)
Written == out \in Seq(Statement) /\ \A st \in ToSet(out) : Lines(src, st)

Tracked == src \in Seq(STRING) /\ AtLine /\ Modes /\ InProgress /\ Written

(* A blank, a newline and a quote are different characters. *)
LEMMA Characters ==
    /\ Space \in Character /\ Space \in Blanks /\ "nl" \in Blanks /\ Nl(Space) = 0
    /\ \A c \in Quotes : c \notin Blanks
    /\ \A c \in Tags : c \notin Blanks
<1>0. Space # "nl"
  BY Zenon DEF Space
<1>1. Space \in Character
  BY Zenon DEF Character
<1>2. Space \in Blanks /\ "nl" \in Blanks
  BY Zenon DEF Space, Blanks
<1>3. \A c \in Quotes : c \notin Blanks
  BY Zenon DEF Quotes, IdQuotes, Blanks
<1>4. \A c \in Tags : c \notin Blanks
  BY Zenon DEF Tags, Blanks
<1> QED
  BY <1>0, <1>1, <1>2, <1>3, <1>4 DEF Nl

LEMMA NewBuffer ==
    ASSUME NEW ts, NEW l PROVE <<>> \in Seq(Cell) /\ Joins(ts, <<>>, l) /\ Starts(ts, <<>>, 0)
<1>1. Len(<<>>) = 0
  OBVIOUS
<1> QED
  BY <1>1 DEF Joins, Starts, AllBlank

(* An action that emits tokens.                                            *)
LEMMA EmitKeeps ==
    ASSUME Tracked, NEW u \in Seq(Cell), NEW n \in Nat, NEW at \in 1..line + n,
           Begins(src, u, line), Joins(src, u, line + n), u = <<>> => n = 0,
           StandsAt(src, u, at),
           NEW next \in 1..Len(src) + 2, LineAt(src, next) = line + n,
           Emit(u, at), GoOn(next, n), UNCHANGED <<file, done, delim>>,
           bol' \in BOOLEAN, dollarT' \in DollarTags
    PROVE  Tracked'
<1>1. src' = src
  BY DEF src
<1>2. line \in Nat \ {0} /\ start \in Nat /\ start <= line
  <2>1. i \in Nat /\ line = LineAt(src, i)
    BY DEF Tracked, AtLine
  <2>2. line \in Nat \ {0}
    BY <2>1, LineMoves DEF Tracked
  <2> QED
    BY <2>2 DEF Tracked, InProgress
<1>3. i' = next /\ line' = line + n /\ out' = out /\ buf' = buf \o u
      /\ start' = IF start = 0 /\ Trimmed(u) # <<>> THEN at ELSE start
  BY DEF Emit, GoOn
<1>4. AtLine'
  BY <1>1, <1>3 DEF AtLine
<1>5. Modes'
  BY DEF Tracked, Modes
<1>6. buf' \in Seq(Cell) /\ Joins(src, buf', line')
  <2>1. buf \in Seq(Cell) /\ Joins(src, buf, line) /\ (u = <<>> => line + n = line)
    BY <1>2 DEF Tracked, InProgress
  <2>2. buf \o u \in Seq(Cell) /\ Joins(src, buf \o u, line + n)
    BY <2>1, JoinsConcat
  <2> QED
    BY <1>3, <2>2
<1>7. Starts(src, buf', start')
  <2>1. buf \in Seq(Cell) /\ Starts(src, buf, start)
    BY DEF Tracked, InProgress
  <2>2. at \in Nat \ {0}
    BY <1>2
  <2> QED
    BY <1>2, <1>3, <2>1, <2>2, StartsConcat
<1>8. start' \in 0..line'
  BY <1>2, <1>3
<1>9. InProgress'
  BY <1>1, <1>6, <1>7, <1>8 DEF InProgress
<1>10. Written'
  BY <1>1, <1>3 DEF Tracked, Written
<1> QED
  BY <1>1, <1>4, <1>5, <1>9, <1>10 DEF Tracked

(* An action that passes over part of a line. *)
LEMMA SkipKeeps ==
    ASSUME Tracked, NEW next \in 1..Len(src) + 2, LineAt(src, next) = line,
           GoOn(next, 0), UNCHANGED <<file, done, delim, dollarT, buf, start, out>>, bol' \in BOOLEAN
    PROVE  Tracked'
<1>1. src' = src
  BY DEF src
<1>2. line \in Nat
  <2>1. i \in Nat /\ line = LineAt(src, i)
    BY DEF Tracked, AtLine
  <2> QED
    BY <2>1, LineMoves DEF Tracked
<1>3. i' = next /\ line' = line
  BY <1>2 DEF GoOn
<1>4. AtLine'
  BY <1>1, <1>3 DEF AtLine
<1>5. Modes'
  BY DEF Tracked, Modes
<1>6. InProgress'
  BY <1>1, <1>3 DEF Tracked, InProgress
<1>7. Written'
  BY <1>1 DEF Tracked, Written
<1> QED
  BY <1>1, <1>4, <1>5, <1>6, <1>7 DEF Tracked

(* An action that ends a statement. *)
LEMMA FlushKeeps ==
    ASSUME Tracked, Flush, AtLine', UNCHANGED file, Modes'
    PROVE  Tracked'
<1>1. src' = src
  BY DEF src
<1>2. buf \in Seq(Cell) /\ Joins(src, buf, line) /\ Starts(src, buf, start) /\ start \in Nat
  BY DEF Tracked, InProgress
<1>3. line' \in Nat
  <2>1. src \in Seq(STRING) /\ i' \in Nat /\ line' = LineAt(src, i')
    BY <1>1 DEF AtLine, Tracked
  <2> QED
    BY <2>1, LineMoves
<1>4. InProgress'
  <2>1. buf' = <<>> /\ start' = 0
    BY DEF Flush
  <2> QED
    BY <1>1, <1>3, <2>1, NewBuffer DEF InProgress
<1>5. out \in Seq(Statement) /\ \A st \in ToSet(out) : Lines(src, st)
  BY DEF Tracked, Written
<1>6. Written'
  <2>1. CASE Trimmed(buf) = <<>>
    BY <1>1, <1>5, <2>1 DEF Flush, Written
  <2>2. CASE Trimmed(buf) # <<>>
    <3> DEFINE st == [text |-> Trimmed(buf), line |-> start]
    <3>1. Trimmed(buf) \in Seq(Cell) /\ Lines(src, st)
      BY <1>2, <2>2, FlushedLines DEF Tracked
    <3>2. st \in Statement
      BY <1>2, <3>1 DEF Statement
    <3>3. out' = Append(out, st)
      BY <2>2 DEF Flush
    <3> HIDE DEF st
    <3>4. out' \in Seq(Statement) /\ Len(out') = Len(out) + 1 /\ Len(out) \in Nat
          /\ out'[Len(out) + 1] = st /\ \A k \in 1..Len(out) : out'[k] = out[k]
      BY <1>5, <3>2, <3>3, AppendProperties
    <3>5. ASSUME NEW k \in DOMAIN out' PROVE Lines(src, out'[k])
      <4>1. k = Len(out) + 1 \/ k \in 1..Len(out)
        BY <3>4
      <4>2. k \in 1..Len(out) => out[k] \in ToSet(out)
        BY <1>5 DEF ToSet
      <4> QED
        BY <1>5, <3>1, <3>4, <4>1, <4>2
    <3> QED
      BY <1>1, <3>4, <3>5 DEF Written, ToSet
  <2> QED
    BY <2>1, <2>2
<1> QED
  BY <1>1, <1>4, <1>6 DEF Tracked

(* Tokens copied from i on. *)
LEMMA CopyKeeps ==
    ASSUME Tracked, i <= Len(src), NEW end \in i..Len(src),
           NEW at \in 1..line + Cardinality(NewLines(i, end)),
           src[i] \in Quotes \/ (end = i /\ (src[i] \in Blanks \/ at = line)),
           Emit(Tokens(i, end), at), GoOn(end + 1, Cardinality(NewLines(i, end))),
           UNCHANGED <<file, done, delim>>, bol' \in BOOLEAN, dollarT' \in DollarTags
    PROVE  Tracked'
<1> DEFINE n == Cardinality(NewLines(i, end))
           t == Tokens(i, end)
<1>1. src \in Seq(STRING) /\ Len(src) \in Nat /\ i \in 1..Len(src) /\ line = LineAt(src, i)
  BY DEF Tracked, AtLine
<1>2. i \in Nat \ {0} /\ end \in Nat /\ i <= end + 1 /\ end + 1 \in 1..Len(src) + 2
  BY <1>1
<1>3. n \in Nat /\ LineAt(src, end + 1) = line + n
  BY <1>1, <1>2, StretchLines
<1>4. /\ t \in Seq(Cell) /\ t # <<>> /\ Len(t) = end - i + 1
      /\ \A k \in 1..end - i + 1 : t[k] = [tok |-> src[i + k - 1], place |-> i + k - 1]
      /\ Begins(src, t, line) /\ Joins(src, t, line + n)
  BY <1>1, <1>3, TokensLie
<1>5. t[1] = [tok |-> src[i], place |-> i] /\ 1 \in 1..Len(t) /\ Len(t) \in Nat
  <2>1. 1 \in 1..end - i + 1 /\ i + 1 - 1 = i
    BY <1>1
  <2> QED
    BY <1>4, <2>1
<1> HIDE DEF t, n
<1>6. t[1].tok = src[i] /\ LineOf(src, t[1]) = line
  BY <1>1, <1>5 DEF LineOf
<1>7. StandsAt(src, t, at)
  <2>1. CASE src[i] \in Blanks
    <3>1. end = i
      BY <2>1, Characters
    <3>2. \A k \in 1..Len(t) : k = 1
      BY <1>1, <1>4, <3>1
    <3> QED
      BY <1>6, <2>1, <3>2 DEF StandsAt, AllBlank, IsBlank
  <2>2. CASE src[i] \notin Blanks
    <3>1. OpensAt(t, 1)
      <4>1. 1..1 - 1 = {}
        OBVIOUS
      <4> QED
        BY <1>5, <1>6, <2>2, <4>1 DEF OpensAt, IsBlank
    <3>2. t[1].tok \in Quotes \/ LineOf(src, t[1]) = at
      BY <1>6, <2>2
    <3> QED
      BY <3>1, <3>2 DEF StandsAt
  <2> QED
    BY <2>1, <2>2
<1>8. at \in 1..line + n /\ Emit(t, at) /\ GoOn(end + 1, n)
  BY DEF t, n
<1> QED
  BY <1>2, <1>3, <1>4, <1>7, <1>8, EmitKeeps

(* A comment's blank and newlines. *)
LEMMA BlockCommentKeeps == Tracked /\ BlockComment => Tracked'
<1> SUFFICES ASSUME Tracked, BlockComment PROVE Tracked'
  OBVIOUS
<1> DEFINE end == Next1({"*/"}, i + 1)
           n == Cardinality(NewLines(i, end))
           c == [tok |-> Space, place |-> i]
           ns == NewLineTokens(i, end)
           u == <<c>> \o ns
<1>1. /\ i <= Len(src) /\ UNCHANGED <<file, done>> /\ Emit(u, line) /\ GoOn(end + 1, n)
      /\ bol' = FALSE /\ UNCHANGED <<dollarT, delim>>
  BY Zenon DEF BlockComment, Plain, Token, Running, Started, Space
<1> HIDE DEF end
<1>2. src \in Seq(STRING) /\ Len(src) \in Nat /\ i \in 1..Len(src) /\ line = LineAt(src, i)
  BY <1>1 DEF Tracked, AtLine
<1>3. end \in i + 1..Len(src) + 1
  <2>1. i + 1 \in Nat \ {0} /\ i + 1 <= Len(src) + 1
    BY <1>2
  <2>2. \A toks : Next1(toks, i + 1) \in i + 1..Len(src) + 1
    BY <1>2, <2>1, NextFacts
  <2> QED
    BY <2>2, Zenon DEF end
<1>4. i \in Nat \ {0} /\ end \in Nat /\ i <= end + 1 /\ end + 1 \in 1..Len(src) + 2
  BY <1>2, <1>3
<1>5. n \in Nat /\ LineAt(src, end + 1) = line + n /\ line \in Nat \ {0}
  BY <1>2, <1>4, StretchLines, LineMoves
<1>6. /\ ns \in Seq(Cell) /\ Len(ns) = n /\ \A k \in 1..Len(ns) : ns[k].tok = "nl"
      /\ Begins(src, ns, line) /\ Joins(src, ns, line + n)
  BY <1>2, <1>4, <1>5, NewLineTokensLie
<1>7. c \in Cell /\ LineOf(src, c) = line /\ c.tok = Space
  BY <1>2, <1>4, Characters DEF Cell, LineOf
<1> HIDE DEF c, n, ns
<1>8. <<c>> \in Seq(Cell) /\ Joins(src, <<c>>, line)
  <2>1. <<c>> \in Seq(Cell) /\ Len(<<c>>) = 1 /\ <<c>>[1] = c
    BY <1>7
  <2> QED
    BY <1>5, <1>7, <2>1, Characters DEF Joins
<1>9. ns = <<>> => line + n = line
  <2>1. Len(<<>>) = 0
    OBVIOUS
  <2> QED
    BY <1>5, <1>6, <2>1
<1>10. u \in Seq(Cell) /\ Joins(src, u, line + n)
  BY <1>6, <1>8, <1>9, JoinsConcat
<1>11. /\ Len(u) = 1 + Len(ns) /\ Len(ns) \in Nat /\ u[1] = c
       /\ \A k \in 1..Len(u) : k = 1 \/ (k - 1 \in 1..Len(ns) /\ u[k] = ns[k - 1])
  BY <1>6, <1>8
<1> HIDE DEF u
<1>12. u # <<>>
  <2>1. Len(<<>>) = 0 /\ Len(u) # 0
    BY <1>11
  <2> QED
    BY <2>1, Zenon
<1>13. Begins(src, u, line)
  BY <1>7, <1>11 DEF Begins
<1>14. StandsAt(src, u, line)
  <2>1. ASSUME NEW k \in 1..Len(u) PROVE u[k].tok \in Blanks
    BY <1>6, <1>7, <1>11, Characters
  <2> QED
    BY <2>1 DEF StandsAt, AllBlank, IsBlank
<1>15. line \in 1..line + n
  BY <1>5
<1>16. /\ end + 1 \in 1..Len(src) + 2 /\ bol' \in BOOLEAN /\ dollarT' \in DollarTags
       /\ UNCHANGED <<file, done, delim>> /\ u = <<>> => n = 0
  BY <1>1, <1>4, <1>12 DEF Tracked, Modes
<1> QED
  BY <1>1, <1>5, <1>10, <1>13, <1>14, <1>15, <1>16, EmitKeeps

-----------------------------------------------------------------------------
(* The other actions. *)
LEMMA RunningFacts ==
    ASSUME Tracked, Running
    PROVE  /\ src \in Seq(STRING) /\ Len(src) \in Nat /\ i \in 1..Len(src) /\ UNCHANGED <<file, done>>
           /\ line = LineAt(src, i) /\ line \in Nat \ {0}
           /\ bol \in BOOLEAN /\ dollarT \in DollarTags
<1>1. /\ src \in Seq(STRING) /\ i <= Len(src) /\ i \in 1..Len(src) + 2 /\ line = LineAt(src, i)
      /\ bol \in BOOLEAN /\ dollarT \in DollarTags /\ UNCHANGED <<file, done>>
  BY DEF Tracked, AtLine, Modes, Running
<1>2. Len(src) \in Nat /\ i \in 1..Len(src) /\ i \in Nat
  BY <1>1
<1>3. line \in Nat \ {0}
  BY <1>1, <1>2, LineMoves
<1> QED
  BY <1>1, <1>2, <1>3

LEMMA DollarKeeps == Tracked /\ Dollar => Tracked'
<1> SUFFICES ASSUME Tracked, Dollar PROVE Tracked'
  OBVIOUS
<1> DEFINE n == Cardinality(NewLines(i, i))
<1>1. /\ Running /\ Emit(Tokens(i, i), line + n) /\ GoOn(i + 1, n) /\ UNCHANGED <<bol, delim>>
      /\ dollarT' \in {"", dollarT}
  BY Zenon DEF Dollar, Token
<1>2. /\ src \in Seq(STRING) /\ Len(src) \in Nat /\ i \in 1..Len(src) /\ UNCHANGED <<file, done>>
      /\ line = LineAt(src, i) /\ line \in Nat \ {0} /\ bol \in BOOLEAN /\ dollarT \in DollarTags
  BY <1>1, RunningFacts
<1>3. dollarT' \in DollarTags
  BY <1>1, <1>2, Zenon DEF DollarTags
<1>a. i \in Nat \ {0} /\ i \in Nat /\ i <= i + 1
  BY <1>2
<1>4. n \in Nat /\ LineAt(src, i + 1) = line + n /\ LineAt(src, i + 1) = line + Nl(src[i])
  BY <1>2, <1>a, StretchLines, LineMoves
<1>b. Cardinality(NewLines(i, i)) = n
  OBVIOUS
<1> HIDE DEF n
<1>5. src[i] \in Quotes \/ src[i] \in Blanks \/ line + n = line
  BY <1>2, <1>4, Characters DEF Nl
<1>6. i \in i..Len(src) /\ i <= Len(src) /\ line + n \in 1..line + n
  BY <1>2, <1>4
<1>7. UNCHANGED <<file, done, delim>> /\ bol' \in BOOLEAN
  BY <1>1, <1>2
<1> QED
  BY <1>1, <1>3, <1>5, <1>6, <1>7, <1>b, CopyKeeps

LEMMA OtherKeeps == Tracked /\ Other => Tracked'
<1> SUFFICES ASSUME Tracked, Other PROVE Tracked'
  OBVIOUS
<1> DEFINE n == Cardinality(NewLines(i, i))
<1>1. /\ Running /\ Emit(Tokens(i, i), line) /\ GoOn(i + 1, n) /\ UNCHANGED <<dollarT, delim>>
      /\ bol' \in BOOLEAN
  BY Zenon DEF Other, Unmarked, Plain, Token
<1>2. /\ src \in Seq(STRING) /\ Len(src) \in Nat /\ i \in 1..Len(src) /\ UNCHANGED <<file, done>>
      /\ line = LineAt(src, i) /\ line \in Nat \ {0} /\ bol \in BOOLEAN /\ dollarT \in DollarTags
  BY <1>1, RunningFacts
<1>a. i \in Nat \ {0} /\ i \in Nat /\ i <= i + 1
  BY <1>2
<1>3. n \in Nat
  BY <1>2, <1>a, StretchLines
<1>b. Cardinality(NewLines(i, i)) = n
  OBVIOUS
<1> HIDE DEF n
<1>4. i \in i..Len(src) /\ i <= Len(src) /\ line \in 1..line + n
  BY <1>2, <1>3
<1>5. UNCHANGED <<file, done, delim>> /\ dollarT' \in DollarTags
  BY <1>1, <1>2
<1> QED
  BY <1>1, <1>4, <1>5, <1>b, CopyKeeps

LEMMA DollarTagKeeps == Tracked /\ DollarTag => Tracked'
<1> SUFFICES ASSUME Tracked, DollarTag PROVE Tracked'
  OBVIOUS
<1> DEFINE n == Cardinality(NewLines(i, i))
<1>1. /\ Running /\ Emit(Tokens(i, i), line) /\ GoOn(i + 1, 0) /\ UNCHANGED delim
      /\ dollarT' = src[i] /\ src[i] \in Tags /\ bol' = FALSE
  BY Zenon DEF DollarTag, AtTag, Plain, Token, Started
<1>2. /\ src \in Seq(STRING) /\ Len(src) \in Nat /\ i \in 1..Len(src) /\ UNCHANGED <<file, done>>
      /\ line = LineAt(src, i) /\ line \in Nat \ {0} /\ bol \in BOOLEAN /\ dollarT \in DollarTags
  BY <1>1, RunningFacts
<1>a. i \in Nat \ {0} /\ i \in Nat /\ i <= i + 1
  BY <1>2
<1>3. n \in Nat /\ LineAt(src, i + 1) = line + n /\ LineAt(src, i + 1) = line + Nl(src[i])
  BY <1>2, <1>a, StretchLines, LineMoves
<1>b. Cardinality(NewLines(i, i)) = n
  OBVIOUS
<1> HIDE DEF n
<1>4. n = 0
  BY <1>1, <1>2, <1>3, Characters DEF Nl
<1>5. dollarT' \in DollarTags /\ bol' \in BOOLEAN
  BY <1>1, Zenon DEF DollarTags
<1>6. i \in i..Len(src) /\ i <= Len(src) /\ line \in 1..line + n
  BY <1>2, <1>4
<1>7. UNCHANGED <<file, done, delim>> /\ GoOn(i + 1, n)
  BY <1>1, <1>2, <1>4
<1> QED
  BY <1>1, <1>5, <1>6, <1>7, <1>b, CopyKeeps

LEMMA QuotedKeeps == Tracked /\ Quoted => Tracked'
<1> SUFFICES ASSUME Tracked, Quoted PROVE Tracked'
  OBVIOUS
<1> DEFINE end == Closing[i + 1]
           n == Cardinality(NewLines(i, end))
<1>1. /\ Running /\ Emit(Tokens(i, end), line + n) /\ GoOn(end + 1, n) /\ UNCHANGED <<dollarT, delim>>
      /\ src[i] \in Quotes /\ bol' = FALSE
  BY Zenon DEF Quoted, AtQuote, Plain, Token, Started
<1>2. /\ src \in Seq(STRING) /\ Len(src) \in Nat /\ i \in 1..Len(src) /\ UNCHANGED <<file, done>>
      /\ line = LineAt(src, i) /\ line \in Nat \ {0} /\ bol \in BOOLEAN /\ dollarT \in DollarTags
  BY <1>1, RunningFacts
<1>3. end \in i..Len(src)
  BY <1>2, ClosingFacts
<1> HIDE DEF end
<1>a. i \in Nat \ {0} /\ end \in Nat /\ i <= end + 1
  BY <1>2, <1>3
<1>4. n \in Nat
  BY <1>2, <1>a, StretchLines
<1>b. Cardinality(NewLines(i, end)) = n
  OBVIOUS
<1> HIDE DEF n
<1>5. i <= Len(src) /\ line + n \in 1..line + n
  BY <1>2, <1>4
<1>6. UNCHANGED <<file, done, delim>> /\ bol' \in BOOLEAN /\ dollarT' \in DollarTags
  BY <1>1, <1>2
<1> QED
  BY <1>1, <1>3, <1>5, <1>6, <1>b, CopyKeeps

LEMMA LineCommentKeeps == Tracked /\ LineComment => Tracked'
<1> SUFFICES ASSUME Tracked, LineComment PROVE Tracked'
  OBVIOUS
<1> DEFINE end == Next1({"nl"}, i)
<1>1. /\ Running /\ GoOn(end, 0) /\ bol' = FALSE /\ UNCHANGED <<start, buf, dollarT, delim, out>>
  BY Zenon DEF LineComment, Plain, Token, Started
<1>2. /\ src \in Seq(STRING) /\ Len(src) \in Nat /\ i \in 1..Len(src) /\ UNCHANGED <<file, done>>
      /\ line = LineAt(src, i) /\ line \in Nat \ {0} /\ bol \in BOOLEAN /\ dollarT \in DollarTags
  BY <1>1, RunningFacts
<1>3. end \in i..Len(src) + 1 /\ \A k \in i..end - 1 : src[k] # "nl"
  BY <1>2, NextFacts
<1> HIDE DEF end
<1>4. LineAt(src, end) = line
  <2>1. i \in Nat \ {0} /\ end - 1 \in Nat /\ i <= (end - 1) + 1 /\ (end - 1) + 1 = end
    BY <1>2, <1>3
  <2> QED
    BY <1>2, <1>3, <2>1, NoNewLine
<1>5. end \in 1..Len(src) + 2
  BY <1>2, <1>3
<1>6. bol' \in BOOLEAN /\ UNCHANGED <<file, done, delim, dollarT, buf, start, out>>
  BY <1>1, <1>2
<1> QED
  BY <1>1, <1>4, <1>5, <1>6, SkipKeeps

LEMMA CutKeeps == Tracked /\ Cut => Tracked'
<1> SUFFICES ASSUME Tracked, Cut PROVE Tracked'
  OBVIOUS
<1> DEFINE N == Len(delim)
<1>1. /\ Running /\ Flush /\ GoOn(i + N, 0) /\ bol' = FALSE /\ UNCHANGED <<dollarT, delim>>
      /\ IsPrefix(delim, Rest)
  BY Zenon DEF Cut, AtDelim, Unmarked, Plain, Token, Started
<1>2. /\ src \in Seq(STRING) /\ Len(src) \in Nat /\ i \in 1..Len(src) /\ UNCHANGED <<file, done>>
      /\ line = LineAt(src, i) /\ line \in Nat \ {0} /\ bol \in BOOLEAN /\ dollarT \in DollarTags
  BY <1>1, RunningFacts
<1>3. Ends(delim) /\ done \in BOOLEAN
  BY DEF Tracked, Modes
<1>4. delim \in Seq(Character) /\ N \in Nat \ {0} /\ \A k \in 1..N : delim[k] # "nl"
  <2>1. delim \in Seq(Character) /\ delim # <<>> /\ \A k \in 1..N : delim[k] # "nl"
    BY <1>3 DEF Ends
  <2> QED
    BY <2>1
<1>5. Rest \in Seq(STRING) /\ Len(Rest) = Len(src) - i + 1
      /\ \A k \in 1..Len(src) - i + 1 : Rest[k] = src[i + k - 1]
  BY <1>2 DEF Rest
<1>6. N <= Len(src) - i + 1 /\ \A k \in 1..N : src[i + k - 1] = delim[k]
  <2>1. N <= Len(src) - i + 1 /\ SubSeq(delim, 1, N) = SubSeq(Rest, 1, N)
    BY <1>1, <1>5 DEF IsPrefix
  <2>2. \A k \in 1..N : SubSeq(delim, 1, N)[k] = delim[k]
    BY <1>4
  <2>3. \A k \in 1..N : SubSeq(Rest, 1, N)[k] = Rest[k]
    BY <1>2, <1>4, <1>5, <2>1
  <2>4. \A k \in 1..N : k \in 1..Len(src) - i + 1
    BY <1>2, <1>4, <2>1
  <2> QED
    BY <1>5, <2>1, <2>2, <2>3, <2>4
<1> HIDE DEF N
<1>7. ASSUME NEW p \in i..i + N - 1 PROVE src[p] # "nl"
  <2> DEFINE k == p - i + 1
  <2>1. k \in 1..N /\ i + k - 1 = p
    BY <1>2, <1>4
  <2> HIDE DEF k
  <2> QED
    BY <1>4, <1>6, <2>1
<1>8. LineAt(src, i + N) = line
  <2>1. i \in Nat \ {0} /\ i + N - 1 \in Nat /\ i <= (i + N - 1) + 1 /\ (i + N - 1) + 1 = i + N
    BY <1>2, <1>4
  <2> QED
    BY <1>2, <1>7, <2>1, NoNewLine
<1>9. src' = src /\ i' = i + N /\ line' = line
  BY <1>1, <1>2 DEF GoOn, src
<1>10. AtLine'
  BY <1>2, <1>4, <1>6, <1>8, <1>9 DEF AtLine
<1>11. Modes'
  BY <1>1, <1>2, <1>3 DEF Modes
<1> QED
  BY <1>1, <1>2, <1>10, <1>11, FlushKeeps

LEMMA FinishKeeps == Tracked /\ Finish => Tracked'
<1> SUFFICES ASSUME Tracked, Finish PROVE Tracked'
  OBVIOUS
<1>1. Flush /\ done' = TRUE /\ UNCHANGED <<file, i, line, dollarT, delim, bol>>
  BY DEF Finish
<1>2. AtLine'
  BY <1>1 DEF Tracked, AtLine, src
<1>3. Modes'
  BY <1>1 DEF Tracked, Modes
<1> QED
  BY <1>1, <1>2, <1>3, FlushKeeps
(* What a DELIMITER line sets lies within the line.                        *)
LEMMA DelimiterLineKeeps == Tracked /\ DelimiterLine => Tracked'
<1> SUFFICES ASSUME Tracked, DelimiterLine PROVE Tracked'
  OBVIOUS
<1> DEFINE end == Next1({"nl"}, i)
           t == Tokens(i + 2, end - 1)
           d == Trimmed(t)
<1>1. /\ Running /\ GoOn(end, 0) /\ bol' = FALSE /\ UNCHANGED dollarT
      /\ IF d = <<>> THEN UNCHANGED <<delim, out, buf, start>>
         ELSE Flush /\ delim' = [k \in DOMAIN d |-> d[k].tok]
  BY Zenon DEF DelimiterLine
<1>2. /\ src \in Seq(STRING) /\ Len(src) \in Nat /\ i \in 1..Len(src) /\ UNCHANGED <<file, done>>
      /\ line = LineAt(src, i) /\ line \in Nat \ {0} /\ bol \in BOOLEAN /\ dollarT \in DollarTags
  BY <1>1, RunningFacts
<1>3. end \in i..Len(src) + 1 /\ \A k \in i..end - 1 : src[k] # "nl"
  BY <1>2, NextFacts
<1>t. t = Tokens(i + 2, end - 1)
  OBVIOUS
<1> HIDE DEF end, t
<1>4. LineAt(src, end) = line
  <2>1. i \in Nat \ {0} /\ end - 1 \in Nat /\ i <= (end - 1) + 1 /\ (end - 1) + 1 = end
    BY <1>2, <1>3
  <2> QED
    BY <1>2, <1>3, <2>1, NoNewLine
<1>5. end \in 1..Len(src) + 2
  BY <1>2, <1>3
<1>6. CASE d = <<>>
  <2>1. bol' \in BOOLEAN /\ UNCHANGED <<file, done, delim, dollarT, buf, start, out>>
    BY <1>1, <1>2, <1>6
  <2> QED
    BY <1>1, <1>4, <1>5, <2>1, SkipKeeps
<1>7. CASE d # <<>>
  <2>1. Flush /\ delim' = [k \in DOMAIN d |-> d[k].tok]
    BY <1>1, <1>7
  <2> DEFINE M == (end - 1) - (i + 2) + 1
  <2>2. t = [k \in 1..M |-> [tok |-> src[(i + 2) + k - 1], place |-> (i + 2) + k - 1]]
    BY <1>t DEF Tokens
  <2>3. /\ M \in Int /\ \A k \in 1..M : /\ (i + 2) + k - 1 \in 1..Len(src) /\ (i + 2) + k - 1 \in Nat
                                        /\ (i + 2) + k - 1 \in i..end - 1
    BY <1>2, <1>3
  <2> HIDE DEF M
  <2>4. \A k \in 1..M : t[k] \in Cell /\ t[k].tok # "nl"
    <3> SUFFICES ASSUME NEW k \in 1..M PROVE t[k] \in Cell /\ t[k].tok # "nl"
      OBVIOUS
    <3> DEFINE p == (i + 2) + k - 1
    <3>1. p \in 1..Len(src) /\ p \in Nat /\ p \in i..end - 1
      BY <2>3
    <3>2. t[k] = [tok |-> src[p], place |-> p]
      BY <2>2, Zenon
    <3> HIDE DEF p
    <3>3. src[p] \in STRING /\ src[p] # "nl"
      BY <1>2, <1>3, <3>1
    <3> QED
      BY <3>1, <3>2, <3>3 DEF Cell, Character
  <2>5. t \in Seq(Cell) /\ \A k \in 1..Len(t) : t[k].tok # "nl"
    <3>1. CASE M \in Nat
      <4>1. t \in [1..M -> Cell]
        BY <2>2, <2>4
      <4>2. t \in Seq(Cell) /\ Len(t) = M
        BY <3>1, <4>1, IsASeq, LenProperties
      <4> QED
        BY <2>4, <4>2
    <3>2. CASE M \notin Nat
      <4>1. 1..M = {}
        BY <2>3, <3>2
      <4>2. t = <<>>
        BY <2>2, <4>1
      <4> QED
        BY <4>2
    <3> QED
      BY <3>1, <3>2
  <2>6. ~AllBlank(t)
    BY <1>7, <2>5, TrimmedFacts
  <2>7. PICK f, g : OpensAt(t, f) /\ g \in f..Len(t) /\ d = SubSeq(t, f, g)
    BY <2>5, <2>6, TrimmedFacts
  <2>8. /\ d \in Seq(Cell) /\ Len(d) = g - f + 1
        /\ \A k \in 1..g - f + 1 : d[k] = t[f + k - 1] /\ f + k - 1 \in 1..Len(t)
    <3>1. f \in 1..Len(t) /\ Len(t) \in Nat
      BY <2>5, <2>7 DEF OpensAt
    <3> HIDE DEF d
    <3> QED
      BY <2>5, <2>7, <3>1
  <2> HIDE DEF d
  <2>9. \A k \in 1..Len(d) : d[k].tok \in Character /\ d[k].tok # "nl"
    <3> SUFFICES ASSUME NEW k \in 1..Len(d) PROVE d[k].tok \in Character /\ d[k].tok # "nl"
      OBVIOUS
    <3> DEFINE p == f + k - 1
    <3>1. d[k] = t[p] /\ p \in 1..Len(t)
      BY <2>8
    <3> HIDE DEF p
    <3>2. t[p] \in Cell /\ t[p].tok # "nl"
      BY <2>5, <3>1
    <3> QED
      BY <3>1, <3>2 DEF Cell
  <2>10. Ends(delim')
    <3>1. DOMAIN d = 1..Len(d) /\ Len(d) \in Nat
      BY <2>8
    <3>2. Len(d) # 0
      BY <1>7, <2>8
    <3>3. delim' \in [1..Len(d) -> Character] /\ \A k \in 1..Len(d) : delim'[k] = d[k].tok
      BY <2>1, <2>9, <3>1
    <3>4. delim' \in Seq(Character) /\ Len(delim') = Len(d)
      BY <3>1, <3>3, IsASeq, LenProperties
    <3>5. delim' # <<>>
      <4>1. Len(<<>>) = 0
        OBVIOUS
      <4> QED
        BY <3>2, <3>4, <4>1, Zenon
    <3> QED
      BY <2>9, <3>3, <3>4, <3>5 DEF Ends
  <2>11. src' = src /\ i' = end /\ line' = line
    BY <1>1, <1>2 DEF GoOn, src
  <2>12. AtLine'
    BY <1>4, <1>5, <2>11 DEF AtLine
  <2>13. Modes'
    BY <1>1, <1>2, <2>10 DEF Tracked, Modes
  <2> QED
    BY <1>2, <2>1, <2>12, <2>13, FlushKeeps
<1> QED
  BY <1>6, <1>7

LEMMA TrackedInit == SplitInit => Tracked
<1> SUFFICES ASSUME SplitInit PROVE Tracked
  OBVIOUS
<1>1. src \in Seq(STRING)
  BY SplitFilesAssumption DEF SplitInit, src
<1>2. /\ i = 1 /\ line = 1 /\ start = 0 /\ buf = <<>> /\ dollarT \in DollarTags
      /\ delim = <<Semicolon>> /\ bol = TRUE /\ out = <<>> /\ done = FALSE
  BY Zenon DEF SplitInit, DollarTags, Semicolon
<1>3. LineAt(src, 1) = 1
  <2>1. {k \in DOMAIN src : k < 1 /\ src[k] = "nl"} = {}
    BY <1>1
  <2> QED
    BY <2>1, FS_EmptySet DEF LineAt
<1>4. AtLine
  BY <1>1, <1>2, <1>3 DEF AtLine
<1>5. Ends(delim)
  <2>1. Semicolon \in Character /\ Semicolon # "nl"
    BY Zenon DEF Semicolon, Character
  <2>2. <<Semicolon>> \in Seq(Character) /\ Len(<<Semicolon>>) = 1 /\ <<Semicolon>>[1] = Semicolon
    BY <2>1
  <2>3. <<Semicolon>> # <<>>
    OBVIOUS
  <2> QED
    BY <1>2, <2>1, <2>2, <2>3 DEF Ends
<1>6. Modes
  BY <1>2, <1>5 DEF Modes
<1>7. InProgress
  BY <1>2, NewBuffer DEF InProgress
<1>8. Written
  BY <1>2 DEF Written, ToSet
<1> QED
  BY <1>1, <1>4, <1>6, <1>7, <1>8 DEF Tracked

LEMMA TrackedNext == Tracked /\ [SplitNext]_splitVars => Tracked'
<1>1. ASSUME Tracked, UNCHANGED <<file, i, line, start, buf, dollarT, delim, bol, out, done>>
      PROVE  Tracked'
  BY <1>1 DEF Tracked, AtLine, Modes, InProgress, Written, src
<1>2. Tracked /\ ReadStatement => Tracked'
  BY <1>1 DEF ReadStatement
<1>3. Tracked /\ (SplitOver \/ UNCHANGED splitVars) => Tracked'
  BY <1>1 DEF SplitOver, splitVars
<1> QED
  BY <1>2, <1>3, DelimiterLineKeeps, DollarKeeps, LineCommentKeeps, BlockCommentKeeps, QuotedKeeps,
     DollarTagKeeps, CutKeeps, OtherKeeps, FinishKeeps DEF SplitNext

LEMMA AlwaysTracked == SplitSpec => []Tracked
  BY TrackedInit, TrackedNext, PTL DEF SplitSpec

(* The count of lines internal/sqlsplit/split.go keeps is that of the file *)
(* at the place the loop has come to, whatever it skips or copies, and a   *)
(* statement has its line from its first character on.                     *)
THEOREM SplitTypeCorrect == SplitSpec => []SplitTypeOK
<1>1. ASSUME Tracked PROVE SplitTypeOK
  <2>1. AtLine /\ Modes /\ InProgress
    BY <1>1 DEF Tracked
  <2>2. dollarT \in Tags \cup {""}
    BY <2>1, Zenon DEF Modes, DollarTags
  <2>3. delim # <<>> /\ bol \in BOOLEAN /\ done \in BOOLEAN
    BY <2>1 DEF Modes, Ends
  <2>4. start \in 0..line /\ (start = 0 <=> Trimmed(buf) = <<>>)
    <3>1. Trimmed(buf) = <<>> <=> AllBlank(buf)
      BY <2>1, TrimmedFacts DEF InProgress
    <3> QED
      BY <2>1, <3>1 DEF InProgress, Starts
  <2> QED
    BY <2>1, <2>2, <2>3, <2>4, Zenon DEF SplitTypeOK, AtLine
<1> QED
  BY <1>1, AlwaysTracked, PTL

(* "A column's line inside the statement can still be computed from the    *)
(* statement's start" (internal/sqlsplit/split.go): no comment, string or  *)
(* change of delimiter before or inside a statement puts a token of its    *)
(* text on another line than the newlines before it in the text say.       *)
THEOREM LinesAreKept == SplitSpec => []LinesKept
<1>1. ASSUME Tracked PROVE LinesKept
  BY <1>1 DEF Tracked, Written, Lines, LinesKept
<1> QED
  BY <1>1, AlwaysTracked, PTL
=============================================================================
