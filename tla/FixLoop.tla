------------------------------ MODULE FixLoop ------------------------------
(***************************************************************************)
(* What the findings are for: an author reads one, makes the edit its fix  *)
(* names in the connector, and runs the linter again.  The linter's part   *)
(* is engine.Run, whose fixes say which list to edit and what to put in it *)
(* or take out (engine.edit, Contract.TableBlock and the settings); the    *)
(* author is outside the code and does exactly what the fix says.          *)
(***************************************************************************)
EXTENDS Rules

CONSTANT Inputs         \* what authors start from

VARIABLES
    input,      \* what the rules run on
    answer,     \* <<>> until they have run, then <<their findings>>
    edited      \* the finding whose fix was made last, <<>> before any

vars == <<input, answer, edited>>

INSTANCE Verdict

Init ==
    /\ VerdictInit
    /\ input \in Inputs
    /\ edited = <<>>

(* Findings whose fix adds a name to a list or removes one from it. *)
EditRules ==
    {"sink-table-not-captured", "sink-column-not-captured", "schema-before-connector"}

Fixable(found) == {f \in found : f.rule \in EditRules}

-----------------------------------------------------------------------------
(* The author's edits of one list. *)

Literals(names) == SetToSeq({[ext |-> {q}, glob |-> {}, db |-> Head(q)] : q \in names})

(* A name that is there already is not written again. *)
With(value, names) ==
    IF Literals(names) \in ToSet(value) THEN value ELSE Append(value, Literals(names))

(* Patterns no longer match the names; one that matched nothing else goes. *)
(* The order of an exclude list says nothing.                              *)
WithoutNames(value, names) ==
    SetToSeq({<<[alt EXCEPT !.ext = @ \ names]>> :
                 alt \in {p \in Patterns(value) : ~(p.ext \subseteq names)}})

ListAt(c, key) == IF key \in DOMAIN c.lists THEN c.lists[key] ELSE <<>>

\* Mutant: a fix on an exclude list asks for the list to go, not for the name.
NewValue_DropsList(c, fix) ==
    IF Excludes(fix.setting) THEN <<>> ELSE With(ListAt(c, fix.setting), fix.entry)

NewValue(c, fix) ==
    IF Excludes(fix.setting) THEN WithoutNames(ListAt(c, fix.setting), fix.entry)
    ELSE With(ListAt(c, fix.setting), fix.entry)

(* A list left with no entry is left out of the file. *)
Edited(c, fix) ==
    LET value == NewValue(c, fix)
        keys == (DOMAIN c.lists \ {fix.setting}) \cup (IF value = <<>> THEN {} ELSE {fix.setting})
    IN  [c EXCEPT !.lists = [k \in keys |-> IF k = fix.setting THEN value ELSE c.lists[k]]]

-----------------------------------------------------------------------------
(* The connectors whose fixes do no harm.  The alternatives of a pattern   *)
(* begin alike, and a pattern that begins with a plain database name       *)
(* matches only names of that database, as it does when its dot is         *)
(* escaped.  A column or database exclude list goes by one of its two      *)
(* names.  A table exclude list decides nothing, and a column exclude list *)
(* nothing beside an include list: Parse keeps one key of them, which is   *)
(* the include list's, even when that holds only separators.               *)
IsEntry(entry) ==
    /\ IsSequence(entry)
    /\ \A a \in DOMAIN entry :
          LET alt == entry[a]
          IN  /\ alt = [ext |-> alt.ext, glob |-> alt.glob, db |-> alt.db]
              /\ alt.db = entry[1].db
              /\ alt.db # "" => \A q \in alt.ext : Head(q) = alt.db

IsList(value) ==
    IsSequence(value) /\ value # <<>> /\ \A e \in DOMAIN value : IsEntry(value[e])

IsContract(c) ==
    /\ c = [file |-> c.file, mysql |-> c.mysql, debezium |-> c.debezium,
            afterStateOnly |-> c.afterStateOnly, prefix |-> c.prefix,
            transforms |-> c.transforms, lists |-> c.lists]
    /\ \A k \in DOMAIN c.lists : IsList(c.lists[k])

OneName(c, keys) == ~(ToSet(keys) \subseteq DOMAIN c.lists)

Editable(inp) ==
    /\ IsInput(inp)
    /\ IsContract(inp.contract)
    /\ \A i \in DOMAIN inp.source : inp.source[i].schema # ""
    /\ OneName(inp.contract, ColumnExclude) /\ OneName(inp.contract, DbExclude)
    /\ ListOf(inp.contract, TableInclude) = {} => ListOf(inp.contract, TableExclude) = {}
    /\ ListOf(inp.contract, ColumnInclude) = {} =>
          KeyOf(inp.contract, ColumnInclude) = "" \/ ListOf(inp.contract, ColumnExclude) = {}

-----------------------------------------------------------------------------
Lint ==
    /\ Judge
    /\ UNCHANGED edited

(* The author makes one fix and runs the linter again. *)
MakeFix ==
    /\ answer # <<>>
    /\ \E f \in Fixable(answer[1]) :
          /\ input' = [input EXCEPT !.contract = Edited(@, f.fix)]
          /\ edited' = <<f>>
    /\ answer' = <<>>

Nothing2Fix == answer # <<>> /\ Fixable(answer[1]) = {} /\ UNCHANGED vars

Next == Lint \/ MakeFix \/ Nothing2Fix

(* The author keeps at it: a finding that can be fixed is fixed in the end. *)
Spec == Init /\ [][Next]_vars /\ WF_vars(Lint) /\ WF_vars(MakeFix)

-----------------------------------------------------------------------------
(* What the stream carries: every column of every captured table. *)
Carried(inp) ==
    {ic \in SourceColumns(inp) : Captured(inp, ic[1]) /\ ColumnCaptured(inp, ic[1], ic[2])}

(* Making the fix a finding names never takes out of the stream what was   *)
(* in it.  Which list is edited, and which way, depends on the kinds of    *)
(* list the connector has and on which of them blocks the table.           *)
FixKeepsCarried == [][Carried(input) \subseteq Carried(input')]_vars

(* A fix puts into the stream only the table or column the finding names,  *)
(* or what its other lists already let through of that table or database.  *)
FixStaysInTheTable ==
    [][\A f \in Fixable(IF answer = <<>> THEN {} ELSE answer[1]) :
          edited' = <<f>> /\ answer' = <<>> =>
            \A ic \in Carried(input') \ Carried(input) :
                \/ ic[1] = f.subject.table
                \/ f.fix.entry = {<<input.source[ic[1]].schema>>}]_vars

(* A fix leaves unqualified migrations where they are: the database they   *)
(* run in is guessed from the lists a fix edits.  As long as the stream    *)
(* carries a table of it, an edit may make the guess impossible, which     *)
(* stops the next run with advice, and never makes it another database.    *)
FixNeverMovesTables ==
    [][LET home == DefaultDatabase(input.contract)
       IN  /\ input.contract.mysql
           /\ \E ic \in Carried(input) : input.source[ic[1]].schema = home
           => DefaultDatabase(input'.contract) \in {home, ""}]_vars

(* Once its fix is made, a finding does not come back with the same fix:   *)
(* the edit was made to the list that was to blame.                        *)
FixedStaysFixed ==
    answer # <<>> /\ edited # <<>> => edited[1] \notin answer[1]

(* An author who keeps making fixes ends with no error about captures: a   *)
(* database list, a table list and a column list may each block in turn.   *)
FixesConverge == <>[](answer # <<>> => Fixable(answer[1]) = {})
=============================================================================
