-------------------------------- MODULE Lint --------------------------------
(***************************************************************************)
(* One invocation of the command (cmd/cdclint/main.go): read the base      *)
(* unless the diff rule is disabled, run the rules (Verdict), let markers  *)
(* acknowledge findings, leave out disabled rules, and exit.               *)
(***************************************************************************)
EXTENDS Rules, Ignore

CONSTANT Invocations    \* [input, base, markers, disabled, threshold], the input without its base

ASSUME InvocationsAssumption ==
    \A a \in Invocations :
        /\ a.input.base = <<>>
        /\ \A b \in {<<>>, a.base} : IsInput([a.input EXCEPT !.base = b])
        /\ a.threshold \in {Info, Warning, Error}
        /\ a.markers = [k \in 1..Len(a.markers) |-> a.markers[k]] /\ Len(a.markers) \in Nat
        /\ \A j, k \in DOMAIN a.markers :
              a.markers[j].pos = a.markers[k].pos => j = k

VARIABLES
    input,      \* what the rules run on
    answer,     \* <<>> until they have run, then <<their findings>>
    args,       \* the invocation: its flags and the files they name
    stage,      \* what the command does next
    kept,       \* findings that stand
    acked,      \* findings a marker acknowledged
    hidden,     \* findings --disable left out
    exit        \* the exit code, 0 until the end

vars == <<input, answer, args, stage, kept, acked, hidden, exit>>

INSTANCE Verdict

DiffRule == "schema-before-connector"

Init ==
    /\ args \in Invocations
    /\ VerdictInit
    /\ input = args.input
    /\ stage = "load"
    /\ kept = {} /\ acked = {} /\ hidden = {}
    /\ exit = 0

\* Mutant: the base is read, and the diff rule runs, although it is disabled.
LoadBase_Always ==
    /\ stage = "load"
    /\ input' = [input EXCEPT !.base = args.base]
    /\ stage' = "judge"
    /\ UNCHANGED <<answer, args, kept, acked, hidden, exit>>

(* Disabling the diff rule is the same as not giving --base. *)
LoadBase ==
    /\ stage = "load"
    /\ input' = [input EXCEPT !.base = IF DiffRule \in args.disabled THEN <<>> ELSE args.base]
    /\ stage' = "judge"
    /\ UNCHANGED <<answer, args, kept, acked, hidden, exit>>

RunRules ==
    /\ stage = "judge"
    /\ Judge
    /\ stage' = "mark"
    /\ UNCHANGED <<args, kept, acked, hidden, exit>>

(* The rules that ran this time. *)
Ran == (RuleNames \ args.disabled) \ (IF input.base = <<>> THEN {DiffRule} ELSE {})

\* Mutant: disabled rules are left out before the markers are applied.
ApplyMarkers_AfterDisable ==
    /\ stage = "mark"
    /\ LET enabled == {f \in answer[1] : f.rule \notin args.disabled}
       IN  /\ kept' = Kept(enabled, args.markers, RuleNames, {DiffRule})
           /\ acked' = Acknowledged(enabled, args.markers)
    /\ stage' = "filter"
    /\ UNCHANGED <<input, answer, args, hidden, exit>>

\* Mutant: acknowledged findings of disabled rules are shown.
ApplyMarkers_ShowsDisabled ==
    /\ stage = "mark"
    /\ kept' = Kept(answer[1], args.markers, Ran, {DiffRule})
    /\ acked' = Acknowledged(answer[1], args.markers)
    /\ stage' = "filter"
    /\ UNCHANGED <<input, answer, args, hidden, exit>>

(* Markers come before --disable, so that one for a disabled rule is not   *)
(* stale; what they acknowledged of a disabled rule is left out as well.   *)
ApplyMarkers ==
    /\ stage = "mark"
    /\ kept' = Kept(answer[1], args.markers, Ran, {DiffRule})
    /\ acked' = {f \in Acknowledged(answer[1], args.markers) : f.rule \notin args.disabled}
    /\ stage' = "filter"
    /\ UNCHANGED <<input, answer, args, hidden, exit>>

Without ==
    /\ stage = "filter"
    /\ kept' = {f \in kept : f.rule \notin args.disabled}
    /\ hidden' = {f \in kept : f.rule \in args.disabled}
    /\ stage' = "report"
    /\ UNCHANGED <<input, answer, args, acked, exit>>

Report ==
    /\ stage = "report"
    /\ exit' = IF \E f \in kept : f.severity >= args.threshold THEN 1 ELSE 0
    /\ stage' = "end"
    /\ UNCHANGED <<input, answer, args, kept, acked, hidden>>

Exited == stage = "end" /\ UNCHANGED vars

Next == LoadBase \/ RunRules \/ ApplyMarkers \/ Without \/ Report \/ Exited

Spec == Init /\ [][Next]_vars
-----------------------------------------------------------------------------
(* The values of the variables, and where a finding may be at each stage:  *)
(* hidden ones are of disabled rules, acknowledged ones of enabled rules.  *)
LintTypeOK ==
    /\ args \in Invocations
    /\ stage \in {"load", "judge", "mark", "filter", "report", "end"}
    /\ \A f \in kept \cup acked \cup hidden :
          f.rule \in RuleNames /\ f.severity \in {Info, Warning, Error}
    /\ \A f \in hidden : f.rule \in args.disabled
    /\ \A f \in acked : f.rule \notin args.disabled
    /\ exit \in {0, 1}

(* A finding at or above --fail-on gets past only by being disabled, or by *)
(* a well-formed marker for its rule on its own line or alone on the line  *)
(* above: whatever the other markers say, exit 0 means each one was        *)
(* decided on purpose.                                                     *)
NothingEscapes ==
    stage = "end" /\ exit = 0 =>
        \A f \in answer[1] :
            \/ f.severity < args.threshold
            \/ f.rule \in args.disabled
            \/ \E m \in ToSet(args.markers) :
                  /\ m.reason /\ f.rule \in m.rules /\ m.rules \subseteq RuleNames
                  /\ m.pos.file = f.pos.file
                  /\ f.pos.line = IF m.alone THEN m.pos.line + 1 ELSE m.pos.line

(* --disable only hides: against the same run with nothing disabled, what  *)
(* is printed has nothing new, and what is missing is of a disabled rule   *)
(* or the staleness of a marker that names one.  The diff rule is apart:   *)
(* disabling it means another run, without a base.                         *)
DisableOnlyHides ==
    stage = "end" /\ DiffRule \notin args.disabled =>
        LET ran == IF input.base = <<>> THEN RuleNames \ {DiffRule} ELSE RuleNames
            all == Kept(answer[1], args.markers, ran, {DiffRule})
            Excused(f) == \/ f.rule \in args.disabled
                          \/ \E m \in ToSet(args.markers) :
                                m.pos = f.pos /\ m.rules \cap args.disabled # {}
        IN  kept \subseteq all /\ \A f \in all \ kept : Excused(f)

(* Disabling the diff rule never loses a column: one the connector leaves  *)
(* out is still printed or acknowledged under the rules that can name it,  *)
(* as the comment in run says filtering afterwards would not ensure.       *)
LeftOutNeverVanishes ==
    stage = "end" /\ {"sink-column-not-captured", "source-column-not-captured"}
                         \cap args.disabled = {} =>
        \A ic \in LeftOut(input) :
            \E f \in kept \cup acked : f.subject.table = ic[1] /\ f.subject.column = ic[2]

(* The markers the run printed a warning about, and the others. *)
Reported(m) == \E f \in kept : f.rule = "ignore-marker" /\ f.pos = m.pos

(* Every reported marker can be deleted: what is acknowledged would still  *)
(* be so by a marker that stays.                                           *)
ReportedMarkersAreUseless ==
    stage = "end" =>
        \A f \in Acknowledged(answer[1], args.markers) :
            \E m \in ToSet(args.markers) : ~Reported(m) /\ Acknowledges(m, f)
=============================================================================
