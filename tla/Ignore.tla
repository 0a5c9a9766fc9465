------------------------------- MODULE Ignore -------------------------------
(***************************************************************************)
(* cdclint:ignore markers (internal/ignore/ignore.go): which findings one  *)
(* acknowledges, and which markers are reported themselves.                *)
(*                                                                         *)
(* A marker is [pos, rules, reason, alone]: the set of rules it names,     *)
(* whether it gives a reason, and whether it stands on a line of its own.  *)
(* markers is the sequence Scan found, in file and line order.             *)
(***************************************************************************)
EXTENDS Rules

\* Mutant: a marker after code reaches the next line as well.
Covers_NextLineToo(m, line) ==
    \/ line = m.pos.line + 1
    \/ ~m.alone /\ line = m.pos.line

(* A marker on a line of its own covers the line below, another its own. *)
Covers(m, line) == line = IF m.alone THEN m.pos.line + 1 ELSE m.pos.line

Valid(m) == m.reason /\ m.rules # {} /\ m.rules \subseteq RuleNames

Acknowledges(m, f) ==
    /\ Valid(m)
    /\ m.pos.file = f.pos.file
    /\ Covers(m, f.pos.line)
    /\ f.rule \in m.rules

(* The first marker that acknowledges f; 0 when none does.  Only that one  *)
(* counts as used.                                                         *)
By(markers, f) == SelectInSeq(markers, LAMBDA m : Acknowledges(m, f))

Acknowledged(findings, markers) == {f \in findings : By(markers, f) # 0}

Used(findings, markers) == {By(markers, f) : f \in findings} \ {0}

(* Every rule the marker names ran and judges the state, not the change. *)
JudgedNow(m, ran, diffRules) == m.rules \subseteq ran \ diffRules

Problem(m) ==
    Finding("ignore-marker", Warning, m.pos, Subject(0, <<>>, 0, ""), NoFix)

\* Mutant: a marker is stale as soon as one of its rules covers nothing.
Problems_PerRule(findings, markers, ran, diffRules) ==
    {Problem(markers[k]) :
        k \in {j \in DOMAIN markers :
                 \/ ~Valid(markers[j])
                 \/ /\ JudgedNow(markers[j], ran, diffRules)
                    /\ \E r \in markers[j].rules :
                          ~\E f \in findings : f.rule = r /\ Acknowledges(markers[j], f)}}

Problems(findings, markers, ran, diffRules) ==
    {Problem(markers[k]) :
        k \in {j \in DOMAIN markers :
                 \/ ~Valid(markers[j])
                 \/ j \notin Used(findings, markers) /\ JudgedNow(markers[j], ran, diffRules)}}

(* What stands after the markers had their say. *)
Kept(findings, markers, ran, diffRules) ==
    (findings \ Acknowledged(findings, markers))
        \cup Problems(findings, markers, ran, diffRules)
=============================================================================
