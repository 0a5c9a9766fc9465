------------------------------ MODULE Verdict ------------------------------
(***************************************************************************)
(* What a run of the rules promises, and no more: on an input that stays   *)
(* as it is, one of the answers the input allows, in one step and for      *)
(* good.  Rules says which they are: every sink table is tied to one of    *)
(* the source tables that may feed it, and the answer is what all the      *)
(* rules find in that.  Engine, which runs them one after another and      *)
(* hands the diff rule's columns to the inventory, implements this.        *)
(***************************************************************************)
CONSTANT Answers(_)     \* the answers to an input

VARIABLES
    input,      \* engine.Input; the run reads it and never changes it
    answer      \* <<>> until the run ends, then <<the findings>>

verdictVars == <<input, answer>>

VerdictInit == answer = <<>>

Judge ==
    /\ answer = <<>>
    /\ \E found \in Answers(input) : answer' = <<found>>
    /\ UNCHANGED input

VerdictSpec == VerdictInit /\ [][Judge]_verdictVars
=============================================================================
