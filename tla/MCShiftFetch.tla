---------------------------- MODULE MCShiftFetch ----------------------------
(***************************************************************************)
(* ShiftFetch.tla on every archive of up to Longest records, a calendar of *)
(* three short months and windows that start and end inside, on and        *)
(* outside a month's edge.                                                 *)
(***************************************************************************)
EXTENDS ShiftFetch, SequencesExt

CONSTANT Longest

MCMonthStart == <<1, 3, 6, 9>>

InOrder(s) == \A i, j \in DOMAIN s : i < j => s[i] <= s[j]
MCArchives == {s \in BoundedSeq(2 .. 5, Longest) : InOrder(s)}

MCSpans == {[after |-> 0, before |-> 0], [after |-> 2, before |-> 5], [after |-> 6, before |-> 4],
            [after |-> 3, before |-> 6]}
=============================================================================
