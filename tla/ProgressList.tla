----------------------------- MODULE ProgressList -----------------------------
(***************************************************************************)
(* The list of progresses that the progress service keeps and every other  *)
(* service writes to: Progress of rust/agama-utils/src/api/progress.rs and *)
(* the helpers of rust/agama-utils/src/progress/service.rs that look a     *)
(* progress up by its scope.  The names of the steps are left out.         *)
(***************************************************************************)
EXTENDS Naturals, Sequences, SequencesExt

\* Progress::new and Progress::new_with_steps: the index starts at 1 even
\* when there are no steps.
NewProgress(scope, size) == [scope |-> scope, size |-> size, index |-> 1]

HasProgress(ps, scope) == \E i \in DOMAIN ps : ps[i].scope = scope

PositionOf(ps, scope) ==
    CHOOSE i \in DOMAIN ps :
        ps[i].scope = scope /\ \A j \in 1 .. (i - 1) : ps[j].scope # scope

ProgressOf(ps, scope) == ps[PositionOf(ps, scope)]

\* Progress::advance fails (MissingStep) when there are no more steps.
CanAdvance(p) == p.index < p.size
Advanced(p) == [p EXCEPT !.index = @ + 1]

Added(ps, p) == Append(ps, p)
Replaced(ps, p) == [ps EXCEPT ![PositionOf(ps, p.scope)] = p]
Removed(ps, scope) == RemoveAt(ps, PositionOf(ps, scope))
=============================================================================
