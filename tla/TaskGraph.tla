------------------------------ MODULE TaskGraph ------------------------------
(***************************************************************************)
(* What the task manager of the Agama manager service promises to the code *)
(* that submits tasks (rust/agama-manager/src/task_manager.rs, the         *)
(* documentation of TaskBuilder::run and TaskBuilder::run_always): a graph *)
(* of tasks in which                                                       *)
(*   - a task starts only when every task it depends on has an outcome,    *)
(*   - a task submitted with "run" is cancelled, and counts as failed,     *)
(*     exactly when one of its dependencies failed,                        *)
(*   - a task submitted with "run_always" starts in any case,              *)
(*   - every submitted task gets one outcome, once.                        *)
(* There are no locks, wake-ups, events or local variables here.           *)
(***************************************************************************)
EXTENDS Naturals

CONSTANT TaskIds        \* the ids the manager may hand out

VARIABLES outcome,      \* what is known of each task
          deps,         \* the tasks each task depends on
          always        \* whether it was submitted with run_always

graphVars == <<outcome, deps, always>>

Failed == {"failed", "cancelled"}
Resolved == {"ok"} \union Failed
Outcome == {"absent", "pending", "running"} \union Resolved

TypeOK ==
    /\ outcome \in [TaskIds -> Outcome]
    /\ deps \in [TaskIds -> SUBSET TaskIds]
    /\ always \in [TaskIds -> BOOLEAN]

Init ==
    /\ outcome = [id \in TaskIds |-> "absent"]
    /\ deps = [id \in TaskIds |-> {}]
    /\ always = [id \in TaskIds |-> FALSE]

\* Whether every dependency of a task has an outcome, and those that failed.
DepsResolved(id) == \A d \in deps[id] : outcome[d] \in Resolved
FailedDeps(id) == {d \in deps[id] : outcome[d] \in Failed}

\* Nothing but what was submitted before can be named as a dependency.
Add(id, ds, a) ==
    /\ outcome[id] = "absent"
    /\ \A d \in ds : outcome[d] # "absent"
    /\ outcome' = [outcome EXCEPT ![id] = "pending"]
    /\ deps' = [deps EXCEPT ![id] = ds]
    /\ always' = [always EXCEPT ![id] = a]

Start(id) ==
    /\ outcome[id] = "pending"
    /\ DepsResolved(id)
    /\ always[id] \/ FailedDeps(id) = {}
    /\ outcome' = [outcome EXCEPT ![id] = "running"]
    /\ UNCHANGED <<deps, always>>

Cancel(id) ==
    /\ outcome[id] = "pending"
    /\ DepsResolved(id)
    /\ ~always[id] /\ FailedDeps(id) # {}
    /\ outcome' = [outcome EXCEPT ![id] = "cancelled"]
    /\ UNCHANGED <<deps, always>>

Complete(id) ==
    /\ outcome[id] = "running"
    /\ \E r \in {"ok", "failed"} : outcome' = [outcome EXCEPT ![id] = r]
    /\ UNCHANGED <<deps, always>>

Resolve(id) == Start(id) \/ Cancel(id) \/ Complete(id)

Next ==
    \E id \in TaskIds :
        \/ \E ds \in SUBSET (TaskIds \ {id}), a \in BOOLEAN : Add(id, ds, a)
        \/ Resolve(id)

Fairness == \A id \in TaskIds : WF_graphVars(Resolve(id))

SafeSpec == Init /\ [][Next]_graphVars
Spec == SafeSpec /\ Fairness
=============================================================================
