----------------------------- MODULE TaskManager -----------------------------
(***************************************************************************)
(* The task manager of the Agama manager service,                          *)
(* rust/agama-manager/src/task_manager.rs.                                 *)
(*                                                                         *)
(* The manager runs the steps of an installation as tokio tasks that wait  *)
(* for each other.  The clones of a TaskManager share one state behind an  *)
(* RwLock; every critical section of the code is one action here, and what *)
(* the code does between two critical sections is interleaved with the     *)
(* actions of the other tasks.  The variable pc says where in              *)
(* spawn_task_internal (and in the function that called it) a task is.     *)
(*                                                                         *)
(* The work of a task is abstract: it ends, with success or with an error. *)
(***************************************************************************)
EXTENDS Naturals, Sequences, FiniteSets

CONSTANTS MaxTasks,     \* bound on the ids that next_id hands out
          MaxCallers    \* bound on the calls of run that overlap

ASSUME BoundsAssumption == MaxTasks \in Nat /\ MaxCallers \in Nat

TaskIds == 0 .. (MaxTasks - 1)

VARIABLES
    next_id,        \* TaskManagerState.next_id, the first free id
    succeeded,      \* TaskManagerState.succeeded
    failed,         \* TaskManagerState.failed
    metadata,       \* the keys of TaskManagerState.metadata
    deps,           \* per task, TaskBuilder.dependencies
    run_always,     \* per task, whether it was submitted with run_always
    failed_deps,    \* per task, the local of the same name
    pc,             \* per task, the point its code has reached
    events          \* everything sent to the events channel, in order

vars == <<next_id, succeeded, failed, metadata, deps, run_always,
          failed_deps, pc, events>>

(***************************************************************************)
(* The points of a task's life.                                            *)
(*   "unused"    the id has not been handed out                            *)
(*   "named"     next_id returned it, its metadata is not stored yet       *)
(*   "stored"    metadata stored, TaskAdded not sent yet                   *)
(*   "waiting"   spawned, about to look at its dependencies                *)
(*   "parked"    holds a Notified future and awaits it                     *)
(*   "resolved"  left the loop with the list of failed dependencies        *)
(*   "running"   TaskStarted sent, executing its work                      *)
(* and the three ways of ending.                                           *)
(***************************************************************************)
Submitting == {"named", "stored"}
Pending == {"waiting", "parked", "resolved"}
Ended == {"succeeded", "failed", "cancelled"}
PC == {"unused", "running"} \union Submitting \union Pending \union Ended

TaskAdded(id) == [type |-> "TaskAdded", task |-> id]
TaskStarted(id) == [type |-> "TaskStarted", task |-> id]
TaskFinished(id, n) == [type |-> "TaskFinished", task |-> id, remaining |-> n]

Event ==
    [type : {"TaskAdded", "TaskStarted"}, task : TaskIds]
      \union [type : {"TaskFinished"}, task : TaskIds, remaining : Nat]

Send(e) == events' = Append(events, e)

TypeOK ==
    /\ next_id \in 0 .. MaxTasks
    /\ succeeded \in SUBSET TaskIds
    /\ failed \in SUBSET TaskIds
    /\ metadata \in SUBSET TaskIds
    /\ deps \in [TaskIds -> SUBSET TaskIds]
    /\ run_always \in [TaskIds -> BOOLEAN]
    /\ failed_deps \in [TaskIds -> SUBSET TaskIds]
    /\ pc \in [TaskIds -> PC]
    /\ events \in Seq(Event)

Init ==
    /\ next_id = 0
    /\ succeeded = {}
    /\ failed = {}
    /\ metadata = {}
    /\ deps = [id \in TaskIds |-> {}]
    /\ run_always = [id \in TaskIds |-> FALSE]
    /\ failed_deps = [id \in TaskIds |-> {}]
    /\ pc = [id \in TaskIds |-> "unused"]
    /\ events = <<>>

-----------------------------------------------------------------------------
(* The caller's side: TaskBuilder::run and TaskBuilder::run_always.        *)

\* The ids a caller can name: those that an earlier run has returned.
Returned == {id \in TaskIds : pc[id] \notin {"unused"} \union Submitting}

\* next_id(), in a critical section of its own.
NextId(id, ds, always) ==
    /\ id = next_id
    /\ ds \subseteq Returned
    /\ Cardinality({i \in TaskIds : pc[i] \in Submitting}) < MaxCallers
    /\ next_id' = next_id + 1
    /\ deps' = [deps EXCEPT ![id] = ds]
    /\ run_always' = [run_always EXCEPT ![id] = always]
    /\ pc' = [pc EXCEPT ![id] = "named"]
    /\ UNCHANGED <<succeeded, failed, metadata, failed_deps, events>>

\* A bug to try: the metadata is stored under the next free id.
StoreMetadataShifted(id) ==
    /\ pc[id] = "named"
    /\ metadata' = metadata \union {next_id}
    /\ pc' = [pc EXCEPT ![id] = "stored"]
    /\ UNCHANGED <<next_id, succeeded, failed, deps, run_always, failed_deps, events>>

\* The first critical section of spawn_task_internal.
StoreMetadata(id) ==
    /\ pc[id] = "named"
    /\ metadata' = metadata \union {id}
    /\ pc' = [pc EXCEPT ![id] = "stored"]
    /\ UNCHANGED <<next_id, succeeded, failed, deps, run_always, failed_deps, events>>

\* TaskAdded is sent without the lock; then tokio::spawn, and run returns.
Spawn(id) ==
    /\ pc[id] = "stored"
    /\ Send(TaskAdded(id))
    /\ pc' = [pc EXCEPT ![id] = "waiting"]
    /\ UNCHANGED <<next_id, succeeded, failed, metadata, deps, run_always, failed_deps>>

-----------------------------------------------------------------------------
(* The spawned tokio task.                                                 *)

\* A bug to try: one finished dependency is enough.
AnyDepDone(id) == \/ deps[id] = {}
                  \/ \E d \in deps[id] : d \in succeeded \/ d \in failed

AllDepsDone(id) == \A d \in deps[id] : d \in succeeded \/ d \in failed

\* One round of the loop, under the read guard: either the loop is left...
LeaveLoop(id) ==
    /\ pc[id] = "waiting"
    /\ AllDepsDone(id)
    /\ failed_deps' = [failed_deps EXCEPT ![id] = deps[id] \intersect failed]
    /\ pc' = [pc EXCEPT ![id] = "resolved"]
    /\ UNCHANGED <<next_id, succeeded, failed, metadata, deps, run_always, events>>

\* ... or a Notified future is created before the guard is dropped, so that
\* any later notify_waiters completes it.
Park(id) ==
    /\ pc[id] = "waiting"
    /\ ~AllDepsDone(id)
    /\ pc' = [pc EXCEPT ![id] = "parked"]
    /\ UNCHANGED <<next_id, succeeded, failed, metadata, deps, run_always,
                   failed_deps, events>>

\* A bug to try: notify_one instead of notify_waiters.
NotifyOne(p) ==
    IF \E i \in TaskIds : p[i] = "parked"
    THEN [p EXCEPT ![CHOOSE i \in TaskIds : p[i] = "parked"] = "waiting"]
    ELSE p

\* notify_waiters(): every task that awaits its Notified goes round again.
NotifyWaiters(p) == [i \in TaskIds |-> IF p[i] = "parked" THEN "waiting" ELSE p[i]]

\* What both ways of ending do under the write lock, the TaskFinished event
\* included: wake the waiters up, drop the metadata, count what is left.
Leave(id, phase) ==
    /\ pc' = NotifyWaiters([pc EXCEPT ![id] = phase])
    /\ metadata' = metadata \ {id}
    /\ Send(TaskFinished(id, Cardinality(metadata')))
    /\ UNCHANGED <<next_id, deps, run_always, failed_deps>>

\* A bug to try: the cancelled task is recorded as succeeded.
CancelAsSuccess(id) ==
    /\ pc[id] = "resolved"
    /\ ~run_always[id] /\ failed_deps[id] # {}
    /\ succeeded' = succeeded \union {id}
    /\ UNCHANGED failed
    /\ Leave(id, "cancelled")

\* A bug to try: the early return forgets the tasks that wait for this one.
CancelSilently(id) ==
    /\ pc[id] = "resolved"
    /\ ~run_always[id] /\ failed_deps[id] # {}
    /\ failed' = failed \union {id}
    /\ metadata' = metadata \ {id}
    /\ pc' = [pc EXCEPT ![id] = "cancelled"]
    /\ Send(TaskFinished(id, Cardinality(metadata')))
    /\ UNCHANGED <<next_id, succeeded, deps, run_always, failed_deps>>

\* A failed dependency cancels a task submitted with run.
Cancel(id) ==
    /\ pc[id] = "resolved"
    /\ ~run_always[id] /\ failed_deps[id] # {}
    /\ failed' = failed \union {id}
    /\ UNCHANGED succeeded
    /\ Leave(id, "cancelled")

\* A bug to try: the failed dependencies are reported, but do not cancel.
StartRegardless(id) ==
    /\ pc[id] = "resolved"
    /\ Send(TaskStarted(id))
    /\ pc' = [pc EXCEPT ![id] = "running"]
    /\ UNCHANGED <<next_id, succeeded, failed, metadata, deps, run_always, failed_deps>>

Start(id) ==
    /\ pc[id] = "resolved"
    /\ run_always[id] \/ failed_deps[id] = {}
    /\ Send(TaskStarted(id))
    /\ pc' = [pc EXCEPT ![id] = "running"]
    /\ UNCHANGED <<next_id, succeeded, failed, metadata, deps, run_always, failed_deps>>

\* The work returned Ok(()) or an error.
Succeed(id) ==
    /\ pc[id] = "running"
    /\ succeeded' = succeeded \union {id}
    /\ UNCHANGED failed
    /\ Leave(id, "succeeded")

Fail(id) ==
    /\ pc[id] = "running"
    /\ failed' = failed \union {id}
    /\ UNCHANGED succeeded
    /\ Leave(id, "failed")

-----------------------------------------------------------------------------
Submit ==
    \E id \in TaskIds :
        \/ \E ds \in SUBSET TaskIds, always \in BOOLEAN : NextId(id, ds, always)
        \/ StoreMetadata(id)
        \/ Spawn(id)

\* A task's code is sequential: at most one of these is enabled for an id.
TaskStep(id) ==
    \/ LeaveLoop(id) \/ Park(id)
    \/ Cancel(id) \/ Start(id)
    \/ Succeed(id) \/ Fail(id)

Next == Submit \/ \E id \in TaskIds : TaskStep(id)

\* The runtime polls every ready task, the work of a task ends, and a caller
\* that took an id goes on to spawn its task.  Nobody has to submit a task.
Fairness ==
    \A id \in TaskIds :
        /\ WF_vars(StoreMetadata(id) \/ Spawn(id))
        /\ WF_vars(TaskStep(id))

SafeSpec == Init /\ [][Next]_vars
Spec == SafeSpec /\ Fairness

-----------------------------------------------------------------------------
(* Properties.                                                             *)

\* A task never sleeps on a dependency that is already decided: whenever a
\* task is parked, some dependency is still to call notify_waiters.  This is
\* what creating the Notified under the read guard is for.
NoLostWakeup ==
    \A id \in TaskIds : pc[id] = "parked" => ~AllDepsDone(id)

\* The outcome of a task submitted with run agrees with those of its
\* dependencies: if it ran, they all succeeded; if it was cancelled, one
\* of them is recorded as failed, whatever happened in between.
FailurePropagates ==
    \A id \in TaskIds :
        /\ pc[id] \in {"running", "succeeded", "failed"} /\ ~run_always[id]
              => deps[id] \subseteq succeeded
        /\ pc[id] = "cancelled" => deps[id] \intersect failed # {}

\* Positions of the events of a task in the channel.
Position(type, id) == {k \in DOMAIN events : events[k].type = type /\ events[k].task = id}

\* A client that reads the events in order learns of the end of every
\* dependency before it learns of the start of a task, and never sees a task
\* start or finish that it was not told of: the finished event is sent under
\* the lock that publishes the outcome.
EventsFollowGraph ==
    \A k \in DOMAIN events :
        LET id == events[k].task
        IN /\ events[k].type # "TaskAdded" => \E j \in Position("TaskAdded", id) : j < k
           /\ events[k].type = "TaskStarted" =>
                 \A d \in deps[id] : \E j \in Position("TaskFinished", d) : j < k
           /\ Cardinality(Position(events[k].type, id)) = 1

\* Every task whose id was handed out ends, whatever fails around it.
EveryTaskEnds ==
    \A id \in TaskIds : (pc[id] # "unused") ~> (id \in succeeded \union failed)

-----------------------------------------------------------------------------
(* The task manager implements the graph of tasks.                         *)

OutcomeOf ==
    [id \in TaskIds |->
        CASE id \in succeeded -> "ok"
          [] id \in failed -> IF pc[id] = "cancelled" THEN "cancelled" ELSE "failed"
          [] OTHER -> IF pc[id] = "unused" THEN "absent"
                      ELSE IF pc[id] = "running" THEN "running" ELSE "pending"]

Graph == INSTANCE TaskGraph WITH outcome <- OutcomeOf, always <- run_always

ImplementsGraph == Graph!Spec
=============================================================================
