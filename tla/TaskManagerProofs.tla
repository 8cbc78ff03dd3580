-------------------------- MODULE TaskManagerProofs --------------------------
(***************************************************************************)
(* Proofs about the task manager, for any number of tasks and callers.     *)
(*                                                                         *)
(* None of the properties is inductive as it stands: that a parked task    *)
(* has an undecided dependency says nothing of who is about to decide it,  *)
(* and a task that runs reads its failed_deps, a copy made earlier.  IInv  *)
(* ties the three sets of the shared state to the points of the tasks'     *)
(* code, and says that what a task read when it left the loop is still     *)
(* true: an outcome, once recorded, never changes.                         *)
(***************************************************************************)
EXTENDS TaskManager, FiniteSetTheorems, TLAPS

\* The shared state is a function of how far each task has gone.
StateMatchesPC ==
    /\ \A id \in TaskIds : pc[id] = "unused" <=> id >= next_id
    /\ succeeded = {id \in TaskIds : pc[id] = "succeeded"}
    /\ failed = {id \in TaskIds : pc[id] \in {"failed", "cancelled"}}

\* Dependencies were returned by an earlier run, and are never the task itself.
DepsReturned ==
    \A id \in TaskIds : /\ deps[id] \subseteq Returned
                        /\ pc[id] = "unused" => deps[id] = {}

\* What a task found when it left the loop still holds.
ReadIsStable ==
    \A id \in TaskIds :
        pc[id] \in {"resolved", "running"} \union Ended =>
            /\ AllDepsDone(id)
            /\ failed_deps[id] = deps[id] \intersect failed

\* What a task did agrees with what it found.
DecisionFollowsRead ==
    \A id \in TaskIds :
        /\ pc[id] \in {"running", "succeeded", "failed"} =>
              run_always[id] \/ failed_deps[id] = {}
        /\ pc[id] = "cancelled" => ~run_always[id] /\ failed_deps[id] # {}

IInv ==
    /\ TypeOK
    /\ StateMatchesPC
    /\ DepsReturned
    /\ ReadIsStable
    /\ DecisionFollowsRead
    /\ NoLostWakeup

-----------------------------------------------------------------------------
\* The number of pending tasks that TaskFinished reports is a number.
LEMMA CountIsNat ==
    ASSUME NEW S \in SUBSET TaskIds
    PROVE  Cardinality(S) \in Nat
<1>1. IsFiniteSet(TaskIds)
  <2>1. 0 \in Int /\ MaxTasks - 1 \in Int
    BY BoundsAssumption
  <2>2. QED
    BY <2>1, FS_Interval DEF TaskIds
<1>2. IsFiniteSet(S)
  BY <1>1, FS_Subset
<1>3. QED
  BY <1>2, FS_CardinalityType

\* The log of events grows by well-formed events.
LEMMA SendTyped ==
    ASSUME events \in Seq(Event), NEW e \in Event, Send(e)
    PROVE  events' \in Seq(Event)
BY DEF Send

\* Ending a task keeps the types: pc loses its parked tasks, and the event
\* carries a natural number.
LEMMA LeaveTyped ==
    ASSUME TypeOK, NEW id \in TaskIds, NEW phase \in Ended, Leave(id, phase)
    PROVE  /\ pc' \in [TaskIds -> PC]
           /\ metadata' \in SUBSET TaskIds
           /\ events' \in Seq(Event)
<1>1. metadata' \in SUBSET TaskIds
  BY DEF TypeOK, Leave
<1>2. TaskFinished(id, Cardinality(metadata')) \in Event
  BY <1>1, CountIsNat DEF TaskFinished, Event
<1>3. events' \in Seq(Event)
  BY <1>2, SendTyped DEF Leave, TypeOK
<1>4. pc' \in [TaskIds -> PC]
  BY DEF TypeOK, Leave, NotifyWaiters, PC, Ended, Pending, Submitting
<1>5. QED
  BY <1>1, <1>3, <1>4

\* TypeOK is inductive: every action keeps every variable in its type.
LEMMA TypeStep ==
    ASSUME TypeOK, [Next]_vars
    PROVE  TypeOK'
<1> USE DEF TypeOK
<1>1. ASSUME NEW id \in TaskIds, NEW ds \in SUBSET TaskIds, NEW a \in BOOLEAN,
             NextId(id, ds, a)
      PROVE  TypeOK'
  <2>1. next_id' \in 0 .. MaxTasks
    BY <1>1, BoundsAssumption DEF NextId, TaskIds
  <2>2. pc' \in [TaskIds -> PC]
    BY <1>1 DEF NextId, PC, Submitting
  <2>3. deps' \in [TaskIds -> SUBSET TaskIds] /\ run_always' \in [TaskIds -> BOOLEAN]
    BY <1>1 DEF NextId
  <2>4. QED
    BY <1>1, <2>1, <2>2, <2>3 DEF NextId
<1>2. ASSUME NEW id \in TaskIds, StoreMetadata(id)
      PROVE  TypeOK'
  BY <1>2 DEF StoreMetadata, PC, Submitting
<1>3. ASSUME NEW id \in TaskIds, Spawn(id)
      PROVE  TypeOK'
  <2>1. TaskAdded(id) \in Event
    BY DEF TaskAdded, Event
  <2>2. events' \in Seq(Event)
    BY <1>3, <2>1, SendTyped DEF Spawn
  <2>3. QED
    BY <1>3, <2>2 DEF Spawn, PC, Pending
<1>4. ASSUME NEW id \in TaskIds, LeaveLoop(id)
      PROVE  TypeOK'
  BY <1>4 DEF LeaveLoop, PC, Pending
<1>5. ASSUME NEW id \in TaskIds, Park(id)
      PROVE  TypeOK'
  BY <1>5 DEF Park, PC, Pending
<1>6. ASSUME NEW id \in TaskIds, Start(id)
      PROVE  TypeOK'
  <2>1. TaskStarted(id) \in Event
    BY DEF TaskStarted, Event
  <2>2. events' \in Seq(Event)
    BY <1>6, <2>1, SendTyped DEF Start
  <2>3. QED
    BY <1>6, <2>2 DEF Start, PC
<1>7. ASSUME NEW id \in TaskIds, Cancel(id) \/ Succeed(id) \/ Fail(id)
      PROVE  TypeOK'
  <2>1. \E phase \in Ended : Leave(id, phase)
    BY <1>7 DEF Cancel, Succeed, Fail, Ended
  <2>2. /\ pc' \in [TaskIds -> PC]
        /\ metadata' \in SUBSET TaskIds
        /\ events' \in Seq(Event)
    BY <2>1, LeaveTyped
  <2>3. /\ succeeded' \in SUBSET TaskIds
        /\ failed' \in SUBSET TaskIds
    BY <1>7 DEF Cancel, Succeed, Fail
  <2>4. UNCHANGED <<next_id, deps, run_always, failed_deps>>
    BY <2>1 DEF Leave
  <2>5. QED
    BY <2>2, <2>3, <2>4
<1>8. CASE UNCHANGED vars
  BY <1>8 DEF vars
<1>9. QED
  BY <1>1, <1>2, <1>3, <1>4, <1>5, <1>6, <1>7, <1>8 DEF Next, Submit, TaskStep

\* Every variable stays in its type (TaskManagerState and the locals of
\* spawn_task_internal).
THEOREM TypeCorrect == Spec => []TypeOK
<1>1. Init => TypeOK
  BY BoundsAssumption DEF Init, TypeOK, PC
<1>2. TypeOK /\ [Next]_vars => TypeOK'
  BY TypeStep
<1>3. QED
  BY <1>1, <1>2, PTL DEF Spec, SafeSpec

-----------------------------------------------------------------------------
\* Ending a task changes the point of that task and of those that were
\* parked, and of no other.
LEMMA LeaveMoves ==
    ASSUME TypeOK, NEW id \in TaskIds, NEW phase \in Ended, Leave(id, phase)
    PROVE  /\ pc'[id] = phase
           /\ \A i \in TaskIds \ {id} :
                 \/ pc'[i] = pc[i] /\ pc[i] # "parked"
                 \/ pc[i] = "parked" /\ pc'[i] = "waiting"
BY DEF TypeOK, Leave, NotifyWaiters, Ended

\* The steps that end a task, seen from the shared state: the task leaves
\* "running" or "resolved" and its outcome is recorded, nothing else is.
LEMMA EndStep ==
    ASSUME IInv, NEW id \in TaskIds, Cancel(id) \/ Succeed(id) \/ Fail(id)
    PROVE  /\ StateMatchesPC'
           /\ DepsReturned'
           /\ ReadIsStable'
           /\ DecisionFollowsRead'
           /\ NoLostWakeup'
<1> DEFINE out == IF Cancel(id) THEN "cancelled" ELSE IF Succeed(id) THEN "succeeded" ELSE "failed"
<1> USE DEF IInv
<1>1. /\ out \in Ended
      /\ Leave(id, out)
      /\ pc[id] \in {"resolved", "running"}
      /\ pc[id] = "resolved" => out = "cancelled" /\ ~run_always[id] /\ failed_deps[id] # {}
      /\ pc[id] = "running" => out # "cancelled"
      /\ succeeded' = IF out = "succeeded" THEN succeeded \union {id} ELSE succeeded
      /\ failed' = IF out = "succeeded" THEN failed ELSE failed \union {id}
  BY DEF Cancel, Succeed, Fail, Ended
<1> HIDE DEF out
<1>2. /\ pc'[id] = out
      /\ \A i \in TaskIds \ {id} :
            \/ pc'[i] = pc[i] /\ pc[i] # "parked"
            \/ pc[i] = "parked" /\ pc'[i] = "waiting"
  BY <1>1, LeaveMoves
<1>3. UNCHANGED <<next_id, deps, run_always, failed_deps>>
  BY <1>1 DEF Leave
<1>4. StateMatchesPC'
  <2>1. \A i \in TaskIds : pc'[i] = "unused" <=> i >= next_id
    BY <1>1, <1>2 DEF StateMatchesPC, Ended
  <2>2. succeeded' = {i \in TaskIds : pc'[i] = "succeeded"}
    BY <1>1, <1>2 DEF StateMatchesPC, Ended
  <2>3. failed' = {i \in TaskIds : pc'[i] \in {"failed", "cancelled"}}
    BY <1>1, <1>2 DEF StateMatchesPC, Ended
  <2>4. QED
    BY <2>1, <2>2, <2>3, <1>3 DEF StateMatchesPC
<1>5. DepsReturned'
  <2>1. Returned \subseteq Returned'
    BY <1>1, <1>2 DEF Returned, Submitting, Ended
  <2>2. QED
    BY <1>1, <1>2, <1>3, <2>1 DEF DepsReturned, Ended, TypeOK
<1>6. ASSUME NEW i \in TaskIds, pc'[i] \in {"resolved", "running"} \union Ended
      PROVE  /\ pc[i] \in {"resolved", "running"} \union Ended
             /\ AllDepsDone(i) /\ AllDepsDone(i)'
             /\ failed_deps'[i] = deps'[i] \intersect failed'
  <2>1. pc[i] \in {"resolved", "running"} \union Ended
    BY <1>1, <1>2, <1>6 DEF Ended
  <2>2. AllDepsDone(i) /\ failed_deps[i] = deps[i] \intersect failed
    BY <2>1 DEF ReadIsStable
  <2>3. id \notin deps[i]
    BY <2>2, <1>1 DEF AllDepsDone, StateMatchesPC
  <2>4. QED
    BY <1>1, <1>3, <2>1, <2>2, <2>3 DEF AllDepsDone
<1>7. ReadIsStable'
  BY <1>6 DEF ReadIsStable
<1>8. DecisionFollowsRead'
  BY <1>1, <1>2, <1>3 DEF DecisionFollowsRead, Ended
<1>9. NoLostWakeup'
  BY <1>1, <1>2 DEF NoLostWakeup, Ended
<1>10. QED
  BY <1>4, <1>5, <1>7, <1>8, <1>9

\* The inductive invariant is preserved by every step.
LEMMA IInvStep ==
    ASSUME IInv, [Next]_vars
    PROVE  IInv'
<1> USE DEF IInv
<1>1. TypeOK'
  BY TypeStep
<1>2. ASSUME NEW id \in TaskIds, NEW ds \in SUBSET TaskIds, NEW a \in BOOLEAN,
             NextId(id, ds, a)
      PROVE  IInv'
  <2>1. pc[id] = "unused"
    BY <1>2 DEF NextId, StateMatchesPC, TypeOK, TaskIds
  <2>2. /\ pc' = [pc EXCEPT ![id] = "named"]
        /\ deps' = [deps EXCEPT ![id] = ds]
        /\ run_always' = [run_always EXCEPT ![id] = a]
        /\ next_id' = id + 1 /\ id = next_id
        /\ UNCHANGED <<succeeded, failed, failed_deps>>
    BY <1>2 DEF NextId
  <2>3. StateMatchesPC'
    <3>1. \A i \in TaskIds : pc'[i] = "unused" <=> i >= next_id'
      BY <2>2 DEF StateMatchesPC, TypeOK, TaskIds
    <3>2. /\ succeeded' = {i \in TaskIds : pc'[i] = "succeeded"}
          /\ failed' = {i \in TaskIds : pc'[i] \in {"failed", "cancelled"}}
      BY <2>1, <2>2 DEF StateMatchesPC, TypeOK
    <3>3. QED
      BY <3>1, <3>2 DEF StateMatchesPC
  <2>4. DepsReturned'
    <3>1. Returned' = Returned /\ ds \subseteq Returned
      BY <1>2, <2>1, <2>2 DEF NextId, Returned, Submitting, TypeOK
    <3>2. QED
      BY <2>1, <2>2, <3>1 DEF DepsReturned, TypeOK
  <2>5. ReadIsStable' /\ DecisionFollowsRead' /\ NoLostWakeup'
    BY <2>1, <2>2 DEF ReadIsStable, DecisionFollowsRead, NoLostWakeup, AllDepsDone, TypeOK, Ended
  <2>6. QED
    BY <1>1, <2>3, <2>4, <2>5
<1>3. ASSUME NEW id \in TaskIds, StoreMetadata(id) \/ Spawn(id)
      PROVE  IInv'
  <2>1. /\ pc[id] \in Submitting
        /\ pc' = [pc EXCEPT ![id] = IF pc[id] = "named" THEN "stored" ELSE "waiting"]
        /\ UNCHANGED <<next_id, succeeded, failed, deps, run_always, failed_deps>>
    BY <1>3 DEF StoreMetadata, Spawn, Submitting
  <2>2. StateMatchesPC'
    BY <2>1 DEF StateMatchesPC, TypeOK, Submitting
  <2>3. DepsReturned'
    <3>1. Returned \subseteq Returned'
      BY <2>1 DEF Returned, Submitting, TypeOK
    <3>2. QED
      BY <2>1, <3>1 DEF DepsReturned, TypeOK
  <2>4. ReadIsStable' /\ DecisionFollowsRead' /\ NoLostWakeup'
    BY <2>1 DEF ReadIsStable, DecisionFollowsRead, NoLostWakeup, AllDepsDone, TypeOK, Ended, Submitting
  <2>5. QED
    BY <1>1, <2>2, <2>3, <2>4
<1>4. ASSUME NEW id \in TaskIds, LeaveLoop(id)
      PROVE  IInv'
  <2>1. /\ pc[id] = "waiting" /\ AllDepsDone(id)
        /\ pc' = [pc EXCEPT ![id] = "resolved"]
        /\ failed_deps' = [failed_deps EXCEPT ![id] = deps[id] \intersect failed]
        /\ UNCHANGED <<next_id, succeeded, failed, deps, run_always>>
    BY <1>4 DEF LeaveLoop
  <2>2. StateMatchesPC'
    BY <2>1 DEF StateMatchesPC, TypeOK
  <2>3. DepsReturned'
    BY <2>1 DEF DepsReturned, Returned, TypeOK, Submitting
  <2>4. ReadIsStable' /\ DecisionFollowsRead' /\ NoLostWakeup'
    BY <2>1 DEF ReadIsStable, DecisionFollowsRead, NoLostWakeup, AllDepsDone, TypeOK, Ended
  <2>5. QED
    BY <1>1, <2>2, <2>3, <2>4
<1>5. ASSUME NEW id \in TaskIds, Park(id) \/ Start(id)
      PROVE  IInv'
  <2>1. /\ \/ pc[id] = "waiting" /\ ~AllDepsDone(id) /\ pc' = [pc EXCEPT ![id] = "parked"]
           \/ /\ pc[id] = "resolved" /\ (run_always[id] \/ failed_deps[id] = {})
              /\ pc' = [pc EXCEPT ![id] = "running"]
        /\ UNCHANGED <<next_id, succeeded, failed, deps, run_always, failed_deps>>
    BY <1>5 DEF Park, Start
  <2>2. StateMatchesPC'
    BY <2>1 DEF StateMatchesPC, TypeOK
  <2>3. DepsReturned'
    BY <2>1 DEF DepsReturned, Returned, TypeOK, Submitting
  <2>4. ReadIsStable' /\ DecisionFollowsRead' /\ NoLostWakeup'
    BY <2>1 DEF ReadIsStable, DecisionFollowsRead, NoLostWakeup, AllDepsDone, TypeOK, Ended
  <2>5. QED
    BY <1>1, <2>2, <2>3, <2>4
<1>6. ASSUME NEW id \in TaskIds, Cancel(id) \/ Succeed(id) \/ Fail(id)
      PROVE  IInv'
  BY <1>1, <1>6, EndStep
<1>7. CASE UNCHANGED vars
  BY <1>1, <1>7 DEF vars, StateMatchesPC, DepsReturned, Returned, ReadIsStable,
                    DecisionFollowsRead, NoLostWakeup, AllDepsDone
<1>8. QED
  BY <1>2, <1>3, <1>4, <1>5, <1>6, <1>7 DEF Next, Submit, TaskStep

LEMMA InitIInv == Init => IInv
<1>1. Init => TypeOK
  BY BoundsAssumption DEF Init, TypeOK, PC
<1>2. Init => StateMatchesPC
  BY BoundsAssumption DEF Init, StateMatchesPC, TaskIds
<1>3. Init => DepsReturned /\ ReadIsStable /\ DecisionFollowsRead /\ NoLostWakeup
  BY DEF Init, DepsReturned, ReadIsStable, DecisionFollowsRead, NoLostWakeup, Ended
<1>4. QED
  BY <1>1, <1>2, <1>3 DEF IInv

\* The inductive invariant holds of the task manager.
THEOREM InductiveInvariant == Spec => []IInv
<1>1. Init => IInv
  BY InitIInv
<1>2. IInv /\ [Next]_vars => IInv'
  BY IInvStep
<1>3. QED
  BY <1>1, <1>2, PTL DEF Spec, SafeSpec

\* No task sleeps while all its dependencies are decided: the Notified
\* future is created under the guard that read them undecided.
THEOREM NoLostWakeupAlways == Spec => []NoLostWakeup
<1>1. IInv => NoLostWakeup
  BY DEF IInv
<1>2. QED
  BY <1>1, InductiveInvariant, PTL

\* A task submitted with run that got to its work has only succeeded
\* dependencies, and one that was cancelled has a failed one.
THEOREM FailurePropagatesAlways == Spec => []FailurePropagates
<1>1. IInv => FailurePropagates
  BY DEF IInv, FailurePropagates, ReadIsStable, DecisionFollowsRead, AllDepsDone, Ended
<1>2. QED
  BY <1>1, InductiveInvariant, PTL

-----------------------------------------------------------------------------
(* What a client is told.                                                  *)

Told(type, id) == \E k \in DOMAIN events : events[k].type = type /\ events[k].task = id

\* The events of a task are those of the points it has passed.
EventsMatchPC ==
    \A id \in TaskIds :
        /\ Told("TaskAdded", id) <=> pc[id] \notin {"unused"} \union Submitting
        /\ Told("TaskStarted", id) <=> pc[id] \in {"running", "succeeded", "failed"}
        /\ Told("TaskFinished", id) <=> pc[id] \in Ended

\* No event is sent twice.
EventsOnce ==
    \A j, k \in DOMAIN events :
        events[j].type = events[k].type /\ events[j].task = events[k].task => j = k

\* Events come after those they depend on.
EventsInOrder ==
    \A k \in DOMAIN events :
        LET id == events[k].task
        IN /\ events[k].type # "TaskAdded" =>
                 \E j \in 1 .. (k - 1) : events[j].type = "TaskAdded" /\ events[j].task = id
           /\ events[k].type = "TaskStarted" =>
                 \A d \in deps[id] : \E j \in 1 .. (k - 1) :
                     events[j].type = "TaskFinished" /\ events[j].task = d

EInv == IInv /\ EventsMatchPC /\ EventsOnce /\ EventsInOrder

\* An event that was not sent before, after those it depends on, keeps the log
\* in order and tells one thing more.
LEMMA SendKeepsLog ==
    ASSUME TypeOK, EventsOnce, EventsInOrder, NEW e \in Event, Send(e), UNCHANGED deps,
           ~Told(e.type, e.task),
           e.type # "TaskAdded" => Told("TaskAdded", e.task),
           e.type = "TaskStarted" => \A d \in deps[e.task] : Told("TaskFinished", d)
    PROVE  /\ EventsOnce'
           /\ EventsInOrder'
           /\ \A type, id : Told(type, id)' <=> (Told(type, id) \/ (type = e.type /\ id = e.task))
<1> DEFINE n == Len(events)
<1>1. /\ n \in Nat /\ DOMAIN events = 1 .. n
      /\ DOMAIN events' = 1 .. (n + 1)
      /\ \A k \in 1 .. n : events'[k] = events[k]
      /\ events'[n + 1] = e
  BY DEF TypeOK, Send
<1>2. \A k \in 1 .. (n + 1) : k \in 1 .. n \/ k = n + 1
  BY <1>1
<1> HIDE DEF n
<1>3. EventsOnce'
  BY <1>1, <1>2 DEF EventsOnce, Told
<1>4. EventsInOrder'
  <2>1. SUFFICES ASSUME NEW k \in 1 .. (n + 1)
                 PROVE  /\ events'[k].type # "TaskAdded" =>
                              \E j \in 1 .. (k - 1) : /\ events'[j].type = "TaskAdded"
                                                      /\ events'[j].task = events'[k].task
                        /\ events'[k].type = "TaskStarted" =>
                              \A d \in deps[events'[k].task] : \E j \in 1 .. (k - 1) :
                                  events'[j].type = "TaskFinished" /\ events'[j].task = d
    BY <1>1 DEF EventsInOrder
  <2>2. CASE k \in 1 .. n
    <3>1. \A j \in 1 .. (k - 1) : j \in 1 .. n /\ events'[j] = events[j]
      BY <1>1, <2>2
    <3>2. k \in DOMAIN events /\ events'[k] = events[k] /\ deps' = deps
      BY <1>1, <2>2
    <3>3. events[k].type # "TaskAdded" =>
             \E j \in 1 .. (k - 1) : events[j].type = "TaskAdded" /\ events[j].task = events[k].task
      BY <3>2 DEF EventsInOrder
    <3>4. events[k].type = "TaskStarted" =>
             \A d \in deps[events[k].task] : \E j \in 1 .. (k - 1) :
                 events[j].type = "TaskFinished" /\ events[j].task = d
      BY <3>2 DEF EventsInOrder
    <3>5. QED
      BY <3>1, <3>2, <3>3, <3>4
  <2>3. CASE k = n + 1
    <3>1. (k - 1) = n
      BY <1>1, <2>3
    <3>2. QED
      BY <1>1, <2>3, <3>1 DEF Told
  <2>4. QED
    BY <1>2, <2>2, <2>3
<1>5. \A type, id : Told(type, id)' <=> (Told(type, id) \/ (type = e.type /\ id = e.task))
  BY <1>1, <1>2 DEF Told
<1>6. QED
  BY <1>3, <1>4, <1>5

\* A step that sends nothing leaves what was told, if no started task changes
\* its dependencies.
LEMMA SilenceKeepsLog ==
    ASSUME EventsOnce, EventsInOrder, UNCHANGED events,
           \A id : Told("TaskStarted", id) => deps'[id] = deps[id]
    PROVE  /\ EventsOnce'
           /\ EventsInOrder'
           /\ \A type, id : Told(type, id)' <=> Told(type, id)
<1>1. EventsOnce'
  BY DEF EventsOnce
<1>2. EventsInOrder'
  BY DEF EventsInOrder, Told
<1>3. QED
  BY <1>1, <1>2 DEF Told

LEMMA EInvStep ==
    ASSUME EInv, [Next]_vars
    PROVE  EInv'
<1> USE DEF EInv
<1>1. IInv' /\ TypeOK
  BY IInvStep DEF IInv
<1>2. ASSUME NEW id \in TaskIds, NEW ds \in SUBSET TaskIds, NEW a \in BOOLEAN,
             NextId(id, ds, a)
      PROVE  EInv'
  <2>1. pc[id] = "unused" /\ pc' = [pc EXCEPT ![id] = "named"] /\ UNCHANGED events
        /\ deps' = [deps EXCEPT ![id] = ds]
    BY <1>1, <1>2 DEF NextId, IInv, StateMatchesPC, TypeOK, TaskIds
  <2>2. \A i : Told("TaskStarted", i) => deps'[i] = deps[i]
    <3>1. ~Told("TaskStarted", id)
      BY <2>1 DEF EventsMatchPC
    <3>2. QED
      BY <1>1, <2>1, <3>1 DEF TypeOK, Told
  <2>3. /\ EventsOnce' /\ EventsInOrder'
        /\ \A type, i : Told(type, i)' <=> Told(type, i)
    BY <2>1, <2>2, SilenceKeepsLog
  <2>4. EventsMatchPC'
    BY <1>1, <2>1, <2>3 DEF EventsMatchPC, TypeOK, Submitting, Ended
  <2>5. QED
    BY <1>1, <2>3, <2>4
<1>3. ASSUME NEW id \in TaskIds, StoreMetadata(id) \/ LeaveLoop(id) \/ Park(id)
      PROVE  EInv'
  <2>1. /\ UNCHANGED <<events, deps>>
        /\ \/ pc[id] = "named" /\ pc' = [pc EXCEPT ![id] = "stored"]
           \/ pc[id] = "waiting" /\ pc' = [pc EXCEPT ![id] = "resolved"]
           \/ pc[id] = "waiting" /\ pc' = [pc EXCEPT ![id] = "parked"]
    BY <1>3 DEF StoreMetadata, LeaveLoop, Park
  <2>2. /\ EventsOnce' /\ EventsInOrder'
        /\ \A type, i : Told(type, i)' <=> Told(type, i)
    BY <2>1, SilenceKeepsLog
  <2>3. EventsMatchPC'
    BY <1>1, <2>1, <2>2 DEF EventsMatchPC, TypeOK, Submitting, Ended
  <2>4. QED
    BY <1>1, <2>2, <2>3
<1>4. ASSUME NEW id \in TaskIds, Spawn(id)
      PROVE  EInv'
  <2>1. /\ pc[id] = "stored" /\ pc' = [pc EXCEPT ![id] = "waiting"] /\ UNCHANGED deps
        /\ Send(TaskAdded(id)) /\ TaskAdded(id) \in Event
        /\ TaskAdded(id).type = "TaskAdded" /\ TaskAdded(id).task = id
    BY <1>4 DEF Spawn, TaskAdded, Event
  <2>2. ~Told("TaskAdded", id)
    BY <2>1 DEF EventsMatchPC, Submitting
  <2>3. /\ EventsOnce' /\ EventsInOrder'
        /\ \A type, i : Told(type, i)' <=> (Told(type, i) \/ (type = "TaskAdded" /\ i = id))
    BY <1>1, <2>1, <2>2, SendKeepsLog
  <2>4. EventsMatchPC'
    BY <1>1, <2>1, <2>3 DEF EventsMatchPC, TypeOK, Submitting, Ended
  <2>5. QED
    BY <1>1, <2>3, <2>4
<1>5. ASSUME NEW id \in TaskIds, Start(id)
      PROVE  EInv'
  <2>1. /\ pc[id] = "resolved" /\ pc' = [pc EXCEPT ![id] = "running"] /\ UNCHANGED deps
        /\ Send(TaskStarted(id)) /\ TaskStarted(id) \in Event
        /\ TaskStarted(id).type = "TaskStarted" /\ TaskStarted(id).task = id
    BY <1>5 DEF Start, TaskStarted, Event
  <2>2. ~Told("TaskStarted", id) /\ Told("TaskAdded", id)
    BY <2>1 DEF EventsMatchPC, Submitting
  <2>3. \A d \in deps[id] : Told("TaskFinished", d)
    BY <1>1, <2>1 DEF EventsMatchPC, IInv, ReadIsStable, AllDepsDone, StateMatchesPC,
                      Ended, TypeOK
  <2>4. /\ EventsOnce' /\ EventsInOrder'
        /\ \A type, i : Told(type, i)' <=> (Told(type, i) \/ (type = "TaskStarted" /\ i = id))
    BY <1>1, <2>1, <2>2, <2>3, SendKeepsLog
  <2>5. EventsMatchPC'
    BY <1>1, <2>1, <2>4 DEF EventsMatchPC, TypeOK, Submitting, Ended
  <2>6. QED
    BY <1>1, <2>4, <2>5
<1>6. ASSUME NEW id \in TaskIds, Cancel(id) \/ Succeed(id) \/ Fail(id)
      PROVE  EInv'
  <2> DEFINE e == TaskFinished(id, Cardinality(metadata'))
  <2>1. PICK phase \in Ended :
           /\ Leave(id, phase)
           /\ pc[id] \in {"resolved", "running"}
           /\ pc[id] = "resolved" => phase = "cancelled"
           /\ pc[id] = "running" => phase \in {"succeeded", "failed"}
    BY <1>6 DEF Cancel, Succeed, Fail, Ended
  <2>2. metadata' \in SUBSET TaskIds
    BY <1>1, <2>1, LeaveTyped
  <2>3. Send(e) /\ e \in Event /\ e.type = "TaskFinished" /\ e.task = id /\ UNCHANGED deps
    BY <2>1, <2>2, CountIsNat DEF Leave, TaskFinished, Event
  <2> HIDE DEF e
  <2>4. ~Told("TaskFinished", id) /\ Told("TaskAdded", id)
    BY <2>1 DEF EventsMatchPC, Submitting, Ended
  <2>5. /\ EventsOnce' /\ EventsInOrder'
        /\ \A type, i : Told(type, i)' <=> (Told(type, i) \/ (type = "TaskFinished" /\ i = id))
    BY <1>1, <2>3, <2>4, SendKeepsLog
  <2>6. /\ pc'[id] = phase
        /\ \A i \in TaskIds \ {id} :
              \/ pc'[i] = pc[i] /\ pc[i] # "parked"
              \/ pc[i] = "parked" /\ pc'[i] = "waiting"
    BY <1>1, <2>1, LeaveMoves
  <2>7. EventsMatchPC'
    <3>1. SUFFICES ASSUME NEW i \in TaskIds
                   PROVE  /\ Told("TaskAdded", i)' <=> pc'[i] \notin {"unused"} \union Submitting
                          /\ Told("TaskStarted", i)' <=> pc'[i] \in {"running", "succeeded", "failed"}
                          /\ Told("TaskFinished", i)' <=> pc'[i] \in Ended
      BY DEF EventsMatchPC
    <3>2. CASE i = id
      BY <2>1, <2>4, <2>5, <2>6, <3>2 DEF EventsMatchPC, Submitting, Ended
    <3>3. CASE i # id
      BY <2>5, <2>6, <3>3 DEF EventsMatchPC, Submitting, Ended
    <3>4. QED
      BY <3>2, <3>3
  <2>8. QED
    BY <1>1, <2>5, <2>7
<1>7. CASE UNCHANGED vars
  <2>1. UNCHANGED <<events, deps, pc>>
    BY <1>7 DEF vars
  <2>2. /\ EventsOnce' /\ EventsInOrder'
        /\ \A type, i : Told(type, i)' <=> Told(type, i)
    BY <2>1, SilenceKeepsLog
  <2>3. QED
    BY <1>1, <2>1, <2>2 DEF EventsMatchPC
<1>8. QED
  BY <1>2, <1>3, <1>4, <1>5, <1>6, <1>7 DEF Next, Submit, TaskStep

\* Whatever the number of tasks that send events at the same time, a client
\* that reads the events in order never sees a task start before the end of
\* what it depends on, nor an event of a task it was not told of.
THEOREM EventsFollowGraphAlways == Spec => []EventsFollowGraph
<1>1. EInv => EventsFollowGraph
  <2>1. SUFFICES ASSUME EInv, NEW k \in DOMAIN events
                 PROVE  LET id == events[k].task
                        IN /\ events[k].type # "TaskAdded" =>
                                 \E j \in Position("TaskAdded", id) : j < k
                           /\ events[k].type = "TaskStarted" =>
                                 \A d \in deps[id] : \E j \in Position("TaskFinished", d) : j < k
                           /\ Cardinality(Position(events[k].type, id)) = 1
    BY DEF EventsFollowGraph
  <2>2. k \in 1 .. Len(events) /\ DOMAIN events = 1 .. Len(events) /\ Len(events) \in Nat
    BY <2>1 DEF EInv, IInv, TypeOK
  <2>3. \A j \in 1 .. (k - 1) : j \in DOMAIN events /\ j < k
    BY <2>2
  <2>4. Position(events[k].type, events[k].task) = {k}
    BY <2>1, <2>2 DEF EInv, EventsOnce, Position
  <2>5. Cardinality({k}) = 1
    BY FS_Singleton
  <2>6. QED
    BY <2>1, <2>3, <2>4, <2>5 DEF EInv, EventsInOrder, Position
<1>2. Init => EInv
  <2>1. Init => IInv
    BY InitIInv
  <2>2. Init => EventsMatchPC /\ EventsOnce /\ EventsInOrder
    BY DEF Init, EventsMatchPC, EventsOnce, EventsInOrder, Told, Submitting, Ended
  <2>3. QED
    BY <2>1, <2>2 DEF EInv
<1>3. EInv /\ [Next]_vars => EInv'
  BY EInvStep
<1>4. QED
  BY <1>1, <1>2, <1>3, PTL DEF Spec, SafeSpec

-----------------------------------------------------------------------------
(* The task manager implements the graph of tasks.                         *)

\* The outcome that a point of a task's code stands for.
Abstract(p) ==
    IF p = "succeeded" THEN "ok"
    ELSE IF p = "unused" THEN "absent"
    ELSE IF p \in {"running", "failed", "cancelled"} THEN p
    ELSE "pending"

MappingByPC == OutcomeOf = [id \in TaskIds |-> Abstract(pc[id])]

\* The refinement mapping, which reads the shared state, agrees with it.
LEMMA MappingFromPC ==
    ASSUME IInv
    PROVE  MappingByPC
<1> SUFFICES ASSUME NEW id \in TaskIds
             PROVE  OutcomeOf[id] = Abstract(pc[id])
  BY DEF OutcomeOf, MappingByPC
<1>1. /\ id \in succeeded <=> pc[id] = "succeeded"
      /\ id \in failed <=> pc[id] \in {"failed", "cancelled"}
  BY DEF IInv, StateMatchesPC
<1>2. CASE id \in succeeded
  BY <1>1, <1>2 DEF OutcomeOf, Abstract
<1>3. CASE id \in failed
  BY <1>1, <1>3 DEF OutcomeOf, Abstract
<1>4. CASE id \notin succeeded /\ id \notin failed
  BY <1>1, <1>4 DEF OutcomeOf, Abstract
<1>5. QED
  BY <1>2, <1>3, <1>4

\* What a task knows of its dependencies when it decides is what the graph
\* says of them.
LEMMA MappedDeps ==
    ASSUME IInv, NEW id \in TaskIds, pc[id] = "resolved"
    PROVE  Graph!DepsResolved(id) /\ Graph!FailedDeps(id) = failed_deps[id]
<1>1. AllDepsDone(id) /\ failed_deps[id] = deps[id] \intersect failed
  BY DEF IInv, ReadIsStable
<1>2. \A d \in deps[id] : d \in TaskIds
  BY DEF IInv, TypeOK
<1>3. \A d \in TaskIds : /\ d \in succeeded <=> pc[d] = "succeeded"
                         /\ d \in failed <=> pc[d] \in {"failed", "cancelled"}
                         /\ OutcomeOf[d] = Abstract(pc[d])
  BY MappingFromPC DEF IInv, StateMatchesPC, MappingByPC
<1>4. \A d \in deps[id] : OutcomeOf[d] \in Graph!Resolved
  BY <1>1, <1>2, <1>3 DEF AllDepsDone, Abstract, Graph!Resolved, Graph!Failed
<1>5. \A d \in deps[id] : OutcomeOf[d] \in Graph!Failed <=> d \in failed
  BY <1>1, <1>2, <1>3 DEF AllDepsDone, Abstract, Graph!Failed
<1>6. QED
  BY <1>1, <1>4, <1>5 DEF Graph!DepsResolved, Graph!FailedDeps

\* A step of the task manager is a step of the graph, or changes nothing of it.
LEMMA GraphStep ==
    ASSUME IInv, MappingByPC, MappingByPC', [Next]_vars
    PROVE  [Graph!Next]_(Graph!graphVars)
<1> DEFINE Out(p) == [id \in TaskIds |-> Abstract(p[id])]
<1>1. OutcomeOf = Out(pc) /\ OutcomeOf' = Out(pc')
  BY DEF MappingByPC
<1> USE DEF IInv
<1>2. ASSUME NEW id \in TaskIds, NEW ds \in SUBSET TaskIds, NEW a \in BOOLEAN,
             NextId(id, ds, a)
      PROVE  Graph!Next
  <2>1. pc[id] = "unused" /\ \A d \in ds : d \in TaskIds \ {id} /\ pc[d] # "unused"
    BY <1>2 DEF NextId, StateMatchesPC, TypeOK, TaskIds, Returned
  <2>2. Out(pc') = [Out(pc) EXCEPT ![id] = "pending"]
    BY <1>2 DEF NextId, Abstract, TypeOK
  <2>3. Graph!Add(id, ds, a)
    BY <1>1, <1>2, <2>1, <2>2 DEF NextId, Graph!Add, Abstract
  <2>4. ds \in SUBSET (TaskIds \ {id})
    BY <2>1
  <2>5. QED
    BY <2>3, <2>4 DEF Graph!Next
<1>3. ASSUME NEW id \in TaskIds,
             StoreMetadata(id) \/ Spawn(id) \/ LeaveLoop(id) \/ Park(id)
      PROVE  UNCHANGED Graph!graphVars
  <2>1. Out(pc') = Out(pc)
    BY <1>3 DEF StoreMetadata, Spawn, LeaveLoop, Park, Abstract, TypeOK
  <2>2. UNCHANGED <<deps, run_always>>
    BY <1>3 DEF StoreMetadata, Spawn, LeaveLoop, Park
  <2>3. QED
    BY <1>1, <2>1, <2>2 DEF Graph!graphVars
<1>4. ASSUME NEW id \in TaskIds, Start(id)
      PROVE  Graph!Next
  <2>1. pc[id] = "resolved" /\ (run_always[id] \/ failed_deps[id] = {})
    BY <1>4 DEF Start
  <2>2. Out(pc') = [Out(pc) EXCEPT ![id] = "running"]
    BY <1>4 DEF Start, Abstract, TypeOK
  <2>3. Graph!DepsResolved(id) /\ Graph!FailedDeps(id) = failed_deps[id]
    BY <2>1, MappedDeps
  <2>4. Graph!Start(id)
    BY <1>1, <1>4, <2>1, <2>2, <2>3 DEF Start, Graph!Start, Abstract
  <2>5. QED
    BY <2>4 DEF Graph!Next, Graph!Resolve
<1>5. ASSUME NEW id \in TaskIds, Cancel(id)
      PROVE  Graph!Next
  <2>1. pc[id] = "resolved" /\ ~run_always[id] /\ failed_deps[id] # {}
    BY <1>5 DEF Cancel
  <2>2. Out(pc') = [Out(pc) EXCEPT ![id] = "cancelled"]
    BY <1>5 DEF Cancel, Leave, NotifyWaiters, Abstract, TypeOK
  <2>3. Graph!DepsResolved(id) /\ Graph!FailedDeps(id) = failed_deps[id]
    BY <2>1, MappedDeps
  <2>4. UNCHANGED <<deps, run_always>>
    BY <1>5 DEF Cancel, Leave
  <2>5. Graph!Cancel(id)
    BY <1>1, <2>1, <2>2, <2>3, <2>4 DEF Graph!Cancel, Abstract
  <2>6. QED
    BY <2>5 DEF Graph!Next, Graph!Resolve
<1>6. ASSUME NEW id \in TaskIds, NEW out \in {"succeeded", "failed"},
             pc[id] = "running", Leave(id, out)
      PROVE  Graph!Next
  <2>1. Out(pc') = [Out(pc) EXCEPT ![id] = Abstract(out)]
    BY <1>6 DEF Leave, NotifyWaiters, Abstract, TypeOK
  <2>2. UNCHANGED <<deps, run_always>>
    BY <1>6 DEF Leave
  <2>3. Graph!Complete(id)
    BY <1>1, <1>6, <2>1, <2>2 DEF Graph!Complete, Abstract
  <2>4. QED
    BY <2>3 DEF Graph!Next, Graph!Resolve
<1>7. ASSUME NEW id \in TaskIds, Succeed(id) \/ Fail(id)
      PROVE  Graph!Next
  BY <1>6, <1>7 DEF Succeed, Fail
<1>8. CASE UNCHANGED vars
  BY <1>1, <1>8 DEF vars, Graph!graphVars
<1>9. QED
  BY <1>2, <1>3, <1>4, <1>5, <1>7, <1>8 DEF Next, Submit, TaskStep

\* TaskBuilder::run and run_always do what their documentation promises: the
\* task manager, with its locks, wake-ups and copies of the failed
\* dependencies, is an implementation of the graph of tasks.
THEOREM TaskManagerImplementsGraph == Spec => Graph!SafeSpec
<1>1. Init => Graph!Init
  BY DEF Init, Graph!Init, OutcomeOf
<1>2. IInv => MappingByPC
  BY MappingFromPC
<1>3. IInv /\ MappingByPC /\ MappingByPC' /\ [Next]_vars
         => [Graph!Next]_(Graph!graphVars)
  BY GraphStep
<1>4. QED
  BY <1>1, <1>2, <1>3, InductiveInvariant, PTL DEF Spec, SafeSpec, Graph!SafeSpec
=============================================================================
