-------------------------- MODULE InstallationProofs --------------------------
(***************************************************************************)
(* Proofs about the installation, for any number of installations that may *)
(* be asked for, of configurations and of requests.                        *)
(*                                                                         *)
(* The stage leaves "configuring" once, so there is one installation.  Its *)
(* tasks are submitted in order, each one runs after the one before, and   *)
(* what the last two have done of their work is what stage and progress    *)
(* show.                                                                   *)
(***************************************************************************)
EXTENDS Installation, SequenceTheorems, FiniteSetTheorems, TLAPS

-----------------------------------------------------------------------------
(* The inductive invariant.                                                *)

\* The tasks of the only installation, by their place in InstallOrder.
Places == 1 .. 6
Task(k) == <<InstallOrder[k], 1>>

\* The manager starts the progress and submits the tasks.
Submitting == manager.handling = "install" /\ manager.step >= 5
Submitted(k) == installs = 1 /\ (Submitting => 5 + k < manager.step)

Requests ==
    /\ manager.handling \in {"none", "finish", "stage_status", "issues"} => manager.step = 1
    /\ manager.handling \in {"config", "idle_status"} => manager.step \in {1, 2}

\* The stage is checked before an installation starts and changes with it.
StartedOnce ==
    /\ installs \in {0, 1}
    /\ stage = "configuring" <=> installs = 0
    /\ manager.handling = "install" /\ manager.step \in 2 .. 4 => stage = "configuring"
    /\ Submitting => installs = 1

SubmittedInOrder ==
    /\ \A id \in InstallTaskIds : id[2] # 1 => outcome[id] = "absent"
    /\ \A k \in Places :
          /\ outcome[Task(k)] # "absent" <=> Submitted(k)
          /\ Submitted(k) => /\ deps[Task(k)] = DependenciesOf(k, 1)
                             /\ always[Task(k)] = (k = 6)

\* A task runs when the one before succeeded, and is cancelled when not.
Chained ==
    /\ outcome[Task(1)] # "cancelled"
    /\ \A k \in 2 .. 5 :
          /\ outcome[Task(k)] \in {"running", "ok", "failed"} => outcome[Task(k - 1)] = "ok"
          /\ outcome[Task(k)] = "cancelled" => outcome[Task(k - 1)] \in {"failed", "cancelled"}
    /\ outcome[Task(5)] # "failed"
    /\ outcome[Task(6)] \notin {"failed", "cancelled"}
    /\ outcome[Task(6)] \in {"running", "ok"} => \A k \in 1 .. 5 : outcome[Task(k)] \in Ended

WorkDone ==
    /\ \A k \in Places : outcome[Task(k)] \in {"absent", "pending", "cancelled"} => work[Task(k)] = 0
    /\ \A k \in {3, 4} :
          /\ outcome[Task(k)] = "running" => work[Task(k)] <= Calls(InstallOrder[k])
          /\ outcome[Task(k)] = "ok" => work[Task(k)] > 0
    /\ work[Task(5)] <= 2 /\ work[Task(6)] <= 2
    /\ outcome[Task(5)] = "ok" => work[Task(5)] = 2
    /\ work[Task(6)] > 0 => \E k \in 1 .. 5 : outcome[Task(k)] \in {"failed", "cancelled"}

\* The manager has a progress from the start of the installation until one of
\* the last two tasks ends it, and it is at the phase of the last task.
Begun(k) == IF work[Task(k)] > 0 THEN 1 ELSE 0
Phase == 1 + Begun(3) + Begun(4)

ProgressType == [scope : {"manager", "services"}, size : 0 .. 3, index : 1 .. 3]

\* What the list tells: at most one progress per scope, whether the manager
\* has one, and the phase it is at.
Tells(ps, shown, phase) ==
    /\ ps \in Seq(ProgressType)
    /\ \A i, j \in DOMAIN ps : ps[i].scope = ps[j].scope => i = j
    /\ HasProgress(ps, "manager") <=> shown
    /\ \A i \in DOMAIN ps : ps[i].scope = "manager" => ps[i].size = 3 /\ ps[i].index = phase

ManagerShown ==
    installs = 1 /\ (Submitting => manager.step # 5) /\ work[Task(5)] = 0 /\ work[Task(6)] = 0

ProgressShown == Tells(progresses, ManagerShown, Phase)

StageShown ==
    /\ stage = "finished" <=> work[Task(5)] = 2
    /\ stage = "failed" <=> work[Task(6)] = 2
    /\ halted => stage = "finished"

IInv ==
    /\ TypeOK /\ Requests /\ StartedOnce
    /\ SubmittedInOrder /\ Chained /\ WorkDone
    /\ ProgressShown /\ StageShown

-----------------------------------------------------------------------------
(* The tasks.                                                              *)

\* The names of the tasks of an installation, in order.
LEMMA Order ==
    /\ DOMAIN InstallOrder = Places /\ Len(InstallOrder) = 6
    /\ InstallOrder[1] = "storage_install" /\ InstallOrder[2] = "post_partitioning_scripts"
    /\ InstallOrder[3] = "software_install" /\ InstallOrder[4] = "configure"
    /\ InstallOrder[5] = "finish_progress" /\ InstallOrder[6] = "finalize"
BY DEF InstallOrder, Critical, Places

LEMMA CriticalOrder ==
    /\ DOMAIN Critical = 1 .. 5
    /\ \A k \in 1 .. 5 : Critical[k] = InstallOrder[k]
BY DEF InstallOrder, Critical

\* Each task has one place.
LEMMA OnePlace ==
    ASSUME NEW i \in Places, NEW j \in Places, InstallOrder[i] = InstallOrder[j]
    PROVE  i = j
BY Order DEF Places

\* The tasks of the only installation are tasks, each at its own place, and no
\* task that writes a configuration is one of them.
LEMMA Tasks ==
    /\ \A k \in Places : Task(k) \in InstallTaskIds /\ Task(k) \in TaskIds
    /\ \A i, j \in Places : Task(i) = Task(j) => i = j
    /\ \A k \in Places : Task(k)[1] = InstallOrder[k] /\ Task(k)[2] = 1
    /\ \A id \in InstallTaskIds : id[2] = 1 => \E k \in Places : id = Task(k)
    /\ \A id \in ConfigTaskIds, k \in Places : id # Task(k)
<1>1. \A k \in Places : Task(k)[1] = InstallOrder[k] /\ Task(k)[2] = 1
  BY DEF Task
<1>2. \A i, j \in Places : Task(i) = Task(j) => i = j
  BY <1>1, OnePlace
<1>3. \A k \in Places : Task(k) \in InstallTaskIds /\ Task(k) \in TaskIds
  <2>1. \A k \in Places : InstallOrder[k] \in ToSet(InstallOrder)
    BY Order DEF ToSet
  <2>2. 1 \in 1 .. MaxInstalls
    BY BoundsAssumption
  <2>3. QED
    BY <2>1, <2>2 DEF Task, InstallTaskIds, TaskIds
<1>4. \A id \in InstallTaskIds : id[2] = 1 => \E k \in Places : id = Task(k)
  <2> SUFFICES ASSUME NEW name \in ToSet(InstallOrder)
               PROVE  \E k \in Places : <<name, 1>> = Task(k)
    BY DEF InstallTaskIds
  <2>1. PICK k \in Places : name = InstallOrder[k]
    BY Order DEF ToSet
  <2>2. QED
    BY <2>1 DEF Task
<1>5. \A id \in ConfigTaskIds, k \in Places : id # Task(k)
  <2>1. \A id \in ConfigTaskIds : id[1] = "set_config"
    BY DEF ConfigTaskIds
  <2>2. \A k \in Places : InstallOrder[k] # "set_config"
    BY Order DEF Places
  <2>3. QED
    BY <2>1, <2>2, <1>1
<1>6. QED
  BY <1>1, <1>2, <1>3, <1>4, <1>5

LEMMA Dependencies ==
    /\ DependenciesOf(1, 1) = {}
    /\ \A k \in 2 .. 5 : DependenciesOf(k, 1) = {Task(k - 1)}
    /\ DependenciesOf(6, 1) = {Task(k) : k \in 1 .. 5}
    /\ CriticalTasks(1) = {Task(k) : k \in 1 .. 5}
<1>1. CriticalTasks(1) = {Task(k) : k \in 1 .. 5}
  <2>1. ToSet(Critical) = {InstallOrder[k] : k \in 1 .. 5}
    BY CriticalOrder DEF ToSet
  <2>2. QED
    BY <2>1 DEF CriticalTasks, Task
<1>2. \A k \in 1 .. 5 : InstallOrder[k] # "finalize"
  BY Order
<1>3. DependenciesOf(1, 1) = {}
  BY <1>2 DEF DependenciesOf
<1>4. ASSUME NEW k \in 2 .. 5
      PROVE  DependenciesOf(k, 1) = {Task(k - 1)}
  <2>1. {k - 1} \ {0} = {k - 1}
    OBVIOUS
  <2>2. QED
    BY <2>1, <1>2 DEF DependenciesOf, Task
<1>5. DependenciesOf(6, 1) = {Task(k) : k \in 1 .. 5}
  BY <1>1, Order DEF DependenciesOf
<1>6. QED
  BY <1>1, <1>3, <1>4, <1>5

\* A change at one task leaves the others as they are.
LEMMA ChangedAt ==
    ASSUME NEW S, NEW f \in [TaskIds -> S], NEW k \in Places, NEW v
    PROVE  LET g == [f EXCEPT ![Task(k)] = v]
           IN  /\ g[Task(k)] = v
               /\ \A j \in Places : j # k => g[Task(j)] = f[Task(j)]
               /\ \A id \in InstallTaskIds : id[2] # 1 => g[id] = f[id]
BY Tasks DEF TaskIds

-----------------------------------------------------------------------------
(* The list of progresses.                                                 *)

\* A progress is found where it is.
LEMMA Found ==
    ASSUME NEW ps, NEW shown, NEW phase, Tells(ps, shown, phase),
           NEW scope, HasProgress(ps, scope)
    PROVE  /\ PositionOf(ps, scope) \in DOMAIN ps
           /\ ps[PositionOf(ps, scope)].scope = scope
<1> DEFINE First(i) == ps[i].scope = scope /\ \A j \in 1 .. (i - 1) : ps[j].scope # scope
<1>1. DOMAIN ps = 1 .. Len(ps) /\ Len(ps) \in Nat
  BY DEF Tells
<1>2. PICK i \in DOMAIN ps : ps[i].scope = scope
  BY DEF HasProgress
<1>3. \A j \in 1 .. (i - 1) : j \in DOMAIN ps /\ j # i
  BY <1>1, <1>2
<1>4. First(i)
  BY <1>2, <1>3 DEF Tells
<1>5. PositionOf(ps, scope) = CHOOSE k \in DOMAIN ps : First(k)
  BY DEF PositionOf
<1>6. PositionOf(ps, scope) \in DOMAIN ps /\ First(PositionOf(ps, scope))
  BY <1>2, <1>4, <1>5
<1>7. QED
  BY <1>6

\* The progress of the manager, when it has one.
LEMMA ManagerFound ==
    ASSUME NEW ps, NEW phase, Tells(ps, TRUE, phase)
    PROVE  LET p == ProgressOf(ps, "manager")
           IN  p \in ProgressType /\ p.scope = "manager" /\ p.size = 3 /\ p.index = phase
<1>1. PositionOf(ps, "manager") \in DOMAIN ps /\ ps[PositionOf(ps, "manager")].scope = "manager"
  BY Found DEF Tells
<1>2. QED
  BY <1>1 DEF Tells, ProgressOf

\* Adding a progress adds its scope and nothing else.
LEMMA AddedTells ==
    ASSUME NEW ps, NEW shown \in BOOLEAN, NEW phase, Tells(ps, shown, phase),
           NEW p \in ProgressType, ~HasProgress(ps, p.scope),
           NEW shown2 \in BOOLEAN, NEW phase2,
           p.scope = "manager" => shown2 /\ p.size = 3 /\ p.index = phase2,
           p.scope # "manager" => shown2 = shown /\ phase2 = phase
    PROVE  Tells(Added(ps, p), shown2, phase2)
<1> DEFINE qs == Added(ps, p)
           n == Len(ps)
<1>1. /\ qs \in Seq(ProgressType) /\ n \in Nat
      /\ DOMAIN ps = 1 .. n /\ DOMAIN qs = 1 .. (n + 1)
      /\ \A i \in DOMAIN ps : qs[i] = ps[i]
      /\ qs[n + 1] = p
  BY DEF Tells, Added
<1> HIDE DEF qs, n
<1>2. \A i \in DOMAIN ps : ps[i].scope # p.scope
  BY DEF HasProgress
<1>3. \A i \in DOMAIN qs : i \in DOMAIN ps \/ i = n + 1
  BY <1>1
<1>4. n + 1 \in DOMAIN qs /\ \A i \in DOMAIN ps : i \in DOMAIN qs
  BY <1>1
<1>5. \A i, j \in DOMAIN qs : qs[i].scope = qs[j].scope => i = j
  BY <1>1, <1>2, <1>3 DEF Tells
<1>6. HasProgress(qs, "manager") <=> shown2
  <2>1. CASE p.scope = "manager"
    BY <2>1, <1>1, <1>4 DEF HasProgress
  <2>2. CASE p.scope # "manager"
    BY <2>2, <1>1, <1>3, <1>4 DEF HasProgress, Tells
  <2>3. QED
    BY <2>1, <2>2
<1>7. \A i \in DOMAIN qs : qs[i].scope = "manager" => qs[i].size = 3 /\ qs[i].index = phase2
  <2>1. CASE p.scope = "manager"
    BY <2>1, <1>1, <1>2, <1>3
  <2>2. CASE p.scope # "manager"
    BY <2>2, <1>1, <1>3 DEF Tells
  <2>3. QED
    BY <2>1, <2>2
<1>8. QED
  BY <1>1, <1>5, <1>6, <1>7 DEF Tells, qs

\* Moving the progress of the manager changes its phase.
LEMMA AdvancedTells ==
    ASSUME NEW ps, NEW phase \in 1 .. 2, Tells(ps, TRUE, phase)
    PROVE  Tells(Replaced(ps, Advanced(ProgressOf(ps, "manager"))), TRUE, phase + 1)
<1> DEFINE p == ProgressOf(ps, "manager")
           k == PositionOf(ps, "manager")
           qs == [ps EXCEPT ![k] = Advanced(p)]
<1>1. p \in ProgressType /\ p.scope = "manager" /\ p.size = 3 /\ p.index = phase
  BY ManagerFound
<1>2. k \in DOMAIN ps /\ ps[k].scope = "manager"
  BY Found DEF Tells
<1> HIDE DEF p, k
<1>3. /\ Advanced(p) \in ProgressType /\ Advanced(p).scope = "manager"
      /\ Advanced(p).size = 3 /\ Advanced(p).index = phase + 1
  BY <1>1 DEF Advanced, ProgressType
<1>4. Replaced(ps, Advanced(p)) = qs
  BY <1>3 DEF Replaced, k
<1>5. /\ qs \in Seq(ProgressType) /\ DOMAIN qs = DOMAIN ps
      /\ \A i \in DOMAIN ps : i # k => qs[i] = ps[i]
      /\ qs[k] = Advanced(p)
  BY <1>2, <1>3 DEF Tells
<1> HIDE DEF qs
<1>6. \A i \in DOMAIN ps : qs[i].scope = ps[i].scope
  BY <1>2, <1>3, <1>5
<1>7. \A i, j \in DOMAIN qs : qs[i].scope = qs[j].scope => i = j
  BY <1>5, <1>6 DEF Tells
<1>8. HasProgress(qs, "manager")
  BY <1>2, <1>5, <1>6 DEF HasProgress
<1>9. \A i \in DOMAIN qs : qs[i].scope = "manager" => i = k
  BY <1>2, <1>5, <1>6 DEF Tells
<1>10. QED
  BY <1>3, <1>4, <1>5, <1>7, <1>8, <1>9 DEF Tells, p

\* Removing from a sequence keeps the elements around.
LEMMA RemoveAtKeeps ==
    ASSUME NEW T, NEW ps \in Seq(T), NEW k \in 1 .. Len(ps)
    PROVE  LET qs == RemoveAt(ps, k)
               Old(i) == IF i < k THEN i ELSE i + 1
           IN  /\ qs \in Seq(T)
               /\ DOMAIN qs = 1 .. (Len(ps) - 1)
               /\ \A i \in DOMAIN qs : Old(i) \in DOMAIN ps /\ qs[i] = ps[Old(i)]
<1> DEFINE n == Len(ps)
           front == SubSeq(ps, 1, k - 1)
           back == SubSeq(ps, k + 1, n)
           qs == front \o back
<1>1. n \in Nat /\ k \in Int /\ 1 <= k /\ k <= n /\ DOMAIN ps = 1 .. n
      /\ \A i \in 1 .. n : ps[i] \in T
  OBVIOUS
<1>2. /\ front \in Seq(T) /\ Len(front) = k - 1
      /\ \A i \in 1 .. (k - 1) : front[i] = ps[i]
  <2>1. /\ front \in Seq(T) /\ Len(front) = IF 1 <= k - 1 THEN k - 1 - 1 + 1 ELSE 0
        /\ \A i \in 1 .. (k - 1 - 1 + 1) : front[i] = ps[1 + i - 1]
    BY <1>1, SubSeqProperties
  <2> HIDE DEF front, n
  <2>2. Len(front) = k - 1
    BY <2>1, <1>1
  <2>3. ASSUME NEW i \in 1 .. (k - 1)
        PROVE  front[i] = ps[i]
    <3>1. i \in 1 .. (k - 1 - 1 + 1) /\ 1 + i - 1 = i
      BY <1>1
    <3>2. QED
      BY <3>1, <2>1
  <2>4. QED
    BY <2>1, <2>2, <2>3
<1>3. /\ back \in Seq(T) /\ Len(back) = n - k
      /\ \A i \in 1 .. (n - k) : back[i] = ps[k + i]
  <2>1. /\ back \in Seq(T) /\ Len(back) = IF k + 1 <= n THEN n - (k + 1) + 1 ELSE 0
        /\ \A i \in 1 .. (n - (k + 1) + 1) : back[i] = ps[k + 1 + i - 1]
    BY <1>1, SubSeqProperties
  <2> HIDE DEF back, n
  <2>2. Len(back) = n - k
    BY <2>1, <1>1
  <2>3. ASSUME NEW i \in 1 .. (n - k)
        PROVE  back[i] = ps[k + i]
    <3>1. i \in 1 .. (n - (k + 1) + 1) /\ k + 1 + i - 1 = k + i
      BY <1>1
    <3>2. QED
      BY <3>1, <2>1
  <2>4. QED
    BY <2>1, <2>2, <2>3
<1>4. RemoveAt(ps, k) = qs
  BY DEF RemoveAt
<1> HIDE DEF front, back, n
<1>5. /\ qs \in Seq(T) /\ DOMAIN qs = 1 .. (n - 1)
      /\ \A i \in 1 .. (n - 1) : qs[i] = IF i <= k - 1 THEN front[i] ELSE back[i - (k - 1)]
  <2>1. /\ qs \in Seq(T) /\ Len(qs) = Len(front) + Len(back)
        /\ \A i \in 1 .. (Len(front) + Len(back)) :
              qs[i] = IF i <= Len(front) THEN front[i] ELSE back[i - Len(front)]
    BY <1>2, <1>3, ConcatProperties
  <2>2. Len(front) + Len(back) = n - 1 /\ Len(front) = k - 1
    BY <1>1, <1>2, <1>3
  <2> HIDE DEF qs
  <2>3. DOMAIN qs = 1 .. (n - 1)
    BY <2>1, <2>2
  <2>4. QED
    BY <2>1, <2>2, <2>3
<1> HIDE DEF qs
<1>6. ASSUME NEW i \in 1 .. (n - 1), i < k
      PROVE  i \in 1 .. n /\ qs[i] = ps[i]
  <2>1. i <= k - 1 /\ i \in 1 .. (k - 1)
    BY <1>1, <1>6
  <2>2. QED
    BY <2>1, <1>1, <1>2, <1>5
<1>7. ASSUME NEW i \in 1 .. (n - 1), ~(i < k)
      PROVE  i + 1 \in 1 .. n /\ qs[i] = ps[i + 1]
  <2>1. ~(i <= k - 1) /\ i - (k - 1) \in 1 .. (n - k) /\ k + (i - (k - 1)) = i + 1
        /\ i + 1 \in 1 .. n
    BY <1>1, <1>7
  <2>2. qs[i] = back[i - (k - 1)] /\ back[i - (k - 1)] = ps[k + (i - (k - 1))]
    BY <2>1, <1>3, <1>5
  <2>3. QED
    BY <2>1, <2>2
<1>8. QED
  BY <1>1, <1>4, <1>5, <1>6, <1>7 DEF n

\* Removing the progress of a scope removes all there is of it.
LEMMA RemovedTells ==
    ASSUME NEW ps, NEW shown \in BOOLEAN, NEW phase, Tells(ps, shown, phase),
           NEW scope \in {"manager", "services"}, HasProgress(ps, scope),
           NEW phase2, scope = "services" => phase2 = phase
    PROVE  Tells(Removed(ps, scope), scope # "manager" /\ shown, phase2)
<1> DEFINE k == PositionOf(ps, scope)
           qs == RemoveAt(ps, k)
           Old(i) == IF i < k THEN i ELSE i + 1
           New(i) == IF i < k THEN i ELSE i - 1
<1>0. k \in DOMAIN ps /\ ps[k].scope = scope
  BY Found
<1> HIDE DEF k
<1>1. k \in 1 .. Len(ps) /\ ps[k].scope = scope /\ ps \in Seq(ProgressType)
      /\ DOMAIN ps = 1 .. Len(ps) /\ Len(ps) \in Nat
  BY <1>0 DEF Tells
<1>2. /\ qs \in Seq(ProgressType)
      /\ DOMAIN qs = 1 .. (Len(ps) - 1)
      /\ \A i \in DOMAIN qs : Old(i) \in DOMAIN ps /\ qs[i] = ps[Old(i)]
  BY <1>1, RemoveAtKeeps
<1> HIDE DEF qs
<1>3. \A i, j \in DOMAIN qs : (Old(i) = Old(j) => i = j) /\ Old(i) # k
  BY <1>1, <1>2
<1>4. \A i \in DOMAIN ps : i # k => New(i) \in DOMAIN qs /\ Old(New(i)) = i
  BY <1>1, <1>2
<1> HIDE DEF Old, New
<1>5. \A i, j \in DOMAIN qs : qs[i].scope = qs[j].scope => i = j
  BY <1>2, <1>3 DEF Tells
<1>6. \A i \in DOMAIN qs : qs[i].scope # scope
  BY <1>1, <1>2, <1>3 DEF Tells
<1>7. CASE scope = "manager"
  BY <1>7, <1>2, <1>5, <1>6 DEF Tells, HasProgress, Removed, k, qs
<1>8. CASE scope = "services"
  <2>1. HasProgress(qs, "manager") <=> HasProgress(ps, "manager")
    BY <1>8, <1>1, <1>2, <1>4 DEF HasProgress
  <2>2. \A i \in DOMAIN qs : qs[i].scope = "manager" => qs[i].size = 3 /\ qs[i].index = phase
    BY <1>2 DEF Tells
  <2>3. QED
    BY <2>1, <2>2, <1>8, <1>2, <1>5 DEF Tells, Removed, k, qs
<1>9. QED
  BY <1>7, <1>8

-----------------------------------------------------------------------------
(* Steps that leave the tasks of the installation alone.                   *)

\* The manager may answer other requests, other tasks may run and services may
\* show what they do: what is said of the installation stays.
LEMMA SameInstallation ==
    ASSUME IInv, TypeOK', Requests',
           stage' = stage, installs' = installs,
           Submitting' <=> Submitting, Submitting => manager'.step = manager.step,
           manager'.handling = "install" /\ manager'.step \in 2 .. 4 => stage = "configuring",
           halted' => halted \/ stage = "finished",
           \A k \in Places : /\ outcome'[Task(k)] = outcome[Task(k)]
                             /\ work'[Task(k)] = work[Task(k)]
                             /\ deps'[Task(k)] = deps[Task(k)]
                             /\ always'[Task(k)] = always[Task(k)],
           \A id \in InstallTaskIds : id[2] # 1 => outcome'[id] = outcome[id],
           Tells(progresses', ManagerShown, Phase)
    PROVE  IInv'
<1>1. StartedOnce'
  BY DEF IInv, StartedOnce
<1>2. \A k : Submitted(k)' <=> Submitted(k)
  BY DEF Submitted
<1>3. SubmittedInOrder'
  BY <1>2 DEF IInv, SubmittedInOrder
<1> USE DEF Places
<1>4. Chained'
  BY DEF IInv, Chained
<1>5. WorkDone'
  BY DEF IInv, WorkDone
<1>6. ManagerShown' = ManagerShown /\ Phase' = Phase
  BY DEF ManagerShown, Phase, Begun
<1>7. ProgressShown'
  BY <1>6 DEF ProgressShown
<1>8. StageShown'
  BY DEF IInv, StageShown
<1>9. QED
  BY <1>1, <1>3, <1>4, <1>5, <1>7, <1>8 DEF IInv

\* The manager answers a request that changes nothing of the installation.
LEMMA OtherRequest ==
    ASSUME IInv, TypeOK', Requests', ~Submitting, ~Submitting',
           manager'.handling = "install" /\ manager'.step \in 2 .. 4 => stage = "configuring",
           UNCHANGED <<stage, progresses, graph, work, installs>>,
           halted' => halted \/ stage = "finished"
    PROVE  IInv'
<1>1. /\ stage' = stage /\ progresses' = progresses /\ installs' = installs
      /\ outcome' = outcome /\ work' = work /\ deps' = deps /\ always' = always
  BY DEF graph
<1>2. Tells(progresses', ManagerShown, Phase)
  BY <1>1 DEF IInv, ProgressShown
<1>3. QED
  BY <1>1, <1>2, SameInstallation

LEMMA CheckKeeps ==
    ASSUME IInv, CheckStage \/ CheckIssues \/ CheckProgress
    PROVE  IInv'
<1> USE DEF IInv, At, NextStep, Reply, Idle, Submitting
<1>1. UNCHANGED <<status, graph, work, installs, configs, halted>>
  BY DEF CheckStage, CheckIssues, CheckProgress
<1>2. UNCHANGED <<stage, progresses, graph, work, installs>> /\ halted' = halted
  BY <1>1 DEF status
<1>3. /\ manager.handling = "install" /\ manager.step \in 1 .. 3
      /\ manager.step # 1 => stage = "configuring"
      /\ \/ manager' = [manager EXCEPT !.step = @ + 1] /\ (manager.step = 1 => stage = "configuring")
         \/ manager' = Idle
  BY DEF CheckStage, CheckIssues, CheckProgress, StartedOnce
<1>4. /\ TypeOK' /\ Requests' /\ ~Submitting /\ ~Submitting'
      /\ manager'.handling = "install" /\ manager'.step \in 2 .. 4 => stage = "configuring"
  BY <1>1, <1>3 DEF TypeOK, Graph!TypeOK, Requests, status, graph
<1>5. QED
  BY <1>2, <1>4, OtherRequest

LEMMA AnswerKeeps ==
    ASSUME IInv, \/ ConfigCheckStage \/ Finish \/ IdleStatusTasks \/ IdleStatusProgresses
                 \/ StageStatus \/ Issues
    PROVE  IInv'
<1> USE DEF IInv, At, NextStep, Reply, Idle, Submitting
<1>1. UNCHANGED <<status, graph, work, installs, configs>>
  BY DEF ConfigCheckStage, Finish, IdleStatusTasks, IdleStatusProgresses, StageStatus, Issues
<1>2. UNCHANGED <<stage, progresses, graph, work, installs>>
  BY <1>1 DEF status
<1>3. halted' \in BOOLEAN /\ (halted' => halted \/ stage = "finished")
  <2>1. halted \in BOOLEAN
    BY DEF TypeOK
  <2>2. CASE Finish
    BY <2>1, <2>2 DEF Finish, FinishAction
  <2>3. CASE ~Finish
    <3>1. halted' = halted
      BY <2>3 DEF ConfigCheckStage, IdleStatusTasks, IdleStatusProgresses, StageStatus, Issues
    <3>2. QED
      BY <2>1, <3>1
  <2>4. QED
    BY <2>2, <2>3
<1>4. /\ manager.handling \in {"config", "finish", "idle_status", "stage_status", "issues"}
      /\ \/ /\ manager.handling \in {"config", "idle_status"} /\ manager.step = 1
            /\ manager' = [manager EXCEPT !.step = @ + 1]
         \/ manager' = Idle
  BY DEF ConfigCheckStage, Finish, IdleStatusTasks, IdleStatusProgresses, StageStatus, Issues
<1>5. /\ TypeOK' /\ Requests' /\ ~Submitting /\ ~Submitting'
      /\ manager'.handling # "install"
  BY <1>1, <1>3, <1>4 DEF TypeOK, Graph!TypeOK, Requests, status, graph
<1>6. QED
  BY <1>2, <1>3, <1>5, OtherRequest

LEMMA RequestKeeps ==
    ASSUME IInv, CliRequest \/ WebRequest
    PROVE  IInv'
<1>1. UNCHANGED <<status, graph, work, installs, configs, halted>>
  BY DEF CliRequest, WebRequest
<1>2. UNCHANGED <<stage, progresses, graph, work, installs>> /\ halted' = halted
  BY <1>1 DEF status
<1>3. /\ manager.handling = "none"
      /\ \E h \in {"install", "config", "finish", "idle_status", "stage_status", "issues"},
            f \in {"cli", "web"} : manager' = [handling |-> h, for |-> f, step |-> 1]
  BY DEF CliRequest, WebRequest, Takes
<1>4. TypeOK' /\ Requests' /\ ~Submitting /\ ~Submitting' /\ manager'.step = 1
  BY <1>1, <1>3 DEF IInv, TypeOK, Graph!TypeOK, Requests, status, graph, Submitting
<1>5. QED
  BY <1>2, <1>4, OtherRequest

LEMMA ConfigAddTaskKeeps ==
    ASSUME IInv, ConfigAddTask
    PROVE  IInv'
<1> DEFINE id == <<"set_config", configs + 1>>
<1>0. TypeOK
  BY DEF IInv
<1>1. /\ manager.handling = "config" /\ manager' = Idle
      /\ stage' = stage /\ progresses' = progresses /\ issues' = issues
      /\ work' = work /\ installs' = installs /\ halted' = halted
      /\ configs < MaxConfigs /\ configs' = configs + 1
      /\ outcome' = [outcome EXCEPT ![id] = "pending"]
      /\ deps' = [deps EXCEPT ![id] = {}]
      /\ always' = [always EXCEPT ![id] = FALSE]
  BY DEF ConfigAddTask, At, Reply, Graph!Add, status
<1>2. configs + 1 \in 1 .. MaxConfigs /\ configs + 1 \in 0 .. MaxConfigs
  BY <1>0, <1>1, BoundsAssumption DEF TypeOK
<1>3. id \in ConfigTaskIds /\ id \in TaskIds /\ id \notin InstallTaskIds
  <2>1. id \in ConfigTaskIds /\ id \in TaskIds
    BY <1>2 DEF ConfigTaskIds, TaskIds
  <2>2. \A t \in InstallTaskIds : t[1] # "set_config"
    BY Order DEF InstallTaskIds, ToSet, Places
  <2>3. QED
    BY <2>1, <2>2
<1> HIDE DEF id
<1>4. \A t \in TaskIds : t # id => /\ outcome'[t] = outcome[t] /\ deps'[t] = deps[t]
                                   /\ always'[t] = always[t] /\ work'[t] = work[t]
  BY <1>0, <1>1 DEF TypeOK, Graph!TypeOK
<1>5. TypeOK' /\ Requests'
  BY <1>0, <1>1, <1>2, <1>3 DEF TypeOK, Graph!TypeOK, Graph!Outcome, Requests, Idle
<1>6. ~Submitting /\ ~Submitting' /\ manager'.handling # "install"
  BY <1>1 DEF Submitting, Idle
<1>7. \A k \in Places : Task(k) \in TaskIds /\ Task(k) # id
  BY <1>3, Tasks
<1>8. \A t \in InstallTaskIds : t \in TaskIds /\ t # id
  BY <1>3 DEF TaskIds
<1>9. Tells(progresses', ManagerShown, Phase)
  BY <1>1 DEF IInv, ProgressShown
<1>10. QED
  BY <1>1, <1>4, <1>5, <1>6, <1>7, <1>8, <1>9, SameInstallation

\* A service shows a progress of its own, and ends it.
LEMMA ServiceProgressKeeps ==
    ASSUME IInv, ServiceProgressStarts \/ ServiceProgressEnds
    PROVE  IInv'
<1> DEFINE shown == ManagerShown
<1>1. shown \in BOOLEAN /\ Tells(progresses, shown, Phase)
  BY DEF IInv, ProgressShown, ManagerShown
<1>2. UNCHANGED <<stage, issues, graph, work, manager, installs, configs, halted>>
  BY DEF ServiceProgressStarts, ServiceProgressEnds
<1> HIDE DEF shown
<1>3. Tells(progresses', shown, Phase)
  <2>1. CASE ServiceProgressStarts
    <3> DEFINE p == NewProgress("services", 1)
    <3>1. p \in ProgressType /\ p.scope = "services"
      BY DEF NewProgress, ProgressType
    <3>2. progresses' = Added(progresses, p) /\ ~HasProgress(progresses, "services")
      BY <2>1 DEF ServiceProgressStarts
    <3> HIDE DEF p
    <3>3. QED
      BY <1>1, <3>1, <3>2, AddedTells
  <2>2. CASE ServiceProgressEnds
    <3>1. progresses' = Removed(progresses, "services") /\ HasProgress(progresses, "services")
      BY <2>2 DEF ServiceProgressEnds
    <3>2. Tells(progresses', "services" # "manager" /\ shown, Phase)
      BY <1>1, <3>1, RemovedTells
    <3>3. ("services" # "manager" /\ shown) = shown
      BY <1>1
    <3>4. QED
      BY <3>2, <3>3
  <2>3. QED
    BY <2>1, <2>2
<1>4. TypeOK' /\ Requests'
  BY <1>2, <1>3 DEF IInv, TypeOK, Graph!TypeOK, Requests, graph, Tells, ProgressType
<1>5. /\ Submitting' = Submitting /\ manager' = manager /\ stage' = stage /\ halted' = halted
      /\ manager'.handling = "install" /\ manager'.step \in 2 .. 4 => stage = "configuring"
      /\ outcome' = outcome /\ deps' = deps /\ always' = always /\ work' = work
      /\ installs' = installs
  BY <1>2 DEF Submitting, IInv, StartedOnce, graph
<1>6. QED
  BY <1>3, <1>4, <1>5, SameInstallation DEF shown

-----------------------------------------------------------------------------
(* The installation starts.                                                *)

LEMMA SetStageInstallingKeeps ==
    ASSUME IInv, SetStageInstalling
    PROVE  IInv'
<1>1. /\ manager.handling = "install" /\ manager.step = 4
      /\ manager' = [manager EXCEPT !.step = @ + 1]
      /\ stage' = "installing" /\ installs' = installs + 1 /\ installs < MaxInstalls
      /\ progresses' = progresses /\ issues' = issues /\ work' = work
      /\ outcome' = outcome /\ deps' = deps /\ always' = always
      /\ configs' = configs /\ halted' = halted
  BY DEF SetStageInstalling, At, NextStep, graph
<1>2. stage = "configuring" /\ installs = 0 /\ installs' = 1
  BY <1>1 DEF IInv, StartedOnce
<1>3. manager'.handling = "install" /\ manager'.step = 5
  BY <1>1 DEF IInv, TypeOK
<1>4. TypeOK' /\ Requests' /\ StartedOnce'
  <2>1. TypeOK'
    BY <1>1, <1>2, <1>3, BoundsAssumption DEF IInv, TypeOK, Graph!TypeOK
  <2>2. Requests' /\ StartedOnce'
    BY <1>1, <1>2, <1>3 DEF Requests, StartedOnce, Submitting
  <2>3. QED
    BY <2>1, <2>2
<1>5. \A k \in Places : ~Submitted(k) /\ ~Submitted(k)'
  BY <1>2, <1>3 DEF Submitted, Submitting, Places
<1>6. SubmittedInOrder'
  BY <1>1, <1>5 DEF IInv, SubmittedInOrder
<1>7. Chained' /\ WorkDone'
  BY <1>1 DEF IInv, Chained, WorkDone
<1>8. ~ManagerShown /\ ~ManagerShown' /\ Phase' = Phase
  BY <1>1, <1>2, <1>3 DEF ManagerShown, Submitting, Phase, Begun
<1>9. ProgressShown'
  BY <1>1, <1>8 DEF IInv, ProgressShown, Tells
<1>10. StageShown'
  BY <1>1, <1>2 DEF IInv, StageShown
<1>11. QED
  BY <1>4, <1>6, <1>7, <1>9, <1>10 DEF IInv

LEMMA StartProgressKeeps ==
    ASSUME IInv, StartProgress
    PROVE  IInv'
<1> DEFINE p == NewProgress("manager", 3)
<1>1. /\ manager.handling = "install" /\ manager.step = 5
      /\ manager' = [manager EXCEPT !.step = @ + 1]
      /\ stage' = stage /\ installs' = installs
      /\ progresses' = Added(progresses, p) /\ issues' = issues /\ work' = work
      /\ ~HasProgress(progresses, "manager")
      /\ outcome' = outcome /\ deps' = deps /\ always' = always
      /\ configs' = configs /\ halted' = halted
  BY DEF StartProgress, At, NextStep, graph
<1>2. p \in ProgressType /\ p.scope = "manager" /\ p.size = 3 /\ p.index = 1
  BY DEF NewProgress, ProgressType
<1> HIDE DEF p
<1>3. manager'.handling = "install" /\ manager'.step = 6 /\ Submitting /\ Submitting'
  BY <1>1 DEF IInv, TypeOK, Submitting
<1>4. installs = 1 /\ stage # "configuring"
  BY <1>3 DEF IInv, StartedOnce
<1>5. \A k \in Places : ~Submitted(k) /\ ~Submitted(k)'
  BY <1>1, <1>3 DEF Submitted, Places
<1>6. \A k \in Places : outcome[Task(k)] = "absent" /\ work[Task(k)] = 0
  BY <1>5 DEF IInv, SubmittedInOrder, WorkDone
<1>7. ~ManagerShown /\ ManagerShown' /\ Phase = 1 /\ Phase' = 1
  BY <1>1, <1>3, <1>4, <1>6 DEF ManagerShown, Phase, Begun, Places
<1>8. Tells(progresses, FALSE, 1)
  BY <1>7 DEF IInv, ProgressShown, Tells
<1>9. Tells(progresses', TRUE, 1)
  BY <1>1, <1>2, <1>8, AddedTells
<1>10. ProgressShown'
  BY <1>7, <1>9 DEF ProgressShown, Tells
<1>11. TypeOK' /\ Requests' /\ StartedOnce'
  BY <1>1, <1>3, <1>4, <1>9 DEF IInv, TypeOK, Graph!TypeOK, Requests, StartedOnce, Submitting,
                                Tells, ProgressType
<1>12. SubmittedInOrder'
  BY <1>1, <1>5 DEF IInv, SubmittedInOrder
<1>13. Chained' /\ WorkDone' /\ StageShown'
  BY <1>1 DEF IInv, Chained, WorkDone, StageShown
<1>14. QED
  BY <1>10, <1>11, <1>12, <1>13 DEF IInv

\* The tasks are submitted in order, each one once.
LEMMA AddTaskKeeps ==
    ASSUME IInv, NEW k \in DOMAIN InstallOrder, AddTask(k)
    PROVE  IInv'
<1>0. k \in Places /\ k \in 1 .. 6 /\ TypeOK
  BY Order DEF IInv, Places
<1>1. manager.handling = "install" /\ manager.step = 5 + k
  BY DEF AddTask, At
<1>2. Submitting /\ installs = 1 /\ stage # "configuring"
  BY <1>0, <1>1 DEF IInv, StartedOnce, Submitting
<1>3. <<InstallOrder[k], installs>> = Task(k) /\ (InstallOrder[k] = "finalize" <=> k = 6)
  BY <1>0, <1>2, Order DEF Task, Places
<1>4. /\ outcome' = [outcome EXCEPT ![Task(k)] = "pending"]
      /\ deps' = [deps EXCEPT ![Task(k)] = DependenciesOf(k, 1)]
      /\ always' = [always EXCEPT ![Task(k)] = (k = 6)]
      /\ IF k = 6 THEN manager' = Idle ELSE manager' = [manager EXCEPT !.step = @ + 1]
      /\ stage' = stage /\ progresses' = progresses /\ issues' = issues /\ work' = work
      /\ installs' = installs /\ configs' = configs /\ halted' = halted
  BY <1>2, <1>3, Order DEF AddTask, Graph!Add, Reply, NextStep, status
<1>5. DependenciesOf(k, 1) \subseteq TaskIds
  <2>1. k = 1 \/ k \in 2 .. 5 \/ k = 6
    BY <1>0
  <2>2. \A j \in 1 .. 5 : Task(j) \in TaskIds
    BY Tasks DEF Places
  <2>3. \A j \in 2 .. 5 : j - 1 \in 1 .. 5
    OBVIOUS
  <2>4. QED
    BY <2>1, <2>2, <2>3, Dependencies
<1>6. /\ Task(k) \in TaskIds
      /\ \A j \in Places : Task(j) \in TaskIds /\ (j # k => Task(j) # Task(k))
      /\ \A id \in InstallTaskIds : id \in TaskIds /\ (id[2] # 1 => id # Task(k))
  BY <1>0, Tasks DEF TaskIds
<1>7. /\ outcome'[Task(k)] = "pending" /\ deps'[Task(k)] = DependenciesOf(k, 1)
      /\ always'[Task(k)] = (k = 6)
      /\ \A j \in Places : j # k => /\ outcome'[Task(j)] = outcome[Task(j)]
                                    /\ deps'[Task(j)] = deps[Task(j)]
                                    /\ always'[Task(j)] = always[Task(j)]
      /\ \A id \in InstallTaskIds : id[2] # 1 => outcome'[id] = outcome[id]
  BY <1>0, <1>4, <1>6 DEF TypeOK, Graph!TypeOK
<1>8. \/ k = 6 /\ manager'.handling = "none" /\ manager'.step = 1
      \/ k < 6 /\ manager'.handling = "install" /\ manager'.step = 6 + k
  BY <1>0, <1>1, <1>4 DEF TypeOK, Idle
<1>9. TypeOK' /\ Requests' /\ StartedOnce'
  <2>1. outcome' \in [TaskIds -> Graph!Outcome] /\ deps' \in [TaskIds -> SUBSET TaskIds]
        /\ always' \in [TaskIds -> BOOLEAN]
    BY <1>0, <1>4, <1>5 DEF TypeOK, Graph!TypeOK, Graph!Outcome
  <2>2. manager' \in [handling : {"none", "install", "config", "finish", "idle_status",
                                "stage_status", "issues"},
                    for : {"cli", "web"}, step : 1 .. 11]
    BY <1>0, <1>1, <1>4 DEF TypeOK, Idle
  <2>3. TypeOK'
    BY <2>1, <2>2, <1>0, <1>4 DEF TypeOK, Graph!TypeOK
  <2>4. Requests' /\ StartedOnce'
    BY <1>0, <1>2, <1>4, <1>8 DEF Requests, StartedOnce, Submitting, IInv
  <2>5. QED
    BY <2>3, <2>4
<1>10. /\ \A j \in Places : Submitted(j) <=> j < k
       /\ \A j \in Places : Submitted(j)' <=> j <= k
  BY <1>0, <1>1, <1>2, <1>4, <1>8 DEF Submitted, Submitting, Places
<1>11. SubmittedInOrder'
  BY <1>0, <1>7, <1>10 DEF IInv, SubmittedInOrder, Places
<1>12. \A j \in Places : j >= k => outcome[Task(j)] = "absent" /\ work[Task(j)] = 0
  BY <1>0, <1>10 DEF IInv, SubmittedInOrder, WorkDone, Places
<1> USE DEF Places
<1>13. Chained'
  BY <1>0, <1>7, <1>12 DEF IInv, Chained, Ended
<1>14. WorkDone'
  BY <1>0, <1>4, <1>7, <1>12 DEF IInv, WorkDone
<1>15. ManagerShown' = ManagerShown /\ Phase' = Phase
  BY <1>0, <1>1, <1>2, <1>4, <1>8 DEF ManagerShown, Submitting, Phase, Begun
<1>16. ProgressShown' /\ StageShown'
  BY <1>4, <1>15 DEF IInv, ProgressShown, StageShown
<1>17. QED
  BY <1>9, <1>11, <1>13, <1>14, <1>16 DEF IInv

-----------------------------------------------------------------------------
(* The tasks of the installation run.                                      *)

\* While a task waits or runs, those after it wait; when it runs, those before
\* it succeeded.
LEMMA Around ==
    ASSUME IInv, NEW k \in 1 .. 5, outcome[Task(k)] \in {"pending", "running"}
    PROVE  /\ \A j \in 1 .. 6 : j > k => outcome[Task(j)] \in {"absent", "pending"}
                                         /\ work[Task(j)] = 0
           /\ outcome[Task(k)] = "running" => \A j \in 1 .. 5 : j < k => outcome[Task(j)] = "ok"
<1>0. outcome \in [TaskIds -> Graph!Outcome] /\ \A j \in 1 .. 6 : Task(j) \in TaskIds
  BY Tasks DEF IInv, TypeOK, Graph!TypeOK, Places
<1>1. \A j \in 1 .. 6 : outcome[Task(j)] \in {"absent", "pending", "running", "ok", "failed", "cancelled"}
  BY <1>0 DEF Graph!Outcome, Graph!Resolved, Graph!Failed
<1>2. \A j \in 2 .. 5 :
         outcome[Task(j - 1)] \in {"absent", "pending", "running"}
            => outcome[Task(j)] \in {"absent", "pending"}
  BY <1>1 DEF IInv, Chained
<1>3. \A j \in 1 .. 5 : j > k => outcome[Task(j)] \in {"absent", "pending"}
  <2>1. k = 1 \/ k = 2 \/ k = 3 \/ k = 4 \/ k = 5
    OBVIOUS
  <2>2. /\ outcome[Task(1)] \in {"absent", "pending", "running"} => outcome[Task(2)] \in {"absent", "pending"}
        /\ outcome[Task(2)] \in {"absent", "pending", "running"} => outcome[Task(3)] \in {"absent", "pending"}
        /\ outcome[Task(3)] \in {"absent", "pending", "running"} => outcome[Task(4)] \in {"absent", "pending"}
        /\ outcome[Task(4)] \in {"absent", "pending", "running"} => outcome[Task(5)] \in {"absent", "pending"}
    BY <1>2
  <2>3. QED
    BY <2>1, <2>2
<1>4. outcome[Task(6)] \in {"absent", "pending"}
  BY <1>1 DEF IInv, Chained, Ended
<1>5. \A j \in 1 .. 6 : j > k => outcome[Task(j)] \in {"absent", "pending"}
  BY <1>3, <1>4
<1>6. \A j \in 1 .. 6 : j > k => work[Task(j)] = 0
  BY <1>5 DEF IInv, WorkDone, Places
<1>7. ASSUME outcome[Task(k)] = "running", NEW j \in 1 .. 5, j < k
      PROVE  outcome[Task(j)] = "ok"
  <2>1. /\ outcome[Task(5)] \in {"running", "ok"} => outcome[Task(4)] = "ok"
        /\ outcome[Task(4)] \in {"running", "ok"} => outcome[Task(3)] = "ok"
        /\ outcome[Task(3)] \in {"running", "ok"} => outcome[Task(2)] = "ok"
        /\ outcome[Task(2)] \in {"running", "ok"} => outcome[Task(1)] = "ok"
    BY DEF IInv, Chained
  <2>2. QED
    BY <1>7, <2>1
<1>8. QED
  BY <1>5, <1>6, <1>7

\* What a step of a task leaves alone: the requests, and what was submitted.
\* The manager has shown its progress before the first task is there.
LEMMA TaskFrame ==
    ASSUME IInv, NEW k \in Places,
           outcome[Task(k)] # "absent", outcome'[Task(k)] # "absent",
           \A j \in Places : j # k => outcome'[Task(j)] = outcome[Task(j)],
           \A id \in InstallTaskIds : id[2] # 1 => outcome'[id] = outcome[id],
           UNCHANGED <<manager, installs, deps, always>>,
           stage' # "configuring" \/ stage' = stage
    PROVE  /\ Requests' /\ StartedOnce' /\ SubmittedInOrder'
           /\ ManagerShown <=> work[Task(5)] = 0 /\ work[Task(6)] = 0
           /\ ManagerShown' <=> work'[Task(5)] = 0 /\ work'[Task(6)] = 0
<1>1. Submitted(k)
  BY DEF IInv, SubmittedInOrder
<1>2. installs = 1 /\ stage # "configuring" /\ (Submitting => manager.step # 5)
  BY <1>1 DEF Submitted, IInv, StartedOnce, Places, TypeOK
<1>3. Requests' /\ StartedOnce'
  BY <1>2 DEF IInv, Requests, StartedOnce, Submitting
<1>4. \A j : Submitted(j)' <=> Submitted(j)
  BY DEF Submitted, Submitting
<1>5. SubmittedInOrder'
  BY <1>4 DEF IInv, SubmittedInOrder
<1>6. /\ ManagerShown <=> work[Task(5)] = 0 /\ work[Task(6)] = 0
      /\ ManagerShown' <=> work'[Task(5)] = 0 /\ work'[Task(6)] = 0
  BY <1>2 DEF ManagerShown, Submitting
<1>7. QED
  BY <1>3, <1>5, <1>6

\* A task starts or is cancelled.
LEMMA ResolveKeeps ==
    ASSUME IInv, NEW k \in Places, Resolve(Task(k))
    PROVE  IInv'
<1>0. TypeOK /\ k \in 1 .. 6 /\ Task(k) \in TaskIds
      /\ \A j \in Places : Task(j) \in TaskIds /\ (j # k => Task(j) # Task(k))
      /\ \A id \in InstallTaskIds : id \in TaskIds /\ (id[2] # 1 => id # Task(k))
  BY Tasks DEF IInv, Places, TaskIds
<1>1. /\ outcome[Task(k)] = "pending"
      /\ \A d \in deps[Task(k)] : outcome[d] \in Ended
      /\ \/ /\ always[Task(k)] \/ \A d \in deps[Task(k)] : outcome[d] \notin {"failed", "cancelled"}
            /\ outcome' = [outcome EXCEPT ![Task(k)] = "running"]
         \/ /\ ~always[Task(k)] /\ \E d \in deps[Task(k)] : outcome[d] \in {"failed", "cancelled"}
            /\ outcome' = [outcome EXCEPT ![Task(k)] = "cancelled"]
  BY DEF Resolve, Graph!Start, Graph!Cancel, Graph!DepsResolved, Graph!FailedDeps,
         Graph!Resolved, Graph!Failed, Ended
<1>2. /\ stage' = stage /\ progresses' = progresses /\ issues' = issues /\ work' = work
      /\ deps' = deps /\ always' = always /\ manager' = manager
      /\ installs' = installs /\ configs' = configs /\ halted' = halted
  BY DEF Resolve, Graph!Start, Graph!Cancel, status
<1>3. /\ outcome'[Task(k)] \in {"running", "cancelled"}
      /\ \A j \in Places : j # k => outcome'[Task(j)] = outcome[Task(j)]
      /\ \A id \in InstallTaskIds : id[2] # 1 => outcome'[id] = outcome[id]
      /\ outcome' \in [TaskIds -> Graph!Outcome]
  BY <1>0, <1>1 DEF TypeOK, Graph!TypeOK, Graph!Outcome, Graph!Resolved, Graph!Failed
<1>4. TypeOK'
  BY <1>0, <1>2, <1>3 DEF TypeOK, Graph!TypeOK
<1>5. /\ Requests' /\ StartedOnce' /\ SubmittedInOrder'
      /\ ManagerShown <=> work[Task(5)] = 0 /\ work[Task(6)] = 0
      /\ ManagerShown' <=> work'[Task(5)] = 0 /\ work'[Task(6)] = 0
  BY <1>1, <1>2, <1>3, TaskFrame
<1>6. deps[Task(k)] = DependenciesOf(k, 1) /\ always[Task(k)] = (k = 6)
  BY <1>1 DEF IInv, SubmittedInOrder
<1>7. /\ k = 1 => outcome'[Task(k)] = "running"
      /\ k \in 2 .. 5 => /\ outcome'[Task(k)] = "running" => outcome[Task(k - 1)] = "ok"
                         /\ outcome'[Task(k)] = "cancelled"
                               => outcome[Task(k - 1)] \in {"failed", "cancelled"}
      /\ k = 6 => outcome'[Task(k)] = "running" /\ \A j \in 1 .. 5 : outcome[Task(j)] \in Ended
  <2>1. CASE k = 1
    BY <2>1, <1>0, <1>1, <1>6, Dependencies DEF TypeOK, Graph!TypeOK
  <2>2. CASE k \in 2 .. 5
    <3>1. deps[Task(k)] = {Task(k - 1)}
      BY <2>2, <1>6, Dependencies
    <3>2. k # 6
      BY <2>2
    <3>3. ~always[Task(k)]
      BY <3>2, <1>6
    <3>4. QED
      BY <3>1, <3>3, <2>2, <1>0, <1>1 DEF TypeOK, Graph!TypeOK, Ended
  <2>3. CASE k = 6
    <3>1. deps[Task(k)] = {Task(j) : j \in 1 .. 5} /\ always[Task(k)]
      BY <2>3, <1>6, Dependencies
    <3>2. QED
      BY <3>1, <2>3, <1>0, <1>1 DEF TypeOK, Graph!TypeOK, Ended
  <2>4. QED
    BY <2>1, <2>2, <2>3, <1>0
<1>8. \A j \in 2 .. 5 : j - 1 = k => outcome[Task(j)] \in {"absent", "pending"}
  BY <1>0, <1>1, Around
<1>9. k # 6 => outcome[Task(6)] \in {"absent", "pending"}
  BY <1>0, <1>1, Around
<1>10. work[Task(k)] = 0
  BY <1>1 DEF IInv, WorkDone
<1> USE DEF Places
<1>11. Chained'
  <2>1. \A j \in 2 .. 5 :
           /\ outcome'[Task(j)] \in {"running", "ok", "failed"} => outcome'[Task(j - 1)] = "ok"
           /\ outcome'[Task(j)] = "cancelled" => outcome'[Task(j - 1)] \in {"failed", "cancelled"}
    BY <1>0, <1>1, <1>3, <1>7, <1>8 DEF IInv, Chained
  <2>2. /\ outcome'[Task(1)] # "cancelled" /\ outcome'[Task(5)] # "failed"
        /\ outcome'[Task(6)] \notin {"failed", "cancelled"}
    BY <1>0, <1>1, <1>3, <1>7 DEF IInv, Chained
  <2>3. outcome'[Task(6)] \in {"running", "ok"} => \A j \in 1 .. 5 : outcome'[Task(j)] \in Ended
    BY <1>0, <1>1, <1>3, <1>7, <1>9 DEF IInv, Chained
  <2>4. QED
    BY <2>1, <2>2, <2>3 DEF Chained
<1>12. WorkDone'
  <2>1. work[Task(6)] > 0 => \E j \in 1 .. 5 : j # k /\ outcome[Task(j)] \in {"failed", "cancelled"}
    BY <1>0, <1>1 DEF IInv, WorkDone
  <2>2. work'[Task(6)] > 0 => \E j \in 1 .. 5 : outcome'[Task(j)] \in {"failed", "cancelled"}
    BY <2>1, <1>2, <1>3
  <2>3. \A j \in {3, 4} : Calls(InstallOrder[j]) \in Nat
    BY DEF Calls
  <2>4. QED
    BY <2>2, <2>3, <1>0, <1>1, <1>2, <1>3, <1>10 DEF IInv, WorkDone
<1>13. ProgressShown' /\ StageShown'
  BY <1>2, <1>5 DEF IInv, ProgressShown, StageShown, ManagerShown, Phase, Begun, Submitting
<1>14. QED
  BY <1>4, <1>5, <1>11, <1>12, <1>13 DEF IInv

\* The invariant, but for the progress and the stage, after a step of a task
\* that runs: it may end, and work.
LEMMA RunKeeps ==
    ASSUME IInv, TypeOK', NEW k \in Places, outcome[Task(k)] = "running",
           outcome'[Task(k)] \in {"running", "ok", "failed"},
           \A j \in Places : j # k => /\ outcome'[Task(j)] = outcome[Task(j)]
                                      /\ work'[Task(j)] = work[Task(j)],
           \A id \in InstallTaskIds : id[2] # 1 => outcome'[id] = outcome[id],
           k \in {5, 6} => outcome'[Task(k)] # "failed",
           k \in {3, 4} => /\ outcome'[Task(k)] = "running" => work'[Task(k)] <= Calls(InstallOrder[k])
                           /\ outcome'[Task(k)] = "ok" => work'[Task(k)] > 0,
           k = 5 => /\ work'[Task(5)] <= 2
                    /\ outcome'[Task(5)] = "ok" => work'[Task(5)] = 2,
           k = 6 => /\ work'[Task(6)] <= 2
                    /\ work'[Task(6)] > 0 =>
                          \E j \in 1 .. 5 : outcome[Task(j)] \in {"failed", "cancelled"}
    PROVE  Chained' /\ WorkDone'
<1>0. k \in 1 .. 6
  BY DEF Places
<1>1. /\ k # 6 => outcome[Task(6)] \in {"absent", "pending"} /\ work[Task(6)] = 0
      /\ \A j \in 2 .. 5 : j - 1 = k => outcome[Task(j)] \in {"absent", "pending"}
  BY <1>0, Around
<1> USE DEF Places
<1>2. Chained'
  <2>1. \A j \in 2 .. 5 :
           /\ outcome'[Task(j)] \in {"running", "ok", "failed"} => outcome'[Task(j - 1)] = "ok"
           /\ outcome'[Task(j)] = "cancelled" => outcome'[Task(j - 1)] \in {"failed", "cancelled"}
    BY <1>0, <1>1 DEF IInv, Chained
  <2>2. /\ outcome'[Task(1)] # "cancelled" /\ outcome'[Task(5)] # "failed"
        /\ outcome'[Task(6)] \notin {"failed", "cancelled"}
    BY <1>0 DEF IInv, Chained
  <2>3. outcome'[Task(6)] \in {"running", "ok"} => \A j \in 1 .. 5 : outcome'[Task(j)] \in Ended
    BY <1>0, <1>1 DEF IInv, Chained, Ended
  <2>4. QED
    BY <2>1, <2>2, <2>3 DEF Chained
<1>3. WorkDone'
  <2>1. \A j \in Places : outcome'[Task(j)] \in {"absent", "pending", "cancelled"} => work'[Task(j)] = 0
    BY DEF IInv, WorkDone
  <2>2. \A j \in {3, 4} :
           /\ outcome'[Task(j)] = "running" => work'[Task(j)] <= Calls(InstallOrder[j])
           /\ outcome'[Task(j)] = "ok" => work'[Task(j)] > 0
    BY DEF IInv, WorkDone
  <2>3. work'[Task(5)] <= 2 /\ work'[Task(6)] <= 2 /\ (outcome'[Task(5)] = "ok" => work'[Task(5)] = 2)
    BY DEF IInv, WorkDone
  <2>4. work'[Task(6)] > 0 => \E j \in 1 .. 5 : outcome'[Task(j)] \in {"failed", "cancelled"}
    BY <1>0, <1>1 DEF IInv, WorkDone
  <2>5. QED
    BY <2>1, <2>2, <2>3, <2>4 DEF WorkDone
<1>4. QED
  BY <1>2, <1>3

\* Ending a task, and counting its work, change nothing of the others.
LEMMA AtTask ==
    ASSUME TypeOK, NEW k \in Places
    PROVE  /\ TypeOK /\ k \in 1 .. 6 /\ Task(k) \in TaskIds
           /\ \A n : n = 1 => <<InstallOrder[k], n>> = Task(k)
           /\ \A r \in {"ok", "failed"} :
                 LET o == [outcome EXCEPT ![Task(k)] = r]
                 IN  /\ o \in [TaskIds -> Graph!Outcome] /\ o[Task(k)] = r
                     /\ \A j \in Places : j # k => o[Task(j)] = outcome[Task(j)]
                     /\ \A id \in InstallTaskIds : id[2] # 1 => o[id] = outcome[id]
           /\ LET w == [work EXCEPT ![Task(k)] = @ + 1]
              IN  /\ w[Task(k)] = work[Task(k)] + 1
                  /\ work[Task(k)] < 13 => w \in [TaskIds -> 0 .. 13]
                  /\ \A j \in Places : j # k => w[Task(j)] = work[Task(j)]
           /\ work[Task(k)] \in 0 .. 13
<1>1. /\ \A j \in Places : Task(j) \in TaskIds /\ (j # k => Task(j) # Task(k))
      /\ \A id \in InstallTaskIds : id \in TaskIds /\ (id[2] # 1 => id # Task(k))
  BY Tasks DEF TaskIds
<1>2. \A n : n = 1 => <<InstallOrder[k], n>> = Task(k)
  BY DEF Task
<1>3. k \in 1 .. 6
  BY DEF Places
<1>4. outcome \in [TaskIds -> Graph!Outcome] /\ work \in [TaskIds -> 0 .. 13]
  BY DEF TypeOK, Graph!TypeOK
<1>5. ASSUME NEW r \in {"ok", "failed"}
      PROVE  LET o == [outcome EXCEPT ![Task(k)] = r]
             IN  /\ o \in [TaskIds -> Graph!Outcome] /\ o[Task(k)] = r
                 /\ \A j \in Places : j # k => o[Task(j)] = outcome[Task(j)]
                 /\ \A id \in InstallTaskIds : id[2] # 1 => o[id] = outcome[id]
  BY <1>1, <1>4 DEF Graph!Outcome, Graph!Resolved, Graph!Failed
<1>6. LET w == [work EXCEPT ![Task(k)] = @ + 1]
      IN  /\ w[Task(k)] = work[Task(k)] + 1
          /\ work[Task(k)] < 13 => w \in [TaskIds -> 0 .. 13]
          /\ \A j \in Places : j # k => w[Task(j)] = work[Task(j)]
  BY <1>1, <1>4
<1>7. QED
  BY <1>1, <1>2, <1>3, <1>4, <1>5, <1>6

LEMMA EndsAt ==
    ASSUME TypeOK, NEW k \in Places, NEW r \in {"ok", "failed"},
           outcome' = [outcome EXCEPT ![Task(k)] = r]
    PROVE  /\ outcome' \in [TaskIds -> Graph!Outcome]
           /\ outcome'[Task(k)] = r
           /\ \A j \in Places : j # k => outcome'[Task(j)] = outcome[Task(j)]
           /\ \A id \in InstallTaskIds : id[2] # 1 => outcome'[id] = outcome[id]
BY AtTask

LEMMA WorksAt ==
    ASSUME TypeOK, NEW k \in Places, work[Task(k)] < 13,
           work' = [work EXCEPT ![Task(k)] = @ + 1]
    PROVE  /\ work' \in [TaskIds -> 0 .. 13]
           /\ work'[Task(k)] = work[Task(k)] + 1
           /\ \A j \in Places : j # k => work'[Task(j)] = work[Task(j)]
BY AtTask

LEMMA OneCallKeeps ==
    ASSUME IInv, NEW k \in {1, 2}, OneCall(InstallOrder[k], 1)
    PROVE  IInv'
<1>0. TypeOK /\ k \in Places
  BY DEF IInv, Places
<1>1. Task(k) = <<InstallOrder[k], 1>>
  BY DEF Task
<1>2. PICK r \in {"ok", "failed"} : outcome' = [outcome EXCEPT ![Task(k)] = r]
  BY <1>1 DEF OneCall, Complete
<1>3. /\ outcome[Task(k)] = "running"
      /\ stage' = stage /\ progresses' = progresses /\ work' = work /\ issues' = issues
      /\ deps' = deps /\ always' = always /\ manager' = manager
      /\ installs' = installs /\ configs' = configs /\ halted' = halted
  BY <1>0, <1>1, Order DEF OneCall, Running
<1>4. /\ outcome'[Task(k)] = r
      /\ outcome' \in [TaskIds -> Graph!Outcome]
      /\ \A j \in Places : j # k => outcome'[Task(j)] = outcome[Task(j)]
      /\ \A id \in InstallTaskIds : id[2] # 1 => outcome'[id] = outcome[id]
  BY <1>0, <1>2, AtTask
<1>5. TypeOK'
  BY <1>0, <1>3, <1>4 DEF TypeOK, Graph!TypeOK
<1>6. /\ Requests' /\ StartedOnce' /\ SubmittedInOrder'
      /\ ManagerShown <=> work[Task(5)] = 0 /\ work[Task(6)] = 0
      /\ ManagerShown' <=> work'[Task(5)] = 0 /\ work'[Task(6)] = 0
  BY <1>0, <1>3, <1>4, TaskFrame
<1>7. Chained' /\ WorkDone'
  BY <1>0, <1>3, <1>4, <1>5, RunKeeps
<1>8. ManagerShown' = ManagerShown /\ Phase' = Phase
  BY <1>3 DEF ManagerShown, Phase, Begun, Submitting
<1>9. ProgressShown' /\ StageShown'
  BY <1>3, <1>8 DEF IInv, ProgressShown, StageShown
<1>10. QED
  BY <1>5, <1>6, <1>7, <1>9 DEF IInv

\* The tasks that begin a phase.
LEMMA NextProgressKeeps ==
    ASSUME IInv, NEW k \in {3, 4}, NextProgress(InstallOrder[k], 1)
    PROVE  IInv'
<1>0. TypeOK /\ k \in Places /\ k \in 1 .. 5
  BY DEF IInv, Places
<1>1. Task(k) = <<InstallOrder[k], 1>>
  BY DEF Task
<1>2. /\ outcome[Task(k)] = "running" /\ work[Task(k)] = 0
      /\ HasProgress(progresses, "manager")
      /\ progresses' = Replaced(progresses, Advanced(ProgressOf(progresses, "manager")))
      /\ work' = [work EXCEPT ![Task(k)] = @ + 1]
      /\ stage' = stage /\ issues' = issues
      /\ outcome' = outcome /\ deps' = deps /\ always' = always /\ manager' = manager
      /\ installs' = installs /\ configs' = configs /\ halted' = halted
  BY <1>1 DEF NextProgress, Running, Made, graph
<1>3. /\ work'[Task(k)] = 1 /\ work' \in [TaskIds -> 0 .. 13]
      /\ \A j \in Places : j # k => work'[Task(j)] = work[Task(j)]
  BY <1>0, <1>2, AtTask
<1>4. /\ k = 3 => work[Task(4)] = 0
      /\ k = 4 => work[Task(3)] > 0
      /\ work[Task(5)] = 0 /\ work[Task(6)] = 0
  <2>1. \A j \in 1 .. 6 : j > k => work[Task(j)] = 0
    BY <1>0, <1>2, Around
  <2>2. k = 4 => outcome[Task(3)] = "ok"
    BY <1>0, <1>2, Around
  <2>3. k = 4 => work[Task(3)] > 0
    BY <2>2 DEF IInv, WorkDone
  <2>4. QED
    BY <2>1, <2>3
<1>5. ManagerShown /\ Tells(progresses, TRUE, Phase)
  <2>1. ManagerShown
    BY <1>2 DEF IInv, ProgressShown, Tells
  <2>2. QED
    BY <2>1 DEF IInv, ProgressShown, Tells
<1>6. Phase \in 1 .. 2 /\ Phase' = Phase + 1
  <2>1. work[Task(3)] \in Nat /\ work[Task(4)] \in Nat
    BY <1>0, AtTask DEF Places
  <2>2. work'[Task(3)] = (IF k = 3 THEN 1 ELSE work[Task(3)])
        /\ work'[Task(4)] = (IF k = 4 THEN 1 ELSE work[Task(4)])
    BY <1>3 DEF Places
  <2>3. QED
    BY <2>1, <2>2, <1>2, <1>4 DEF Phase, Begun
<1>7. Tells(progresses', TRUE, Phase')
  BY <1>2, <1>5, <1>6, AdvancedTells
<1>8. TypeOK'
  BY <1>0, <1>2, <1>3, <1>7 DEF TypeOK, Graph!TypeOK, Tells, ProgressType
<1>9. Calls(InstallOrder[k]) >= 1
  BY Order DEF Calls
<1>10. /\ Requests' /\ StartedOnce' /\ SubmittedInOrder'
       /\ ManagerShown' <=> work'[Task(5)] = 0 /\ work'[Task(6)] = 0
  BY <1>0, <1>2, TaskFrame
<1>11. Chained' /\ WorkDone'
  BY <1>0, <1>2, <1>3, <1>8, <1>9, RunKeeps
<1>12. work'[Task(5)] = work[Task(5)] /\ work'[Task(6)] = work[Task(6)]
  BY <1>3 DEF Places
<1>13. ProgressShown'
  BY <1>4, <1>7, <1>10, <1>12 DEF ProgressShown, Tells
<1>14. StageShown'
  BY <1>2, <1>12 DEF IInv, StageShown
<1>15. QED
  BY <1>8, <1>10, <1>11, <1>13, <1>14 DEF IInv

LEMMA CallKeeps ==
    ASSUME IInv, NEW k \in {3, 4}, Call(InstallOrder[k], 1)
    PROVE  IInv'
<1> DEFINE calls == Calls(InstallOrder[k])
<1>0. TypeOK /\ k \in Places /\ k \in 1 .. 5
  BY DEF IInv, Places
<1>1. Task(k) = <<InstallOrder[k], 1>>
  BY DEF Task
<1>2. calls \in 1 .. 12
  BY Order DEF Calls
<1> HIDE DEF calls
<1>3. /\ outcome[Task(k)] = "running" /\ work[Task(k)] \in 1 .. calls
      /\ work' = [work EXCEPT ![Task(k)] = @ + 1]
      /\ \/ \E r \in {"ok", "failed"} : outcome' = [outcome EXCEPT ![Task(k)] = r]
         \/ work[Task(k)] < calls /\ outcome' = outcome
      /\ stage' = stage /\ progresses' = progresses /\ issues' = issues
      /\ deps' = deps /\ always' = always /\ manager' = manager
      /\ installs' = installs /\ configs' = configs /\ halted' = halted
  BY <1>1 DEF Call, Running, Made, Complete, status, calls
<1>4. /\ work'[Task(k)] = work[Task(k)] + 1 /\ work' \in [TaskIds -> 0 .. 13]
      /\ \A j \in Places : j # k => work'[Task(j)] = work[Task(j)]
  <2>1. work[Task(k)] < 13
    BY <1>2, <1>3
  <2>2. QED
    BY <2>1, <1>0, <1>3, AtTask
<1>5. /\ outcome' \in [TaskIds -> Graph!Outcome]
      /\ \/ outcome'[Task(k)] \in {"ok", "failed"}
         \/ outcome'[Task(k)] = "running" /\ work[Task(k)] < calls
      /\ \A j \in Places : j # k => outcome'[Task(j)] = outcome[Task(j)]
      /\ \A id \in InstallTaskIds : id[2] # 1 => outcome'[id] = outcome[id]
  <2>1. CASE outcome' = outcome
    BY <2>1, <1>0, <1>3, AtTask DEF TypeOK, Graph!TypeOK
  <2>2. CASE \E r \in {"ok", "failed"} : outcome' = [outcome EXCEPT ![Task(k)] = r]
    BY <2>2, <1>0, AtTask
  <2>3. QED
    BY <1>3, <2>1, <2>2
<1>6. TypeOK'
  BY <1>0, <1>3, <1>4, <1>5 DEF TypeOK, Graph!TypeOK
<1>7. /\ Requests' /\ StartedOnce' /\ SubmittedInOrder'
      /\ ManagerShown <=> work[Task(5)] = 0 /\ work[Task(6)] = 0
      /\ ManagerShown' <=> work'[Task(5)] = 0 /\ work'[Task(6)] = 0
  BY <1>0, <1>3, <1>5, TaskFrame
<1>8. outcome'[Task(k)] = "running" => work'[Task(k)] <= Calls(InstallOrder[k])
  BY <1>2, <1>3, <1>4, <1>5 DEF calls
<1>9. outcome'[Task(k)] = "ok" => work'[Task(k)] > 0
  BY <1>2, <1>3, <1>4
<1>10. Chained' /\ WorkDone'
  BY <1>0, <1>3, <1>4, <1>5, <1>6, <1>8, <1>9, RunKeeps
<1>11. \A j \in {3, 4} : work'[Task(j)] > 0 <=> work[Task(j)] > 0
  BY <1>2, <1>3, <1>4 DEF Places
<1>12. work'[Task(5)] = work[Task(5)] /\ work'[Task(6)] = work[Task(6)]
  BY <1>4 DEF Places
<1>13. ManagerShown' = ManagerShown /\ Phase' = Phase
  <2>1. Phase' = Phase
    BY <1>11 DEF Phase, Begun
  <2>2. ManagerShown' = ManagerShown
    BY <1>3, <1>12 DEF ManagerShown, Submitting
  <2>3. QED
    BY <2>1, <2>2
<1>14. ProgressShown' /\ StageShown'
  BY <1>3, <1>12, <1>13 DEF IInv, ProgressShown, StageShown
<1>15. QED
  BY <1>6, <1>7, <1>10, <1>14 DEF IInv

\* The last of the critical tasks.
LEMMA FinishProgressKeeps ==
    ASSUME IInv, FinishProgress(1)
    PROVE  IInv'
<1> DEFINE w == work[Task(5)]
           shown == ManagerShown
<1>0. TypeOK /\ 5 \in Places /\ 5 \in 1 .. 5 /\ w \in 0 .. 2
  BY AtTask DEF IInv, Places, WorkDone
<1>1. Task(5) = <<"finish_progress", 1>>
  BY Order DEF Task
<1>2. /\ outcome[Task(5)] = "running"
      /\ issues' = issues /\ deps' = deps /\ always' = always /\ manager' = manager
      /\ installs' = installs /\ configs' = configs /\ halted' = halted
      /\ \/ /\ w = 0
            /\ progresses' = Removed(progresses, "manager")
            /\ work' = [work EXCEPT ![Task(5)] = @ + 1]
            /\ stage' = stage /\ outcome' = outcome
         \/ /\ w = 1
            /\ progresses' = progresses
            /\ work' = [work EXCEPT ![Task(5)] = @ + 1]
            /\ stage' = "finished" /\ outcome' = outcome
         \/ /\ w = 2
            /\ progresses' = progresses /\ work' = work
            /\ stage' = stage /\ outcome' = [outcome EXCEPT ![Task(5)] = "ok"]
  BY <1>0, <1>1 DEF FinishProgress, Running, Made, Complete
<1>3. /\ w \in {0, 1} => work'[Task(5)] = w + 1
      /\ w = 2 => work'[Task(5)] = w
      /\ work' \in [TaskIds -> 0 .. 13]
      /\ \A j \in Places : j # 5 => work'[Task(j)] = work[Task(j)]
  <2>1. CASE w \in {0, 1}
    <3>1. work' = [work EXCEPT ![Task(5)] = @ + 1] /\ work[Task(5)] < 13
      BY <2>1, <1>2
    <3>2. /\ work' \in [TaskIds -> 0 .. 13] /\ work'[Task(5)] = work[Task(5)] + 1
          /\ \A j \in Places : j # 5 => work'[Task(j)] = work[Task(j)]
      BY <3>1, <1>0, WorksAt
    <3>3. QED
      BY <3>2, <2>1
  <2>2. CASE w = 2
    BY <2>2, <1>0, <1>2 DEF TypeOK
  <2>3. QED
    BY <2>1, <2>2, <1>0
<1>4. /\ outcome' \in [TaskIds -> Graph!Outcome]
      /\ w = 2 => outcome'[Task(5)] = "ok"
      /\ w \in {0, 1} => outcome'[Task(5)] = "running"
      /\ \A j \in Places : j # 5 => outcome'[Task(j)] = outcome[Task(j)]
      /\ \A id \in InstallTaskIds : id[2] # 1 => outcome'[id] = outcome[id]
  <2>1. CASE w # 2
    <3>1. outcome' = outcome
      BY <2>1, <1>2
    <3>2. QED
      BY <3>1, <2>1, <1>0, <1>2 DEF TypeOK, Graph!TypeOK
  <2>2. CASE w = 2
    <3>1. outcome' = [outcome EXCEPT ![Task(5)] = "ok"]
      BY <2>2, <1>2
    <3>2. /\ outcome' \in [TaskIds -> Graph!Outcome] /\ outcome'[Task(5)] = "ok"
          /\ \A j \in Places : j # 5 => outcome'[Task(j)] = outcome[Task(j)]
          /\ \A id \in InstallTaskIds : id[2] # 1 => outcome'[id] = outcome[id]
      BY <3>1, <1>0, EndsAt
    <3>3. QED
      BY <3>2, <2>2
  <2>3. QED
    BY <2>1, <2>2
<1>5. work[Task(6)] = 0 /\ work'[Task(6)] = 0
  BY <1>0, <1>2, <1>3, Around DEF Places
<1>6. /\ Requests' /\ StartedOnce' /\ SubmittedInOrder'
      /\ ManagerShown <=> work[Task(5)] = 0 /\ work[Task(6)] = 0
      /\ ManagerShown' <=> work'[Task(5)] = 0 /\ work'[Task(6)] = 0
  <2>1. outcome[Task(5)] # "absent" /\ outcome'[Task(5)] # "absent"
        /\ (stage' # "configuring" \/ stage' = stage)
    BY <1>0, <1>2, <1>4
  <2>2. QED
    BY <2>1, <1>0, <1>2, <1>4, TaskFrame
<1>7. /\ shown \in BOOLEAN /\ Phase' = Phase /\ (shown <=> w = 0) /\ ~ManagerShown'
      /\ Tells(progresses, shown, Phase)
  <2>1. Phase' = Phase
    BY <1>3 DEF Phase, Begun, Places
  <2>2. ~ManagerShown' /\ (ManagerShown <=> w = 0)
    BY <1>0, <1>3, <1>5, <1>6
  <2>3. ManagerShown \in BOOLEAN /\ Tells(progresses, ManagerShown, Phase)
    BY DEF IInv, ProgressShown, ManagerShown
  <2>4. QED
    BY <2>1, <2>2, <2>3
<1> HIDE DEF shown
<1>8. Tells(progresses', FALSE, Phase)
  <2>1. CASE w = 0
    <3>1. HasProgress(progresses, "manager") /\ progresses' = Removed(progresses, "manager")
      BY <2>1, <1>2, <1>7 DEF Tells
    <3>2. Tells(progresses', "manager" # "manager" /\ shown, Phase)
      BY <3>1, <1>7, RemovedTells
    <3>3. QED
      BY <3>2 DEF Tells
  <2>2. CASE w # 0
    BY <2>2, <1>2, <1>7 DEF Tells
  <2>3. QED
    BY <2>1, <2>2
<1>9. TypeOK'
  BY <1>0, <1>2, <1>3, <1>4, <1>8 DEF TypeOK, Graph!TypeOK, Tells, ProgressType
<1>10. Chained' /\ WorkDone'
  BY <1>0, <1>2, <1>3, <1>4, <1>9, RunKeeps
<1>11. ProgressShown'
  BY <1>7, <1>8 DEF ProgressShown, Tells
<1>12. StageShown'
  BY <1>0, <1>2, <1>3, <1>5 DEF IInv, StageShown
<1>13. QED
  BY <1>6, <1>9, <1>10, <1>11, <1>12 DEF IInv

\* What "finalize" finds when it runs.
LEMMA FinalizeFinds ==
    ASSUME IInv, outcome[Task(6)] = "running"
    PROVE  /\ FailedTasks(1) = {} => \A j \in 1 .. 5 : outcome[Task(j)] = "ok"
           /\ FailedTasks(1) # {} => /\ \E j \in 1 .. 5 : outcome[Task(j)] \in {"failed", "cancelled"}
                                     /\ work[Task(5)] = 0
<1>1. \A j \in 1 .. 5 : outcome[Task(j)] \in {"ok", "failed", "cancelled"}
  BY DEF IInv, Chained, Ended
<1>2. FailedTasks(1) = {id \in {Task(j) : j \in 1 .. 5} : outcome[id] \in {"failed", "cancelled"}}
  BY Dependencies DEF FailedTasks
<1>3. FailedTasks(1) = {} => \A j \in 1 .. 5 : outcome[Task(j)] = "ok"
  BY <1>1, <1>2
<1>4. FailedTasks(1) # {} => \E j \in 1 .. 5 : outcome[Task(j)] \in {"failed", "cancelled"}
  BY <1>2
<1>5. (\E j \in 1 .. 5 : outcome[Task(j)] \in {"failed", "cancelled"}) => outcome[Task(5)] = "cancelled"
  <2>1. /\ outcome[Task(5)] # "failed"
        /\ outcome[Task(5)] = "ok" => outcome[Task(4)] = "ok"
        /\ outcome[Task(4)] = "ok" => outcome[Task(3)] = "ok"
        /\ outcome[Task(3)] = "ok" => outcome[Task(2)] = "ok"
        /\ outcome[Task(2)] = "ok" => outcome[Task(1)] = "ok"
    BY DEF IInv, Chained
  <2>2. QED
    BY <2>1, <1>1
<1>6. outcome[Task(5)] = "cancelled" => work[Task(5)] = 0
  BY DEF IInv, WorkDone, Places
<1>7. QED
  BY <1>3, <1>4, <1>5, <1>6

LEMMA FinalizeSuccessKeeps ==
    ASSUME IInv, FinalizeSuccess(1)
    PROVE  IInv'
<1>0. TypeOK /\ 6 \in Places
  BY DEF IInv, Places
<1>1. Task(6) = <<"finalize", 1>>
  BY Order DEF Task
<1>2. /\ outcome[Task(6)] = "running" /\ FailedTasks(1) = {}
      /\ outcome' = [outcome EXCEPT ![Task(6)] = "ok"]
      /\ stage' = stage /\ progresses' = progresses /\ issues' = issues /\ work' = work
      /\ deps' = deps /\ always' = always /\ manager' = manager
      /\ installs' = installs /\ configs' = configs /\ halted' \in BOOLEAN
  BY <1>0, <1>1 DEF FinalizeSuccess, Running, Complete, status, TypeOK
<1>3. /\ outcome'[Task(6)] = "ok"
      /\ outcome' \in [TaskIds -> Graph!Outcome]
      /\ \A j \in Places : j # 6 => outcome'[Task(j)] = outcome[Task(j)]
      /\ \A id \in InstallTaskIds : id[2] # 1 => outcome'[id] = outcome[id]
  BY <1>0, <1>2, AtTask
<1>4. TypeOK'
  BY <1>0, <1>2, <1>3 DEF TypeOK, Graph!TypeOK
<1>5. Requests' /\ StartedOnce' /\ SubmittedInOrder'
  BY <1>0, <1>2, <1>3, TaskFrame
<1>6. /\ work[Task(6)] <= 2
      /\ work[Task(6)] > 0 => \E j \in 1 .. 5 : outcome[Task(j)] \in {"failed", "cancelled"}
  BY DEF IInv, WorkDone
<1>7. Chained' /\ WorkDone'
  BY <1>0, <1>2, <1>3, <1>4, <1>6, RunKeeps
<1>8. ManagerShown' = ManagerShown /\ Phase' = Phase
  BY <1>2 DEF ManagerShown, Phase, Begun, Submitting
<1>9. stage = "finished"
  <2>1. outcome[Task(5)] = "ok"
    BY <1>2, FinalizeFinds
  <2>2. QED
    BY <2>1 DEF IInv, WorkDone, StageShown
<1>10. ProgressShown' /\ StageShown'
  BY <1>2, <1>8, <1>9 DEF IInv, ProgressShown, StageShown
<1>11. QED
  BY <1>4, <1>5, <1>7, <1>10 DEF IInv

LEMMA FinalizeFailureKeeps ==
    ASSUME IInv, FinalizeFailure(1)
    PROVE  IInv'
<1> DEFINE w == work[Task(6)]
           shown == ManagerShown
<1>0. TypeOK /\ 6 \in Places /\ w \in 0 .. 2
  BY AtTask DEF IInv, Places, WorkDone
<1>1. Task(6) = <<"finalize", 1>>
  BY Order DEF Task
<1>2. /\ outcome[Task(6)] = "running" /\ FailedTasks(1) # {}
      /\ issues' = issues /\ deps' = deps /\ always' = always /\ manager' = manager
      /\ installs' = installs /\ configs' = configs /\ halted' = halted
      /\ \/ /\ w = 0
            /\ progresses' = Removed(progresses, "manager")
            /\ work' = [work EXCEPT ![Task(6)] = @ + 1]
            /\ stage' = stage /\ outcome' = outcome
         \/ /\ w = 1
            /\ progresses' = progresses
            /\ work' = [work EXCEPT ![Task(6)] = @ + 1]
            /\ stage' = "failed" /\ outcome' = outcome
         \/ /\ w = 2
            /\ progresses' = progresses /\ work' = work
            /\ stage' = stage /\ outcome' = [outcome EXCEPT ![Task(6)] = "ok"]
  BY <1>0, <1>1 DEF FinalizeFailure, Running, Made, Complete
<1>3. /\ w \in {0, 1} => work'[Task(6)] = w + 1
      /\ w = 2 => work'[Task(6)] = w
      /\ work' \in [TaskIds -> 0 .. 13]
      /\ \A j \in Places : j # 6 => work'[Task(j)] = work[Task(j)]
  <2>1. CASE w \in {0, 1}
    <3>1. work' = [work EXCEPT ![Task(6)] = @ + 1] /\ work[Task(6)] < 13
      BY <2>1, <1>2
    <3>2. /\ work' \in [TaskIds -> 0 .. 13] /\ work'[Task(6)] = work[Task(6)] + 1
          /\ \A j \in Places : j # 6 => work'[Task(j)] = work[Task(j)]
      BY <3>1, <1>0, WorksAt
    <3>3. QED
      BY <3>2, <2>1
  <2>2. CASE w = 2
    BY <2>2, <1>0, <1>2 DEF TypeOK
  <2>3. QED
    BY <2>1, <2>2, <1>0
<1>4. /\ outcome' \in [TaskIds -> Graph!Outcome]
      /\ w = 2 => outcome'[Task(6)] = "ok"
      /\ w \in {0, 1} => outcome'[Task(6)] = "running"
      /\ \A j \in Places : j # 6 => outcome'[Task(j)] = outcome[Task(j)]
      /\ \A id \in InstallTaskIds : id[2] # 1 => outcome'[id] = outcome[id]
  <2>1. CASE w # 2
    <3>1. outcome' = outcome
      BY <2>1, <1>2
    <3>2. QED
      BY <3>1, <2>1, <1>0, <1>2 DEF TypeOK, Graph!TypeOK
  <2>2. CASE w = 2
    <3>1. outcome' = [outcome EXCEPT ![Task(6)] = "ok"]
      BY <2>2, <1>2
    <3>2. /\ outcome' \in [TaskIds -> Graph!Outcome] /\ outcome'[Task(6)] = "ok"
          /\ \A j \in Places : j # 6 => outcome'[Task(j)] = outcome[Task(j)]
          /\ \A id \in InstallTaskIds : id[2] # 1 => outcome'[id] = outcome[id]
      BY <3>1, <1>0, EndsAt
    <3>3. QED
      BY <3>2, <2>2
  <2>3. QED
    BY <2>1, <2>2
<1>5. /\ work[Task(5)] = 0 /\ work'[Task(5)] = 0
      /\ \E j \in 1 .. 5 : outcome[Task(j)] \in {"failed", "cancelled"}
  BY <1>0, <1>2, <1>3, FinalizeFinds DEF Places
<1>6. /\ Requests' /\ StartedOnce' /\ SubmittedInOrder'
      /\ ManagerShown <=> work[Task(5)] = 0 /\ work[Task(6)] = 0
      /\ ManagerShown' <=> work'[Task(5)] = 0 /\ work'[Task(6)] = 0
  <2>1. outcome[Task(6)] # "absent" /\ outcome'[Task(6)] # "absent"
        /\ (stage' # "configuring" \/ stage' = stage)
    BY <1>0, <1>2, <1>4
  <2>2. QED
    BY <2>1, <1>0, <1>2, <1>4, TaskFrame
<1>7. /\ shown \in BOOLEAN /\ Phase' = Phase /\ (shown <=> w = 0) /\ ~ManagerShown'
      /\ Tells(progresses, shown, Phase)
  <2>1. Phase' = Phase
    BY <1>3 DEF Phase, Begun, Places
  <2>2. ~ManagerShown' /\ (ManagerShown <=> w = 0)
    BY <1>0, <1>3, <1>5, <1>6
  <2>3. ManagerShown \in BOOLEAN /\ Tells(progresses, ManagerShown, Phase)
    BY DEF IInv, ProgressShown, ManagerShown
  <2>4. QED
    BY <2>1, <2>2, <2>3
<1> HIDE DEF shown
<1>8. Tells(progresses', FALSE, Phase)
  <2>1. CASE w = 0
    <3>1. HasProgress(progresses, "manager") /\ progresses' = Removed(progresses, "manager")
      BY <2>1, <1>2, <1>7 DEF Tells
    <3>2. Tells(progresses', "manager" # "manager" /\ shown, Phase)
      BY <3>1, <1>7, RemovedTells
    <3>3. QED
      BY <3>2 DEF Tells
  <2>2. CASE w # 0
    BY <2>2, <1>2, <1>7 DEF Tells
  <2>3. QED
    BY <2>1, <2>2
<1>9. TypeOK'
  BY <1>0, <1>2, <1>3, <1>4, <1>8 DEF TypeOK, Graph!TypeOK, Tells, ProgressType
<1>10. Chained' /\ WorkDone'
  BY <1>0, <1>2, <1>3, <1>4, <1>5, <1>9, RunKeeps
<1>11. ProgressShown'
  BY <1>7, <1>8 DEF ProgressShown, Tells
<1>12. StageShown'
  BY <1>0, <1>2, <1>3, <1>5 DEF IInv, StageShown
<1>13. QED
  BY <1>6, <1>9, <1>10, <1>11, <1>12 DEF IInv

-----------------------------------------------------------------------------
(* All steps.                                                              *)

\* Writing a configuration is not a task of the installation.
LEMMA ConfigTaskKeeps ==
    ASSUME IInv, NEW id \in ConfigTaskIds, TaskStep(id)
    PROVE  IInv'
<1>0. TypeOK
  BY DEF IInv
<1>1. id[1] = "set_config" /\ id = <<id[1], id[2]>> /\ id \in TaskIds
  BY DEF ConfigTaskIds, TaskIds
<1>2. Resolve(id) \/ OneCall(id[1], id[2])
  BY <1>1 DEF TaskStep, NextProgress, Call
<1>3. /\ stage' = stage /\ progresses' = progresses /\ issues' \in BOOLEAN /\ work' = work
      /\ deps' = deps /\ always' = always /\ manager' = manager
      /\ installs' = installs /\ configs' = configs /\ halted' = halted
      /\ \E r \in {"running", "cancelled", "ok", "failed"} : outcome' = [outcome EXCEPT ![id] = r]
  <2>1. CASE Resolve(id)
    BY <2>1, <1>0 DEF Resolve, Graph!Start, Graph!Cancel, status, TypeOK
  <2>2. CASE OneCall(id[1], id[2])
    BY <2>2, <1>1 DEF OneCall, Complete
  <2>3. QED
    BY <1>2, <2>1, <2>2
<1>4. \A k \in Places : Task(k) \in TaskIds /\ Task(k) # id
  BY Tasks
<1>5. \A t \in InstallTaskIds : t \in TaskIds /\ t # id
  <2>1. \A t \in InstallTaskIds : t[1] # "set_config"
    BY Order DEF InstallTaskIds, ToSet, Places
  <2>2. QED
    BY <2>1, <1>1 DEF TaskIds
<1>6. /\ outcome' \in [TaskIds -> Graph!Outcome]
      /\ \A t \in TaskIds : t # id => outcome'[t] = outcome[t]
  BY <1>0, <1>3 DEF TypeOK, Graph!TypeOK, Graph!Outcome, Graph!Resolved, Graph!Failed
<1>7. TypeOK' /\ Requests'
  BY <1>0, <1>3, <1>6 DEF IInv, TypeOK, Graph!TypeOK, Requests
<1>8. Submitting' = Submitting
      /\ (manager'.handling = "install" /\ manager'.step \in 2 .. 4 => stage = "configuring")
  BY <1>3 DEF Submitting, IInv, StartedOnce
<1>9. Tells(progresses', ManagerShown, Phase)
  BY <1>3 DEF IInv, ProgressShown
<1>10. QED
  BY <1>3, <1>4, <1>5, <1>6, <1>7, <1>8, <1>9, SameInstallation

\* A step is of a task of the only installation, or of a configuration.
LEMMA TaskStepKeeps ==
    ASSUME IInv, NEW id \in TaskIds, TaskStep(id)
    PROVE  IInv'
<1>1. CASE id \in ConfigTaskIds
  BY <1>1, ConfigTaskKeeps
<1>2. CASE id \in InstallTaskIds
  <2>1. id = <<id[1], id[2]>>
    BY <1>2 DEF InstallTaskIds
  <2>2. outcome[id] # "absent"
    BY <2>1 DEF TaskStep, Resolve, Graph!Start, Graph!Cancel, OneCall, NextProgress, Call,
                FinishProgress, FinalizeSuccess, FinalizeFailure, Running
  <2>3. id[2] = 1
    BY <1>2, <2>2 DEF IInv, SubmittedInOrder
  <2>4. PICK k \in Places : id = Task(k)
    BY <1>2, <2>3, Tasks
  <2>5. id[1] = InstallOrder[k]
    BY <2>4, Tasks
  <2>6. CASE Resolve(id)
    BY <2>4, <2>6, ResolveKeeps
  <2>7. CASE OneCall(id[1], id[2])
    <3>1. k \in {1, 2}
      BY <2>5, <2>7, Order DEF OneCall, Places
    <3>2. QED
      BY <2>3, <2>5, <2>7, <3>1, OneCallKeeps
  <2>8. CASE NextProgress(id[1], id[2])
    <3>1. k \in {3, 4}
      BY <2>5, <2>8, Order DEF NextProgress, Places
    <3>2. QED
      BY <2>3, <2>5, <2>8, <3>1, NextProgressKeeps
  <2>9. CASE Call(id[1], id[2])
    <3>1. k \in {3, 4}
      BY <2>5, <2>9, Order DEF Call, Places
    <3>2. QED
      BY <2>3, <2>5, <2>9, <3>1, CallKeeps
  <2>10. CASE FinishProgress(id[2])
    BY <2>3, <2>10, FinishProgressKeeps
  <2>11. CASE FinalizeSuccess(id[2])
    BY <2>3, <2>11, FinalizeSuccessKeeps
  <2>12. CASE FinalizeFailure(id[2])
    BY <2>3, <2>12, FinalizeFailureKeeps
  <2>13. QED
    BY <2>6, <2>7, <2>8, <2>9, <2>10, <2>11, <2>12 DEF TaskStep
<1>3. QED
  BY <1>1, <1>2 DEF TaskIds

LEMMA InitIInv ==
    ASSUME Init
    PROVE  IInv
<1>1. TypeOK
  <2>1. progresses \in Seq(ProgressType)
    BY DEF Init
  <2>2. Graph!TypeOK
    BY DEF Init, Graph!Init, Graph!TypeOK, Graph!Outcome
  <2>3. manager \in [handling : {"none", "install", "config", "finish", "idle_status",
                                "stage_status", "issues"},
                    for : {"cli", "web"}, step : 1 .. 11]
    BY DEF Init, Idle
  <2>4. work \in [TaskIds -> 0 .. 13]
    BY DEF Init
  <2>5. installs \in 0 .. MaxInstalls /\ configs \in 0 .. MaxConfigs
    BY BoundsAssumption DEF Init
  <2>6. stage = "configuring" /\ issues \in BOOLEAN /\ halted \in BOOLEAN
    BY DEF Init
  <2>7. QED
    BY <2>1, <2>2, <2>3, <2>4, <2>5, <2>6 DEF TypeOK, ProgressType
<1>2. Requests /\ StartedOnce /\ StageShown
  <2>1. \A k \in Places : work[Task(k)] = 0
    BY Tasks DEF Init
  <2>2. QED
    BY <2>1 DEF Init, Idle, Requests, StartedOnce, StageShown, Submitting, Places
<1>3. \A k \in Places : outcome[Task(k)] = "absent" /\ work[Task(k)] = 0 /\ ~Submitted(k)
  BY Tasks DEF Init, Graph!Init, Submitted
<1>4. SubmittedInOrder
  BY <1>3 DEF Init, Graph!Init, SubmittedInOrder, TaskIds
<1>5. Chained /\ WorkDone
  BY <1>3 DEF Chained, WorkDone, Places
<1>6. ProgressShown
  BY DEF Init, ProgressShown, Tells, ManagerShown, HasProgress
<1>7. QED
  BY <1>1, <1>2, <1>4, <1>5, <1>6 DEF IInv

LEMMA StutterKeeps ==
    ASSUME IInv, UNCHANGED vars
    PROVE  IInv'
<1>1. /\ stage' = stage /\ progresses' = progresses /\ issues' = issues /\ work' = work
      /\ outcome' = outcome /\ deps' = deps /\ always' = always /\ manager' = manager
      /\ installs' = installs /\ configs' = configs /\ halted' = halted
  BY DEF vars, status, graph
<1>2. TypeOK' /\ Requests'
  BY <1>1 DEF IInv, TypeOK, Graph!TypeOK, Requests
<1>3. Submitting' = Submitting
      /\ (manager'.handling = "install" /\ manager'.step \in 2 .. 4 => stage = "configuring")
  BY <1>1 DEF Submitting, IInv, StartedOnce
<1>4. Tells(progresses', ManagerShown, Phase)
  BY <1>1 DEF IInv, ProgressShown
<1>5. QED
  BY <1>1, <1>2, <1>3, <1>4, SameInstallation

LEMMA StepKeepsIInv ==
    ASSUME IInv, [Next]_vars
    PROVE  IInv'
<1>1. CASE Manager
  <2>1. CASE Install
    BY <2>1, CheckKeeps, SetStageInstallingKeeps, StartProgressKeeps, AddTaskKeeps DEF Install
  <2>2. CASE ConfigAddTask
    BY <2>2, ConfigAddTaskKeeps
  <2>3. CASE ~Install /\ ~ConfigAddTask
    BY <1>1, <2>3, AnswerKeeps DEF Manager
  <2>4. QED
    BY <2>1, <2>2, <2>3
<1>2. CASE CliRequest \/ WebRequest
  BY <1>2, RequestKeeps
<1>3. CASE \E id \in TaskIds : TaskStep(id)
  BY <1>3, TaskStepKeeps
<1>4. CASE ServiceProgressStarts \/ ServiceProgressEnds
  BY <1>4, ServiceProgressKeeps
<1>5. CASE UNCHANGED vars
  BY <1>5, StutterKeeps
<1>6. QED
  BY <1>1, <1>2, <1>3, <1>4, <1>5 DEF Next

LEMMA IInvAlways == Spec => []IInv
<1>1. Init => IInv
  BY InitIInv
<1>2. IInv /\ [Next]_vars => IInv'
  BY StepKeepsIInv
<1>3. QED
  BY <1>1, <1>2, PTL DEF Spec

-----------------------------------------------------------------------------
(* What follows from the invariant.                                        *)

LEMMA OutcomeShownFollows ==
    ASSUME IInv
    PROVE  OutcomeShown
<1>0. TypeOK /\ \A n : n = 1 => \A k \in 1 .. 5 : <<Critical[k], n>> = Task(k)
  BY CriticalOrder DEF IInv, Task
<1>1. OneInstallation
  <2>1. \A n \in 1 .. MaxInstalls : <<"storage_install", n>> \in InstallTaskIds
    <3>1. "storage_install" \in ToSet(InstallOrder)
      BY Order DEF ToSet, Places
    <3>2. QED
      BY <3>1 DEF InstallTaskIds
  <2>2. \A n \in 1 .. MaxInstalls : outcome[<<"storage_install", n>>] # "absent" => n = 1
    BY <2>1 DEF IInv, SubmittedInOrder
  <2>3. QED
    BY <2>2 DEF OneInstallation
<1>2. \A n \in 1 .. installs : n = 1
  BY DEF IInv, StartedOnce
<1>3. stage = "finished" => installs = 1 /\ \A k \in 1 .. 4 : outcome[Task(k)] = "ok"
  <2> SUFFICES ASSUME stage = "finished"
               PROVE  installs = 1 /\ \A k \in 1 .. 4 : outcome[Task(k)] = "ok"
    OBVIOUS
  <2>1. installs = 1
    BY DEF IInv, StartedOnce
  <2>2. work[Task(5)] = 2
    BY DEF IInv, StageShown
  <2>3. outcome[Task(5)] \in {"running", "ok", "failed"}
    <3>1. outcome[Task(5)] \in Graph!Outcome /\ 5 \in Places
      BY <1>0, Tasks DEF TypeOK, Graph!TypeOK, Places
    <3>2. outcome[Task(5)] \notin {"absent", "pending", "cancelled"}
      BY <2>2, <3>1 DEF IInv, WorkDone
    <3>3. QED
      BY <3>1, <3>2 DEF Graph!Outcome, Graph!Resolved, Graph!Failed
  <2>4. /\ outcome[Task(4)] = "ok"
        /\ outcome[Task(4)] = "ok" => outcome[Task(3)] = "ok"
        /\ outcome[Task(3)] = "ok" => outcome[Task(2)] = "ok"
        /\ outcome[Task(2)] = "ok" => outcome[Task(1)] = "ok"
    BY <2>3 DEF IInv, Chained
  <2>5. QED
    BY <2>1, <2>4
<1>4. stage = "failed" => FailedTasks(1) # {}
  <2> SUFFICES ASSUME stage = "failed"
               PROVE  FailedTasks(1) # {}
    OBVIOUS
  <2>1. PICK k \in 1 .. 5 : outcome[Task(k)] \in {"failed", "cancelled"}
    BY DEF IInv, StageShown, WorkDone
  <2>2. Task(k) \in CriticalTasks(1)
    BY Dependencies
  <2>3. QED
    BY <2>1, <2>2 DEF FailedTasks
<1>5. StageTellsOutcome
  <2> SUFFICES ASSUME NEW n \in 1 .. installs
               PROVE  /\ stage = "finished" => \A k \in 1 .. 4 : outcome[<<Critical[k], n>>] = "ok"
                      /\ stage = "failed" => FailedTasks(n) # {}
                      /\ stage # "configuring"
    BY DEF StageTellsOutcome
  <2>1. n = 1 /\ installs # 0
    BY <1>2 DEF IInv, StartedOnce
  <2>2. stage # "configuring"
    BY <2>1 DEF IInv, StartedOnce
  <2>3. stage = "finished" => \A k \in 1 .. 4 : outcome[<<Critical[k], n>>] = "ok"
    BY <1>0, <1>3, <2>1
  <2>4. QED
    BY <1>4, <2>1, <2>2, <2>3
<1>6. StepShown
  <2>1. ASSUME NEW k \in {3, 4}, outcome[Task(k)] = "running", work[Task(k)] > 0
        PROVE  ProgressOf(progresses, "manager").index = k - 1
    <3>1. /\ \A j \in 1 .. 6 : j > k => work[Task(j)] = 0
          /\ k = 4 => outcome[Task(3)] = "ok"
      BY <2>1, Around
    <3>2. k = 4 => work[Task(3)] > 0
      BY <3>1 DEF IInv, WorkDone
    <3>3. Phase = k - 1
      BY <2>1, <3>1, <3>2 DEF Phase, Begun
    <3>4. ManagerShown
      <4>1. k \in Places /\ Submitted(k)
        BY <2>1 DEF IInv, SubmittedInOrder, Places
      <4>2. QED
        BY <3>1, <4>1 DEF ManagerShown, Submitted, Submitting, IInv, TypeOK
    <3>5. Tells(progresses, TRUE, k - 1)
      BY <3>3, <3>4 DEF IInv, ProgressShown, Tells
    <3>6. QED
      BY <3>5, ManagerFound
  <2>2. ASSUME NEW n \in 1 .. installs
        PROVE  /\ Running("software_install", n) /\ work[<<"software_install", n>>] > 0
                     => ProgressOf(progresses, "manager").index = 2
               /\ Running("configure", n) /\ work[<<"configure", n>>] > 0
                     => ProgressOf(progresses, "manager").index = 3
    <3>1. <<"software_install", n>> = Task(3) /\ <<"configure", n>> = Task(4)
      BY <1>2, <2>2, Order DEF Task
    <3>2. QED
      BY <2>1, <3>1 DEF Running
  <2>3. stage \in {"finished", "failed"} => ~HasProgress(progresses, "manager")
    <3>1. stage \in {"finished", "failed"} => work[Task(5)] # 0 \/ work[Task(6)] # 0
      BY DEF IInv, StageShown
    <3>2. QED
      BY <3>1 DEF IInv, ProgressShown, Tells, ManagerShown
  <2>4. QED
    BY <2>2, <2>3 DEF StepShown
<1>7. HaltedOnlyInstalled
  <2> SUFFICES ASSUME halted
               PROVE  /\ stage = "finished"
                      /\ \E n \in 1 .. installs : \A k \in 1 .. 4 : outcome[<<Critical[k], n>>] = "ok"
    BY DEF HaltedOnlyInstalled
  <2>1. stage = "finished"
    BY DEF IInv, StageShown
  <2>2. 1 \in 1 .. installs /\ \A k \in 1 .. 4 : outcome[<<Critical[k], 1>>] = "ok"
    BY <1>0, <1>3, <2>1
  <2>3. QED
    BY <2>1, <2>2
<1>8. QED
  BY <1>1, <1>5, <1>6, <1>7 DEF OutcomeShown

\* Every state of the installation service, its tasks, its progress and its
\* client is one the model gives a meaning to.
THEOREM InstallationTypeCorrect == Spec => []TypeOK
<1>1. IInv => TypeOK
  BY DEF IInv
<1>2. QED
  BY <1>1, IInvAlways, PTL

\* There is one installation, its stage says how it went, its progress shows
\* its phase, and the machine is restarted only after a success, however many
\* requests come and whichever call fails (actions.rs 246-302, checks.rs 27-56).
THEOREM OutcomeShownAlways == Spec => []OutcomeShown
<1>1. IInv => OutcomeShown
  BY OutcomeShownFollows
<1>2. QED
  BY <1>1, IInvAlways, PTL

=============================================================================
