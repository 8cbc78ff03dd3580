--------------------------- MODULE ConfigTasksProofs ---------------------------
(***************************************************************************)
(* Proofs about the tasks of a configuration, for any number of            *)
(* configurations, whatever they say and whichever tasks may fail.         *)
(*                                                                         *)
(* A task that started saw its dependencies succeed, and whatever a        *)
(* service has of a configuration was brought by a task that started.  For *)
(* what the software task collects of the first configuration, the calls   *)
(* that are still on the way matter: those that could change an answer     *)
(* belong to tasks that run.  For what the last one leaves, each service   *)
(* has what that one says, or a task or a call will bring it.  A section   *)
(* of iSCSI, and one of the bootloader, that comes again changes nothing.  *)
(***************************************************************************)
EXTENDS ConfigTasks, FiniteSetTheorems, TLAPS

-----------------------------------------------------------------------------
(* The inductive invariant.                                                *)

Started(id) == outcome[id] \in {"running", "ok", "failed"}

\* The tasks of a configuration are submitted with it.
Submission ==
    \A id \in TaskIds :
        /\ ~always[id]
        /\ outcome[id] # "absent" <=>
              (id[1] \in DOMAIN config /\ id[2] \in TasksOf(config[id[1]]))
        /\ outcome[id] # "absent" =>
              deps[id] = {id[1]} \X (DependenciesOf(id[2]) \intersect TasksOf(config[id[1]]))

\* A failure is of a task that may fail, and stops those that wait for it.
Chained ==
    \A id \in TaskIds :
        /\ Started(id) => \A d \in deps[id] : outcome[d] = "ok"
        /\ outcome[id] = "cancelled" => \E d \in deps[id] : outcome[d] \in {"failed", "cancelled"}
        /\ outcome[id] = "failed" => id[2] \in MayFail
        /\ outcome[id] \in {"absent", "pending", "cancelled"} => work[id] = 0

\* What a service has, or is on the way to it, a task that started brought.
Brought ==
    /\ \A c \in dbus :
        /\ Started(c.task)
        /\ (c.kind = "bootloader" /\ c.data.config # 0)
              => Started(<<c.data.config, "bootloader">>)
    /\ full_config.config # 0 => Started(<<full_config.config, "bootloader">>)
    /\ boot.config # 0 => Started(<<boot.config, "bootloader">>)
    /\ \A t \in AllTasks : applied[t] # 0 => t \in Tasks /\ Started(<<applied[t], t>>)

\* A task waits for its call, except to probe and to set the kernel argument.
AwaitedCall(c) ==
    /\ c.kind \in {"iscsi", "storage"} =>
          c.task[2] = c.kind /\ outcome[c.task] = "running"
    /\ c.kind = "probe" => c.task[2] = "storage"
    /\ c.kind = "bootloader" =>
          \/ c.task[2] = "selinux"
          \/ /\ c.task[2] = "bootloader"
             /\ outcome[c.task] = "running"
             /\ work[c.task] = 1
Awaited == \A c \in dbus : AwaitedCall(c)

\* The devices of the first configuration are those of its iSCSI section, which
\* is done when the storage starts.
FirstDevices ==
    /\ ~Started(<<1, "storage">>) => storage.config = Never /\ storage.probed = Never
    /\ storage.probed \in {Never, iscsi.connected}
    /\ storage.config # Never =>
          storage.probed = iscsi.connected /\ storage.solved = iscsi.connected

\* What is connected was discovered, and the keys of the bootloader are those of its
\* configuration: to load it once more changes none of them.
Sound ==
    /\ iscsi.connected \subseteq iscsi.nodes
    /\ boot.keys = Merged(boot.keys, boot.config)

\* The bootloader has the first configuration when its task is done.
FirstBootloader ==
    /\ outcome[<<1, "bootloader">>] = "ok" => boot.config = 1
    /\ \/ outcome[<<1, "bootloader">>] = "ok"
       \/ /\ outcome[<<1, "bootloader">>] = "running"
          /\ work[<<1, "bootloader">>] = 1
       => /\ full_config.config = 1
          /\ \/ PendingOf(<<1, "bootloader">>, "bootloader")
             \/ boot.config = 1
    /\ \A c \in dbus : c.kind = "bootloader" => c.data.config = 1

Collected(p) ==
    \/ p = "access"
    \/ p = "storage" /\ storage.config = Never
    \/ selection[p] = Resolvables(p)

\* What the software task has collected is what the services still say.
FirstSoftware ==
    \A k \in DOMAIN Providers :
        \/ outcome[<<1, "software">>] = "ok"
        \/ /\ outcome[<<1, "software">>] = "running"
           /\ k <= work[<<1, "software">>]
        => Collected(Providers[k])

First ==
    (Count <= 1 /\ "bootloader" \notin MayRefuse) =>
        FirstDevices /\ FirstBootloader /\ FirstSoftware

IInv ==
    /\ TypeOK
    /\ Submission /\ Chained /\ Brought /\ Awaited
    /\ Sound
    /\ First
-----------------------------------------------------------------------------
(* Facts about the model's operators.                                      *)

\* The tasks that every instance has.
LEMMA Present ==
    ASSUME NEW n \in Numbers,
           NEW t \in {"files", "pre_scripts", "network", "iscsi", "storage", "bootloader",
                      "software", "selinux"}
    PROVE  <<n, t>> \in TaskIds
  BY TasksAssumption DEF TaskIds, AllTasks, Optional

LEMMA Ids ==
    ASSUME NEW id \in TaskIds
    PROVE  id[1] \in Numbers /\ id[2] \in Tasks /\ id = <<id[1], id[2]>>
  BY DEF TaskIds

LEMMA NumbersRange ==
    ASSUME NEW n
    PROVE  n \in Numbers <=> n \in Nat /\ 1 <= n /\ n <= MaxConfigs
  BY BoundsAssumption DEF Numbers

\* The number of configurations written is that of the last one.
LEMMA Counted ==
    ASSUME TypeOK
    PROVE  /\ Count \in 0 .. MaxConfigs
           /\ DOMAIN config = 1 .. Count
           /\ config \in [1 .. Count -> ConfigType]
  <1>1. PICK n \in 0 .. MaxConfigs : config \in [1 .. n -> ConfigType]
    BY DEF TypeOK
  <1>2. n \in Nat
    BY BoundsAssumption
  <1>3. Cardinality(1 .. n) = n
    BY <1>2, FS_Interval
  <1> QED
    BY <1>1, <1>2, <1>3 DEF Count

LEMMA FiveProviders ==
    /\ Cardinality(ProviderSet) = 5
    /\ DOMAIN Providers = 1 .. 5
    /\ \A k \in 1 .. 5 : Providers[k] \in ProviderSet
    /\ \A k, l \in 1 .. 5 : Providers[k] = Providers[l] => k = l
    /\ \A p \in ProviderSet : \E k \in 1 .. 5 : Providers[k] = p
  <1>1. DOMAIN Providers = 1 .. 5
    BY DEF Providers
  <1>2. /\ Providers[1] = "access" /\ Providers[2] = "files" /\ Providers[3] = "ntp"
        /\ Providers[4] = "storage" /\ Providers[5] = "bootloader"
    BY DEF Providers
  <1>3. \A k \in 1 .. 5 : k = 1 \/ k = 2 \/ k = 3 \/ k = 4 \/ k = 5
    OBVIOUS
  <1>4. \A k \in 1 .. 5 : Providers[k] \in ProviderSet
    BY <1>2, <1>3 DEF ProviderSet
  <1>5. \A k, l \in 1 .. 5 : Providers[k] = Providers[l] => k = l
    BY <1>2, <1>3
  <1>6. \A p \in ProviderSet : \E k \in 1 .. 5 : Providers[k] = p
    <2>1. 1 \in 1 .. 5 /\ 2 \in 1 .. 5 /\ 3 \in 1 .. 5 /\ 4 \in 1 .. 5 /\ 5 \in 1 .. 5
      OBVIOUS
    <2> QED
      BY <1>2, <2>1 DEF ProviderSet
  <1>7. Cardinality(ProviderSet) = 5
    <2> DEFINE s1 == {"access"} s2 == s1 \union {"files"} s3 == s2 \union {"ntp"}
               s4 == s3 \union {"storage"} s5 == s4 \union {"bootloader"}
    <2>1. IsFiniteSet(s1) /\ Cardinality(s1) = 1
      BY FS_Singleton
    <2>2. "files" \notin s1 /\ "ntp" \notin s2 /\ "storage" \notin s3 /\ "bootloader" \notin s4
      OBVIOUS
    <2>3. IsFiniteSet(s2) /\ Cardinality(s2) = 2
      <3> HIDE DEF s1
      <3> QED
        BY <2>1, <2>2, FS_AddElement
    <2>4. IsFiniteSet(s3) /\ Cardinality(s3) = 3
      <3> HIDE DEF s2
      <3> QED
        BY <2>3, <2>2, FS_AddElement
    <2>5. IsFiniteSet(s4) /\ Cardinality(s4) = 4
      <3> HIDE DEF s3
      <3> QED
        BY <2>4, <2>2, FS_AddElement
    <2>6. IsFiniteSet(s5) /\ Cardinality(s5) = 5
      <3> HIDE DEF s4
      <3> QED
        BY <2>5, <2>2, FS_AddElement
    <2>7. ProviderSet = s5
      BY DEF ProviderSet
    <2> QED
      BY <2>6, <2>7
  <1> QED
    BY <1>1, <1>4, <1>5, <1>6, <1>7

\* The tasks of a configuration: some need a section of it.
LEMMA TasksOfConfig ==
    ASSUME NEW c
    PROVE  /\ {"files", "pre_scripts", "iscsi"} \subseteq TasksOf(c)
           /\ Tasks \intersect Optional \subseteq TasksOf(c)
           /\ TasksOf(c) \subseteq Tasks
           /\ \A t, s \in NeedsProduct : t \in TasksOf(c) => s \in TasksOf(c)
  BY TasksAssumption DEF TasksOf, NeedsProduct, Optional, AllTasks

LEMMA DependenciesAre ==
    /\ "network" \in DependenciesOf("iscsi")
    /\ "iscsi" \in DependenciesOf("storage")
    /\ "storage" \in DependenciesOf("bootloader")
    /\ {"files", "ntp", "storage", "bootloader"} \subseteq DependenciesOf("software")
    /\ "software" \in DependenciesOf("selinux")
    /\ \A t \in Optional : DependenciesOf(t) = {"pre_scripts"}
  BY DEF DependenciesOf, Optional, IscsiDependencies, SoftwareDependencies,
         ServiceDependencies

\* What had to succeed before a task started.
LEMMA Before ==
    ASSUME TypeOK, Submission, Chained,
           NEW n \in Numbers, NEW t \in Tasks, Started(<<n, t>>),
           NEW s \in DependenciesOf(t), s \in TasksOf(config[n])
    PROVE  outcome[<<n, s>>] = "ok"
  <1>1. <<n, t>> \in TaskIds
    BY DEF TaskIds
  <1>2. outcome[<<n, t>>] # "absent"
    BY DEF Started
  <1>3. deps[<<n, t>>] = {n} \X (DependenciesOf(t) \intersect TasksOf(config[n]))
    BY <1>1, <1>2 DEF Submission
  <1>4. <<n, s>> \in deps[<<n, t>>]
    BY <1>3
  <1> QED
    BY <1>1, <1>4 DEF Chained

LEMMA Submitted ==
    ASSUME TypeOK, Submission, NEW id \in TaskIds, outcome[id] # "absent"
    PROVE  /\ id[1] \in DOMAIN config
           /\ config[id[1]] \in ConfigType
           /\ id[1] \in 1 .. Count
           /\ id[2] \in TasksOf(config[id[1]])
  BY Counted DEF Submission

\* The chain of the tasks that the bootloader, the software and SELinux wait for.
LEMMA Order ==
    ASSUME TypeOK, Submission, Chained, NEW n \in Numbers
    PROVE  /\ Started(<<n, "iscsi">>) /\ outcome[<<n, "network">>] # "absent"
                 => outcome[<<n, "network">>] = "ok"
           /\ Started(<<n, "storage">>) => outcome[<<n, "iscsi">>] = "ok"
           /\ Started(<<n, "bootloader">>) => outcome[<<n, "storage">>] = "ok"
           /\ Started(<<n, "software">>) =>
                 /\ outcome[<<n, "files">>] = "ok"
                 /\ outcome[<<n, "storage">>] = "ok"
                 /\ outcome[<<n, "bootloader">>] = "ok"
                 /\ "ntp" \in Tasks => outcome[<<n, "ntp">>] = "ok"
           /\ Started(<<n, "selinux">>) => outcome[<<n, "software">>] = "ok"
  <1>1. \A t \in Tasks : Started(<<n, t>>) => t \in TasksOf(config[n])
    <2> SUFFICES ASSUME NEW t \in Tasks, Started(<<n, t>>)
                 PROVE  t \in TasksOf(config[n])
      OBVIOUS
    <2>1. <<n, t>> \in TaskIds /\ outcome[<<n, t>>] # "absent"
      BY DEF TaskIds, Started
    <2> QED
      BY <2>1, Submitted
  <1>2. {"files", "pre_scripts", "network", "iscsi", "storage", "bootloader", "software",
         "selinux"} \subseteq Tasks
    BY TasksAssumption DEF AllTasks, Optional
  <1>3. \A t \in Tasks : Started(<<n, t>>) =>
            \A s \in DependenciesOf(t) : s \in TasksOf(config[n]) => outcome[<<n, s>>] = "ok"
    <2> SUFFICES ASSUME NEW t \in Tasks, Started(<<n, t>>), NEW s \in DependenciesOf(t),
                        s \in TasksOf(config[n])
                 PROVE  outcome[<<n, s>>] = "ok"
      OBVIOUS
    <2> QED
      BY Before
  <1>4. ASSUME outcome[<<n, "network">>] # "absent"
        PROVE  "network" \in TasksOf(config[n])
    <2>1. <<n, "network">> \in TaskIds
      BY Present
    <2>2. <<n, "network">>[2] \in TasksOf(config[<<n, "network">>[1]])
      BY <1>4, <2>1, Submitted
    <2> QED
      BY <2>2
  <1>5. /\ {"files", "pre_scripts", "iscsi"} \subseteq TasksOf(config[n])
        /\ Tasks \intersect Optional \subseteq TasksOf(config[n])
        /\ \A t, s \in NeedsProduct : t \in TasksOf(config[n]) => s \in TasksOf(config[n])
    BY TasksOfConfig
  <1>6. {"storage", "bootloader", "software", "selinux"} = NeedsProduct
    BY DEF NeedsProduct
  <1>7. Started(<<n, "iscsi">>) /\ outcome[<<n, "network">>] # "absent"
            => outcome[<<n, "network">>] = "ok"
    BY <1>2, <1>3, <1>4, DependenciesAre
  <1>8. Started(<<n, "storage">>) => outcome[<<n, "iscsi">>] = "ok"
    BY <1>2, <1>3, <1>5, DependenciesAre
  <1>9. Started(<<n, "bootloader">>) => outcome[<<n, "storage">>] = "ok"
    BY <1>1, <1>2, <1>3, <1>5, <1>6, DependenciesAre
  <1>10. ASSUME Started(<<n, "software">>)
         PROVE  /\ outcome[<<n, "files">>] = "ok"
                /\ outcome[<<n, "storage">>] = "ok"
                /\ outcome[<<n, "bootloader">>] = "ok"
                /\ "ntp" \in Tasks => outcome[<<n, "ntp">>] = "ok"
    <2>1. "storage" \in TasksOf(config[n]) /\ "bootloader" \in TasksOf(config[n])
      BY <1>1, <1>2, <1>5, <1>6, <1>10
    <2>2. "files" \in TasksOf(config[n]) /\ ("ntp" \in Tasks => "ntp" \in TasksOf(config[n]))
      BY <1>5 DEF Optional
    <2> QED
      BY <1>2, <1>3, <1>10, <2>1, <2>2, DependenciesAre
  <1>11. Started(<<n, "selinux">>) => outcome[<<n, "software">>] = "ok"
    BY <1>1, <1>2, <1>3, <1>5, <1>6, DependenciesAre
  <1> QED
    BY <1>7, <1>8, <1>9, <1>10, <1>11

-----------------------------------------------------------------------------
(* How the graph of tasks changes.                                         *)

\* A task starts, is cancelled or ends; nothing else in the graph changes.
Moves(id) ==
    /\ id \in TaskIds
    /\ \/ Graph!Start(id)
       \/ Graph!Cancel(id)
       \/ /\ outcome[id] = "running"
          /\ Done(id, "ok") \/ (id[2] \in MayFail /\ Done(id, "failed"))
    /\ UNCHANGED <<config, deps, always, work>>

\* A task sends a call; the graph does not change.
Calls(id) ==
    /\ id \in TaskIds
    /\ outcome[id] = "running"
    /\ work[id] \in 0 .. 4
    /\ NextCall(id)
    /\ UNCHANGED config

\* The part of the type invariant about the graph.
GraphTypeOK == Graph!TypeOK /\ work \in [TaskIds -> 0 .. 5]

LEMMA TypeOfGraph ==
    ASSUME TypeOK
    PROVE  /\ outcome \in [TaskIds -> {"absent", "pending", "running", "ok", "failed",
                                       "cancelled"}]
           /\ deps \in [TaskIds -> SUBSET TaskIds]
           /\ always \in [TaskIds -> BOOLEAN]
           /\ work \in [TaskIds -> 0 .. 5]
  BY DEF TypeOK, Graph!TypeOK, Graph!Outcome, Graph!Resolved, Graph!Failed

LEMMA MovesKeeps ==
    ASSUME TypeOK, Submission, Chained, NEW id, Moves(id)
    PROVE  /\ GraphTypeOK' /\ Submission' /\ Chained'
           /\ \A x \in TaskIds : Started(x) => Started(x)'
           /\ \A x \in TaskIds \ {id} : outcome'[x] = outcome[x]
           /\ outcome[id] \in {"pending", "running"}
           /\ outcome[id] = "pending" => outcome'[id] \in {"running", "cancelled"}
           /\ outcome[id] = "running" => outcome'[id] \in {"ok", "failed"}
           /\ outcome'[id] = "running" => work[id] = 0
  <1>0. /\ id \in TaskIds
        /\ config' = config /\ deps' = deps /\ always' = always /\ work' = work
    BY DEF Moves
  <1>1. \/ outcome[id] = "pending" /\ outcome' = [outcome EXCEPT ![id] = "running"]
             /\ \A d \in deps[id] : outcome[d] = "ok"
        \/ outcome[id] = "pending" /\ outcome' = [outcome EXCEPT ![id] = "cancelled"]
             /\ \E d \in deps[id] : outcome[d] \in {"failed", "cancelled"}
        \/ outcome[id] = "running" /\ outcome' = [outcome EXCEPT ![id] = "ok"]
        \/ outcome[id] = "running" /\ outcome' = [outcome EXCEPT ![id] = "failed"]
             /\ id[2] \in MayFail
    BY <1>0 DEF Moves, Done, Graph!Start, Graph!Cancel, Graph!DepsResolved, Graph!FailedDeps,
                Graph!Resolved, Graph!Failed, Submission
  <1>2. /\ outcome \in [TaskIds -> {"absent", "pending", "running", "ok", "failed",
                                    "cancelled"}]
        /\ deps \in [TaskIds -> SUBSET TaskIds]
        /\ work \in [TaskIds -> 0 .. 5]
    BY TypeOfGraph
  <1>3. /\ \A x \in TaskIds \ {id} : outcome'[x] = outcome[x]
        /\ outcome[id] \in {"pending", "running"}
        /\ outcome[id] = "pending" => outcome'[id] \in {"running", "cancelled"}
        /\ outcome[id] = "running" => outcome'[id] \in {"ok", "failed"}
        /\ outcome' \in [TaskIds -> {"absent", "pending", "running", "ok", "failed",
                                     "cancelled"}]
    BY <1>0, <1>1, <1>2
  <1>4. GraphTypeOK'
    BY <1>0, <1>3, TypeOfGraph DEF GraphTypeOK, Graph!TypeOK, Graph!Outcome, Graph!Resolved,
                                   Graph!Failed
  <1>5. \A x \in TaskIds : outcome'[x] = "absent" <=> outcome[x] = "absent"
    BY <1>3
  <1>6. Submission'
    BY <1>0, <1>5 DEF Submission, TasksOf
  <1>7. \A x \in TaskIds : Started(x) => Started(x)'
    BY <1>3 DEF Started
  <1>8. Chained'
    <2> SUFFICES ASSUME NEW x \in TaskIds
                 PROVE  /\ Started(x)' => \A d \in deps[x] : outcome'[d] = "ok"
                        /\ outcome'[x] = "cancelled" =>
                              \E d \in deps[x] : outcome'[d] \in {"failed", "cancelled"}
                        /\ outcome'[x] = "failed" => x[2] \in MayFail
                        /\ outcome'[x] \in {"absent", "pending", "cancelled"} => work[x] = 0
      BY <1>0 DEF Chained
    <2>1. \A d \in deps[x] : /\ d \in TaskIds
                             /\ outcome[d] = "ok" => outcome'[d] = "ok"
                             /\ outcome[d] \in {"failed", "cancelled"} => outcome'[d] = outcome[d]
      BY <1>2, <1>3
    <2>2. CASE x # id
      <3>1. outcome'[x] = outcome[x]
        BY <1>3, <2>2
      <3> QED
        BY <2>1, <3>1 DEF Chained, Started
    <2>3. CASE x = id
      <3>1. /\ Started(x) => \A d \in deps[x] : outcome[d] = "ok"
            /\ outcome[x] = "pending" => work[x] = 0
        BY DEF Chained
      <3>2. Started(x)' => \A d \in deps[x] : outcome[d] = "ok"
        BY <1>0, <1>1, <1>2, <2>3, <3>1 DEF Started
      <3>3. outcome'[x] = "cancelled" => \E d \in deps[x] : outcome[d] \in {"failed", "cancelled"}
        BY <1>0, <1>1, <1>2, <2>3
      <3>4. outcome'[x] = "failed" => x[2] \in MayFail
        BY <1>0, <1>1, <1>2, <2>3
      <3>5. outcome'[x] \in {"absent", "pending", "cancelled"} => work[x] = 0
        BY <1>0, <1>1, <1>2, <2>3, <3>1
      <3> QED
        BY <2>1, <3>2, <3>3, <3>4, <3>5
    <2> QED
      BY <2>2, <2>3
  <1>9. outcome'[id] = "running" => work[id] = 0
    BY <1>0, <1>3 DEF Chained
  <1> QED
    BY <1>3, <1>4, <1>6, <1>7, <1>8, <1>9

LEMMA CallsKeeps ==
    ASSUME TypeOK, Submission, Chained, NEW id, Calls(id)
    PROVE  /\ GraphTypeOK' /\ Submission' /\ Chained'
           /\ outcome' = outcome /\ config' = config
           /\ work'[id] = work[id] + 1
           /\ \A x \in TaskIds \ {id} : work'[x] = work[x]
  <1>1. /\ outcome \in [TaskIds -> {"absent", "pending", "running", "ok", "failed",
                                    "cancelled"}]
        /\ work \in [TaskIds -> 0 .. 5]
    BY TypeOfGraph
  <1>2. /\ id \in TaskIds /\ outcome[id] = "running" /\ work[id] \in 0 .. 4
        /\ outcome' = outcome /\ deps' = deps /\ always' = always /\ config' = config
        /\ work' = [work EXCEPT ![id] = @ + 1]
    BY DEF Calls, NextCall, graph
  <1>3. /\ work' \in [TaskIds -> 0 .. 5]
        /\ work'[id] = work[id] + 1
        /\ \A x \in TaskIds \ {id} : work'[x] = work[x]
    BY <1>1, <1>2
  <1>4. GraphTypeOK'
    BY <1>2, <1>3 DEF GraphTypeOK, TypeOK, Graph!TypeOK
  <1>5. Submission'
    BY <1>2 DEF Submission, TasksOf
  <1>6. Chained'
    BY <1>2, <1>3 DEF Chained, Started
  <1> QED
    BY <1>2, <1>3, <1>4, <1>5, <1>6

LEMMA SameGraph ==
    ASSUME TypeOK, Submission, Chained, UNCHANGED <<config, graph, work>>
    PROVE  GraphTypeOK' /\ Submission' /\ Chained'
  <1>1. /\ config' = config /\ outcome' = outcome /\ deps' = deps /\ always' = always
        /\ work' = work
    BY DEF graph
  <1>2. GraphTypeOK'
    BY <1>1 DEF GraphTypeOK, TypeOK, Graph!TypeOK
  <1>3. Submission'
    BY <1>1 DEF Submission, TasksOf
  <1> QED
    BY <1>1, <1>2, <1>3 DEF Chained, Started

-----------------------------------------------------------------------------
(* What the services have.                                                 *)

\* In the next state.
StartedNext(id) == outcome'[id] \in {"running", "ok", "failed"}

\* What was brought stays so, and what comes is brought by a task that started.
LEMMA BroughtStays ==
    ASSUME TypeOK, Brought,
           \A x \in TaskIds : Started(x) => StartedNext(x),
           \A c \in dbus' \ dbus :
               /\ StartedNext(c.task)
               /\ (c.kind = "bootloader" /\ c.data.config # 0)
                     => StartedNext(<<c.data.config, "bootloader">>),
           \/ full_config'.config = full_config.config
           \/ StartedNext(<<full_config'.config, "bootloader">>),
           \/ boot'.config = boot.config
           \/ \E c \in dbus : c.kind = "bootloader" /\ boot'.config = c.data.config,
           \A t \in AllTasks : \/ applied'[t] = applied[t]
                               \/ t \in Tasks /\ StartedNext(<<applied'[t], t>>)
    PROVE  Brought'
  <1>1. \A n \in 0 .. MaxConfigs : n # 0 => <<n, "bootloader">> \in TaskIds
    <2> SUFFICES ASSUME NEW n \in 0 .. MaxConfigs, n # 0
                 PROVE  <<n, "bootloader">> \in TaskIds
      OBVIOUS
    <2>1. n \in Numbers
      BY BoundsAssumption, NumbersRange
    <2> QED
      BY <2>1, Present
  <1>2. \A n \in 0 .. MaxConfigs, t \in Tasks : n # 0 => <<n, t>> \in TaskIds
    <2> SUFFICES ASSUME NEW n \in 0 .. MaxConfigs, NEW t \in Tasks, n # 0
                 PROVE  <<n, t>> \in TaskIds
      OBVIOUS
    <2>1. n \in Numbers
      BY BoundsAssumption, NumbersRange
    <2> QED
      BY <2>1 DEF TaskIds
  <1>3. /\ \A c \in dbus : c.task \in TaskIds /\ (c.kind = "bootloader" => c.data \in FullConfig)
        /\ full_config.config \in 0 .. MaxConfigs
        /\ boot.config \in 0 .. MaxConfigs
        /\ \A c \in dbus : c.kind = "bootloader" => c.data.config \in 0 .. MaxConfigs
        /\ \A t \in AllTasks : applied[t] \in 0 .. MaxConfigs
    BY DEF TypeOK, FullConfig, BootType
  <1>4. ASSUME NEW c \in dbus'
        PROVE  /\ StartedNext(c.task)
               /\ (c.kind = "bootloader" /\ c.data.config # 0)
                     => StartedNext(<<c.data.config, "bootloader">>)
    BY <1>1, <1>3 DEF Brought
  <1>5. full_config'.config # 0 => StartedNext(<<full_config'.config, "bootloader">>)
    BY <1>1, <1>3 DEF Brought
  <1>6. boot'.config # 0 => StartedNext(<<boot'.config, "bootloader">>)
    BY <1>1, <1>3 DEF Brought
  <1>7. \A t \in AllTasks : applied'[t] # 0 => t \in Tasks /\ StartedNext(<<applied'[t], t>>)
    BY <1>2, <1>3 DEF Brought
  <1> QED
    BY <1>4, <1>5, <1>6, <1>7 DEF Brought, Started, StartedNext

\* The devices stay as they are.
LEMMA SoundStays ==
    ASSUME Sound, config' = config, iscsi' = iscsi, boot' = boot
    PROVE  Sound'
  BY DEF Sound, Merged, Given, Overridden

LEMMA MergedTyped ==
    ASSUME TypeOK, NEW n \in 0 .. MaxConfigs
    PROVE  Merged(boot.keys, n) \in [BootKeys -> 0 .. MaxConfigs]
  <1>1. boot.keys \in [BootKeys -> 0 .. MaxConfigs] /\ 0 \in 0 .. MaxConfigs
    BY BoundsAssumption DEF TypeOK, BootType
  <1> QED
    BY <1>1 DEF Merged

\* To load a section again changes nothing.
LEMMA MergedTwice ==
    ASSUME NEW keys, NEW n
    PROVE  Merged(Merged(keys, n), n) = Merged(keys, n)
  BY DEF Merged

\* The targets of a section that are discovered are connected, and no others.
LEMMA TargetsConnected ==
    ASSUME TypeOK, NEW section \in IscsiSection
    PROVE  /\ ConnectTargets(section) \in IscsiType
           /\ section.targets \ Unreachable \subseteq ConnectTargets(section).nodes
           /\ ConnectTargets(section).connected
                 = section.targets \intersect ConnectTargets(section).nodes
           /\ section.initiator \in {NoValue, ConnectTargets(section).initiator}
  <1>1. /\ section.targets \subseteq Targets
        /\ section.initiator \in Initiators \union {NoValue}
        /\ iscsi.nodes \subseteq Targets
        /\ iscsi.initiator \in Initiators \union {NoValue}
    BY DEF TypeOK, IscsiType, IscsiSection
  <1> QED
    BY <1>1 DEF ConnectTargets, IscsiType

\* A task that moves without disturbing the services that matter to the others.
LEMMA MoveKeepsIInv ==
    ASSUME IInv, NEW id, Moves(id),
           UNCHANGED <<full_config, selection, dbus, devices, overlapped>>,
           selinux_selected' \in [Numbers -> 0 .. MaxConfigs],
           applied' \in {applied, [applied EXCEPT ![id[2]] = id[1]]},
           applied' # applied => outcome[id] = "running",
           outcome[id] = "running" =>
               /\ ~PendingOf(id, id[2])
               /\ id[2] = "bootloader" => work[id] = 1
               /\ id[2] = "software" => work[id] = 5
    PROVE  IInv'
  <1> USE DEF IInv
  <1>1. /\ GraphTypeOK' /\ Submission' /\ Chained'
        /\ \A x \in TaskIds : Started(x) => Started(x)'
        /\ \A x \in TaskIds \ {id} : outcome'[x] = outcome[x]
        /\ outcome[id] \in {"pending", "running"}
        /\ outcome[id] = "pending" => outcome'[id] \in {"running", "cancelled"}
        /\ outcome[id] = "running" => outcome'[id] \in {"ok", "failed"}
        /\ outcome'[id] = "running" => work[id] = 0
    BY MovesKeeps
  <1>2. /\ id \in TaskIds /\ config' = config /\ work' = work
        /\ full_config' = full_config /\ selection' = selection /\ dbus' = dbus
        /\ iscsi' = iscsi /\ storage' = storage /\ boot' = boot
        /\ overlapped' = overlapped
    BY DEF Moves, devices
  <1>3. id[1] \in Numbers /\ id[2] \in Tasks /\ id[2] \in AllTasks /\ id = <<id[1], id[2]>>
    BY <1>2, Ids, TasksAssumption
  <1>4. id[1] \in 0 .. MaxConfigs
    BY <1>3, NumbersRange, BoundsAssumption
  <1>5. TypeOK'
    <2>1. applied' \in [AllTasks -> 0 .. MaxConfigs]
      BY <1>3, <1>4 DEF TypeOK
    <2>2. \E n \in 0 .. MaxConfigs : config' \in [1 .. n -> ConfigType]
      BY <1>2 DEF TypeOK
    <2> QED
      BY <1>1, <1>2, <2>1, <2>2 DEF TypeOK, GraphTypeOK
  <1>6. \A t \in AllTasks : \/ applied'[t] = applied[t]
                            \/ /\ t = id[2] /\ applied'[t] = id[1]
                               /\ outcome[id] = "running"
    BY <1>3 DEF TypeOK
  <1>7. Brought'
    <2>1. \A t \in AllTasks : \/ applied'[t] = applied[t]
                              \/ t \in Tasks /\ StartedNext(<<applied'[t], t>>)
      <3> SUFFICES ASSUME NEW t \in AllTasks, applied'[t] # applied[t]
                   PROVE  t \in Tasks /\ StartedNext(<<applied'[t], t>>)
        OBVIOUS
      <3>1. t = id[2] /\ applied'[t] = id[1] /\ outcome[id] = "running"
        BY <1>6
      <3>2. <<applied'[t], t>> = id
        BY <1>3, <3>1
      <3> QED
        BY <1>1, <1>3, <3>1, <3>2 DEF StartedNext
    <2>2. \A x \in TaskIds : Started(x) => StartedNext(x)
      BY <1>1 DEF Started, StartedNext
    <2> QED
      BY <1>2, <2>1, <2>2, BroughtStays
  <1>8. Awaited'
    <2> SUFFICES ASSUME NEW c \in dbus
                 PROVE  AwaitedCall(c)'
      BY <1>2 DEF Awaited
    <2>1. /\ AwaitedCall(c) /\ Started(c.task) /\ c.task \in TaskIds
          /\ c.kind \in {"iscsi", "probe", "storage", "bootloader"}
      BY DEF Awaited, Brought, TypeOK
    <2>2. CASE c.task # id
      BY <1>1, <1>2, <2>1, <2>2 DEF AwaitedCall
    <2>3. CASE c.task = id
      <3>1. outcome[id] = "running"
        BY <1>1, <2>1, <2>3 DEF Started
      <3>2. c.kind # id[2]
        BY <2>3, <3>1 DEF PendingOf
      <3> QED
        BY <2>1, <2>3, <3>2 DEF AwaitedCall
    <2> QED
      BY <2>2, <2>3
  <1>9. ASSUME Count' <= 1, "bootloader" \notin MayRefuse
        PROVE  FirstDevices' /\ FirstBootloader' /\ FirstSoftware'
    <2>0. Count' = Count
      BY <1>2 DEF Count
    <2>1. FirstDevices /\ FirstBootloader /\ FirstSoftware
      BY <1>9, <2>0 DEF First
    <2>2. id[1] = 1
      <3>1. id[1] \in 1 .. Count
        BY <1>1, <1>2, Submitted
      <3> QED
        BY <1>9, <2>0, <3>1, Counted
    <2>3. 1 \in Numbers
      BY <1>3, <2>2
    <2>4. /\ <<1, "storage">> \in TaskIds /\ <<1, "bootloader">> \in TaskIds
          /\ <<1, "software">> \in TaskIds
      BY <2>3, Present
    <2>5. FirstDevices'
      BY <1>1, <1>2, <2>1, <2>4 DEF FirstDevices
    <2>6. FirstBootloader'
      <3>1. ASSUME id = <<1, "bootloader">>, outcome[id] = "running"
            PROVE  boot.config = 1 /\ full_config.config = 1
        <4>1. work[id] = 1 /\ ~PendingOf(id, "bootloader")
          BY <3>1
        <4> QED
          BY <2>1, <3>1, <4>1 DEF FirstBootloader
      <3>2. CASE id = <<1, "bootloader">>
        BY <1>1, <1>2, <2>1, <3>1, <3>2 DEF FirstBootloader, PendingOf
      <3>3. CASE id # <<1, "bootloader">>
        BY <1>1, <1>2, <2>1, <2>4, <3>3 DEF FirstBootloader, PendingOf
      <3> QED
        BY <3>2, <3>3
    <2>7. FirstSoftware'
      <3> DEFINE sw == <<1, "software">>
      <3>1. DOMAIN Providers = 1 .. 5 /\ \A k \in 1 .. 5 : Providers[k] \in ProviderSet
        BY FiveProviders
      <3>2. ASSUME NEW k \in 1 .. 5,
                   outcome'[sw] = "ok" \/ (outcome'[sw] = "running" /\ k <= work'[sw])
            PROVE  /\ Started(sw)
                   /\ outcome[sw] = "ok" \/ (outcome[sw] = "running" /\ k <= work[sw])
        <4>1. CASE id # sw
          BY <1>1, <1>2, <2>4, <3>2, <4>1 DEF Started
        <4>2. CASE id = sw
          <5>1. outcome'[id] # "running"
            BY <1>1, <1>2, <3>2, <4>2
          <5>2. outcome[id] = "running" /\ work[id] = 5
            BY <1>1, <3>2, <4>2, <5>1
          <5> QED
            BY <4>2, <5>2 DEF Started
        <4> QED
          BY <4>1, <4>2
      <3>3. ASSUME Started(sw), NEW p \in ProviderSet, Collected(p)
            PROVE  Collected(p)'
        <4>1. /\ outcome[<<1, "files">>] = "ok"
              /\ "ntp" \in Tasks => outcome[<<1, "ntp">>] = "ok"
          BY <2>3, <3>3, Order
        <4>2. applied'["files"] = applied["files"] /\ applied'["ntp"] = applied["ntp"]
          <5>1. {"files", "ntp"} \subseteq AllTasks
            BY DEF AllTasks, Optional
          <5> QED
            BY <1>3, <1>6, <2>2, <4>1, <5>1
        <4>3. p # "access" => Resolvables(p)' = Resolvables(p)
          BY <1>2, <4>2 DEF Resolvables, ProviderSet
        <4> QED
          BY <1>2, <3>3, <4>3 DEF Collected
      <3>4. ASSUME NEW k \in 1 .. 5,
                   outcome'[sw] = "ok" \/ (outcome'[sw] = "running" /\ k <= work'[sw])
            PROVE  Collected(Providers[k])'
        <4>1. Started(sw) /\ Collected(Providers[k])
          BY <2>1, <3>1, <3>2, <3>4 DEF FirstSoftware
        <4> QED
          BY <3>1, <3>3, <4>1
      <3> QED
        BY <3>1, <3>4 DEF FirstSoftware
    <2> QED
      BY <2>5, <2>6, <2>7
  <1>10. First'
    BY <1>9 DEF First
  <1>11. Sound'
    BY <1>2, SoundStays
  <1> QED
    BY <1>1, <1>5, <1>7, <1>8, <1>10, <1>11

LEMMA SelinuxTyped ==
    ASSUME TypeOK, NEW id \in TaskIds
    PROVE  /\ selinux_selected \in [Numbers -> 0 .. MaxConfigs]
           /\ [selinux_selected EXCEPT ![id[1]] = applied["software"]]
                 \in [Numbers -> 0 .. MaxConfigs]
  <1>1. "software" \in AllTasks
    BY DEF AllTasks
  <1> QED
    BY <1>1, Ids DEF TypeOK

LEMMA StartKeeps ==
    ASSUME IInv, NEW id \in TaskIds, Start(id) \/ Cancel(id)
    PROVE  IInv'
  <1>1. outcome[id] = "pending"
    BY DEF Start, Cancel, Graph!Start, Graph!Cancel
  <1>2. Moves(id)
    BY DEF Start, Cancel, Moves, Graph!Start, Graph!Cancel
  <1>3. /\ UNCHANGED <<full_config, selection, dbus, devices, overlapped>>
        /\ selinux_selected' = selinux_selected /\ applied' = applied
    BY DEF Start, Cancel, services
  <1>4. selinux_selected' \in [Numbers -> 0 .. MaxConfigs]
    BY <1>3, SelinuxTyped DEF IInv
  <1> QED
    BY <1>1, <1>2, <1>3, <1>4, MoveKeepsIInv

LEMMA EndMoves ==
    ASSUME NEW id \in TaskIds, outcome[id] = "running", config' = config,
           Done(id, "ok") \/ (id[2] \in MayFail /\ Done(id, "failed"))
    PROVE  Moves(id)
  BY DEF Moves, Done

LEMMA AwaitAnswerKeeps ==
    ASSUME IInv, NEW id \in TaskIds, Answered(id)
    PROVE  IInv'
  <1>1. /\ Done(id, "ok") /\ config' = config /\ outcome[id] = "running"
        /\ UNCHANGED <<full_config, selection, dbus, devices, overlapped>>
        /\ selinux_selected' = selinux_selected /\ applied' = applied
        /\ ~PendingOf(id, id[2])
        /\ id[2] = "bootloader" => work[id] = 1
        /\ id[2] # "software"
    BY DEF Answered, AwaitAnswer, Running, services
  <1>2. Moves(id)
    BY <1>1, EndMoves
  <1>3. selinux_selected' \in [Numbers -> 0 .. MaxConfigs]
    BY <1>1, SelinuxTyped DEF IInv
  <1> QED
    BY <1>1, <1>2, <1>3, MoveKeepsIInv

\* Only the tasks of the D-Bus service have calls on the way that they wait for.
LEMMA NoCallOf ==
    ASSUME IInv, NEW id \in TaskIds, id[2] \notin {"iscsi", "storage", "bootloader"}
    PROVE  ~PendingOf(id, id[2])
  BY DEF IInv, Awaited, AwaitedCall, PendingOf, TypeOK

LEMMA OneCallKeeps ==
    ASSUME IInv, NEW id \in TaskIds, OneCall(id)
    PROVE  IInv'
  <1>1. /\ id[2] \in {"files", "pre_scripts", "access", "users", "ntp", "network"}
        /\ outcome[id] = "running"
        /\ Done(id, "ok") \/ (id[2] \in MayFail /\ Done(id, "failed"))
        /\ applied' \in {applied, [applied EXCEPT ![id[2]] = id[1]]}
        /\ UNCHANGED <<full_config, selection, dbus, devices, overlapped>>
        /\ selinux_selected' = selinux_selected /\ config' = config
    BY DEF OneCall, Running
  <1>2. Moves(id)
    BY <1>1, EndMoves
  <1>3. selinux_selected' \in [Numbers -> 0 .. MaxConfigs]
    BY <1>1, SelinuxTyped DEF IInv
  <1>4. ~PendingOf(id, id[2])
    BY <1>1, NoCallOf
  <1> QED
    BY <1>1, <1>2, <1>3, <1>4, MoveKeepsIInv

LEMMA SoftwareSetConfigKeeps ==
    ASSUME IInv, NEW id \in TaskIds, SoftwareSetConfig(id)
    PROVE  IInv'
  <1>1. /\ id[2] = "software" /\ work[id] = 5
        /\ outcome[id] = "running"
        /\ Done(id, "ok") \/ (id[2] \in MayFail /\ Done(id, "failed"))
        /\ applied' \in {applied, [applied EXCEPT ![id[2]] = id[1]]}
        /\ UNCHANGED <<full_config, selection, dbus, devices, overlapped>>
        /\ selinux_selected' = selinux_selected /\ config' = config
    BY FiveProviders DEF SoftwareSetConfig, Running
  <1>2. Moves(id)
    BY <1>1, EndMoves
  <1>3. selinux_selected' \in [Numbers -> 0 .. MaxConfigs]
    BY <1>1, SelinuxTyped DEF IInv
  <1>4. ~PendingOf(id, id[2])
    BY <1>1, NoCallOf
  <1> QED
    BY <1>1, <1>2, <1>3, <1>4, MoveKeepsIInv

-----------------------------------------------------------------------------
(* The calls.                                                              *)

\* A call that does not reach a service before the D-Bus service takes it.
LEMMA CallKeepsIInv ==
    ASSUME IInv, NEW id, Calls(id), id[2] \notin {"bootloader", "software"},
           UNCHANGED <<services, devices, overlapped>>,
           selinux_selected' \in [Numbers -> 0 .. MaxConfigs],
           NEW call,
           \/ dbus' = dbus
           \/ /\ dbus' = dbus \union {call}
              /\ call.kind \in {"iscsi", "probe", "storage"}
              /\ call.task = id
              /\ call.kind \in {"iscsi", "storage"} => id[2] = call.kind
              /\ call.kind = "iscsi" => call.data \in Sections
              /\ call.kind = "storage" => call.data \in StorageSections
              /\ call.kind = "probe" => id[2] = "storage"
    PROVE  IInv'
  <1> USE DEF IInv
  <1>1. /\ GraphTypeOK' /\ Submission' /\ Chained'
        /\ outcome' = outcome /\ config' = config
        /\ work'[id] = work[id] + 1
        /\ \A x \in TaskIds \ {id} : work'[x] = work[x]
    BY CallsKeeps
  <1>2. /\ id \in TaskIds /\ outcome[id] = "running"
        /\ full_config' = full_config /\ selection' = selection /\ applied' = applied
        /\ iscsi' = iscsi /\ storage' = storage /\ boot' = boot
        /\ overlapped' = overlapped
    BY DEF Calls, services, devices
  <1>3. TypeOK'
    <2>1. \E n \in 0 .. MaxConfigs : config' \in [1 .. n -> ConfigType]
      BY <1>1 DEF TypeOK
    <2>2. \A c \in dbus' :
            /\ c.kind \in {"iscsi", "probe", "storage", "bootloader"}
            /\ c.task \in TaskIds
            /\ c.kind = "iscsi" => c.data \in Sections
            /\ c.kind = "storage" => c.data \in StorageSections
            /\ c.kind = "bootloader" => c.data \in FullConfig
      BY <1>2 DEF TypeOK
    <2> QED
      BY <1>1, <1>2, <2>1, <2>2 DEF TypeOK, GraphTypeOK
  <1>4. Brought'
    BY <1>1, <1>2 DEF Brought, Started
  <1>5. Awaited'
    <2> SUFFICES ASSUME NEW c \in dbus'
                 PROVE  AwaitedCall(c)'
      BY DEF Awaited
    <2>1. CASE c \in dbus
      <3>1. /\ AwaitedCall(c) /\ c.task \in TaskIds
        BY <2>1 DEF Awaited, TypeOK
      <3> QED
        BY <1>1, <3>1 DEF AwaitedCall
    <2>2. CASE c \notin dbus
      BY <1>1, <1>2, <2>2 DEF AwaitedCall
    <2> QED
      BY <2>1, <2>2
  <1>6. ASSUME Count' <= 1, "bootloader" \notin MayRefuse
        PROVE  FirstDevices' /\ FirstBootloader' /\ FirstSoftware'
    <2>1. FirstDevices /\ FirstBootloader /\ FirstSoftware
      BY <1>1, <1>6 DEF First, Count
    <2>2. \A t \in {"bootloader", "software"} : <<1, t>> # id
      BY <1>2, Ids
    <2>3. 1 \in Numbers
      BY BoundsAssumption, NumbersRange
    <2>4. work'[<<1, "bootloader">>] = work[<<1, "bootloader">>]
          /\ work'[<<1, "software">>] = work[<<1, "software">>]
      BY <1>1, <2>2, <2>3, Present
    <2>5. FirstDevices'
      BY <1>1, <1>2, <2>1 DEF FirstDevices, Started
    <2>6. FirstBootloader'
      BY <1>1, <1>2, <2>1, <2>4 DEF FirstBootloader, PendingOf
    <2>7. FirstSoftware'
      BY <1>1, <1>2, <2>1, <2>4 DEF FirstSoftware, Collected, Resolvables
    <2> QED
      BY <2>5, <2>6, <2>7
  <1>7. Sound'
    BY <1>1, <1>2, SoundStays
  <1> QED
    BY <1>1, <1>3, <1>4, <1>5, <1>6, <1>7 DEF First

LEMMA CallTask ==
    ASSUME NEW id, NEW kind, NEW data
    PROVE  /\ Call(kind, id, data).kind = kind
           /\ Call(kind, id, data).task = id
           /\ Call(kind, id, data).data = data
  BY DEF Call

LEMMA SectionsOf ==
    ASSUME IInv, NEW id \in TaskIds, outcome[id] = "running"
    PROVE  config[id[1]].iscsi \in Sections /\ config[id[1]].storage \in StorageSections
  <1>1. config[id[1]] \in ConfigType
    BY Submitted DEF IInv
  <1> QED
    BY <1>1 DEF ConfigType

LEMMA IscsiCallKeeps ==
    ASSUME IInv, NEW id \in TaskIds, IscsiCall(id)
    PROVE  IInv'
  <1> DEFINE call == Call("iscsi", id, config[id[1]].iscsi)
  <1>1. /\ outcome[id] = "running" /\ id[2] = "iscsi" /\ work[id] = 0
        /\ NextCall(id) /\ config' = config /\ dbus' = dbus \union {call}
        /\ UNCHANGED <<services, devices, overlapped>>
        /\ selinux_selected' = selinux_selected
    BY DEF IscsiCall, Running
  <1>2. Calls(id)
    BY <1>1 DEF Calls
  <1>3. call.kind = "iscsi" /\ call.task = id /\ call.data \in Sections
    BY <1>1, CallTask, SectionsOf
  <1>4. selinux_selected' \in [Numbers -> 0 .. MaxConfigs]
    BY <1>1, SelinuxTyped DEF IInv
  <1> HIDE DEF call
  <1> QED
    BY <1>1, <1>2, <1>3, <1>4, CallKeepsIInv

LEMMA StorageSetConfigKeeps ==
    ASSUME IInv, NEW id \in TaskIds, StorageSetConfig(id)
    PROVE  IInv'
  <1> DEFINE call == Call("storage", id, config[id[1]].storage)
  <1>1. /\ outcome[id] = "running" /\ id[2] = "storage" /\ work[id] = 1
        /\ NextCall(id) /\ config' = config /\ dbus' = dbus \union {call}
        /\ UNCHANGED <<services, devices, overlapped>>
        /\ selinux_selected' = selinux_selected
    BY DEF StorageSetConfig, Running
  <1>2. Calls(id)
    BY <1>1 DEF Calls
  <1>3. call.kind = "storage" /\ call.task = id /\ call.data \in StorageSections
    BY <1>1, CallTask, SectionsOf
  <1>4. selinux_selected' \in [Numbers -> 0 .. MaxConfigs]
    BY <1>1, SelinuxTyped DEF IInv
  <1> HIDE DEF call
  <1> QED
    BY <1>1, <1>2, <1>3, <1>4, CallKeepsIInv

LEMMA StorageProbeKeeps ==
    ASSUME IInv, NEW id \in TaskIds, StorageProbe(id)
    PROVE  IInv'
  <1> DEFINE call == Call("probe", id, NoValue)
  <1>1. /\ outcome[id] = "running" /\ id[2] = "storage" /\ work[id] = 0
        /\ NextCall(id) /\ config' = config /\ dbus' \in {dbus, dbus \union {call}}
        /\ UNCHANGED <<services, devices, overlapped>>
        /\ selinux_selected' = selinux_selected
    BY DEF StorageProbe, Running
  <1>2. Calls(id)
    BY <1>1 DEF Calls
  <1>3. call.kind = "probe" /\ call.task = id
    BY <1>1, CallTask
  <1>4. selinux_selected' \in [Numbers -> 0 .. MaxConfigs]
    BY <1>1, SelinuxTyped DEF IInv
  <1> HIDE DEF call
  <1> QED
    BY <1>1, <1>2, <1>3, <1>4, CallKeepsIInv

LEMMA IsPatternSelectedKeeps ==
    ASSUME IInv, NEW id \in TaskIds, IsPatternSelected(id)
    PROVE  IInv'
  <1>1. /\ outcome[id] = "running" /\ id[2] = "selinux" /\ work[id] = 0
        /\ config' = config /\ dbus' = dbus
        /\ UNCHANGED <<services, devices, overlapped>>
        /\ full_config' = full_config /\ selection' = selection /\ applied' = applied
        /\ NextCall(id) \/ (id[2] \in MayFail /\ Done(id, "failed"))
        /\ selinux_selected' = [selinux_selected EXCEPT ![id[1]] = applied["software"]]
    BY DEF IsPatternSelected, Running, services
  <1>2. selinux_selected' \in [Numbers -> 0 .. MaxConfigs]
    BY <1>1, SelinuxTyped DEF IInv
  <1>3. CASE NextCall(id)
    <2>1. Calls(id)
      BY <1>1, <1>3 DEF Calls
    <2>2. id[2] \notin {"bootloader", "software"}
      BY <1>1
    <2> QED
      BY <1>1, <1>2, <2>1, <2>2, CallKeepsIInv
  <1>4. CASE id[2] \in MayFail /\ Done(id, "failed")
    <2>1. Moves(id)
      BY <1>1, <1>4, EndMoves
    <2>2. ~PendingOf(id, id[2])
      BY <1>1, NoCallOf
    <2>3. id[2] # "bootloader" /\ id[2] # "software"
      BY <1>1
    <2>4. UNCHANGED <<full_config, selection, dbus, devices, overlapped>>
      BY <1>1
    <2> QED
      BY <1>1, <1>2, <2>1, <2>2, <2>3, <2>4, MoveKeepsIInv
  <1> QED
    BY <1>1, <1>3, <1>4

\* The call with the whole configuration of the bootloader.
LEMMA FullConfigCall ==
    ASSUME IInv, NEW id \in TaskIds,
           \/ full_config' = [full_config EXCEPT !.config = id[1]]
           \/ full_config' = [full_config EXCEPT !.selinux = selinux_selected[id[1]]],
           dbus' = dbus \union {Call("bootloader", id, full_config')}
    PROVE  /\ full_config' \in FullConfig
           /\ \A c \in dbus' :
                 /\ c.kind \in {"iscsi", "probe", "storage", "bootloader"}
                 /\ c.task \in TaskIds
                 /\ c.kind = "iscsi" => c.data \in Sections
                 /\ c.kind = "storage" => c.data \in StorageSections
                 /\ c.kind = "bootloader" => c.data \in FullConfig
  <1>1. full_config \in FullConfig /\ selinux_selected \in [Numbers -> 0 .. MaxConfigs]
    BY DEF IInv, TypeOK
  <1>2. id[1] \in Numbers /\ id[1] \in 0 .. MaxConfigs
    BY Ids, NumbersRange, BoundsAssumption
  <1>3. full_config' \in FullConfig
    BY <1>1, <1>2 DEF FullConfig
  <1>4. Call("bootloader", id, full_config').kind = "bootloader"
        /\ Call("bootloader", id, full_config').task = id
        /\ Call("bootloader", id, full_config').data = full_config'
    BY CallTask
  <1> HIDE DEF Call
  <1> QED
    BY <1>3, <1>4 DEF IInv, TypeOK

LEMMA BootloaderSetConfigKeeps ==
    ASSUME IInv, NEW id \in TaskIds, BootloaderSetConfig(id)
    PROVE  IInv'
  <1> USE DEF IInv
  <1> DEFINE call == Call("bootloader", id, full_config')
  <1>1. /\ outcome[id] = "running" /\ id[2] = "bootloader" /\ work[id] = 0
        /\ NextCall(id) /\ config' = config /\ dbus' = dbus \union {call}
        /\ full_config' = [full_config EXCEPT !.config = id[1]]
        /\ applied' = applied /\ selection' = selection
        /\ iscsi' = iscsi /\ storage' = storage /\ boot' = boot
        /\ overlapped' = overlapped /\ selinux_selected' = selinux_selected
    BY DEF BootloaderSetConfig, Running, devices
  <1>2. Calls(id)
    BY <1>1 DEF Calls
  <1>3. /\ GraphTypeOK' /\ Submission' /\ Chained'
        /\ outcome' = outcome
        /\ work'[id] = work[id] + 1
        /\ \A x \in TaskIds \ {id} : work'[x] = work[x]
    BY <1>2, CallsKeeps
  <1>4. /\ full_config' \in FullConfig
        /\ \A c \in dbus' :
              /\ c.kind \in {"iscsi", "probe", "storage", "bootloader"}
              /\ c.task \in TaskIds
              /\ c.kind = "iscsi" => c.data \in Sections
              /\ c.kind = "storage" => c.data \in StorageSections
              /\ c.kind = "bootloader" => c.data \in FullConfig
    BY <1>1, FullConfigCall
  <1>5. call.kind = "bootloader" /\ call.task = id /\ call.data = full_config'
    BY CallTask
  <1>6. full_config'.config = id[1]
    BY <1>1 DEF TypeOK, FullConfig
  <1>7. id[1] \in Numbers /\ id = <<id[1], "bootloader">>
    BY <1>1, Ids
  <1> HIDE DEF call
  <1>8. TypeOK'
    <2>1. \E n \in 0 .. MaxConfigs : config' \in [1 .. n -> ConfigType]
      BY <1>1 DEF TypeOK
    <2> QED
      BY <1>1, <1>3, <1>4, <2>1 DEF TypeOK, GraphTypeOK
  <1>9. Brought'
    <2>1. Started(id) /\ Started(<<full_config'.config, "bootloader">>)
      BY <1>1, <1>6, <1>7 DEF Started
    <2>2. \A x \in TaskIds : Started(x) => StartedNext(x)
      BY <1>3 DEF Started, StartedNext
    <2>3. StartedNext(id) /\ StartedNext(<<full_config'.config, "bootloader">>)
      BY <1>3, <2>1 DEF Started, StartedNext
    <2>4. \A c \in dbus' \ dbus :
               /\ StartedNext(c.task)
               /\ (c.kind = "bootloader" /\ c.data.config # 0)
                     => StartedNext(<<c.data.config, "bootloader">>)
      BY <1>1, <1>5, <2>3
    <2> QED
      BY <1>1, <2>2, <2>3, <2>4, BroughtStays
  <1>10. Awaited'
    <2> SUFFICES ASSUME NEW c \in dbus'
                 PROVE  AwaitedCall(c)'
      BY DEF Awaited
    <2>1. CASE c \in dbus
      <3>1. /\ AwaitedCall(c) /\ c.task \in TaskIds
        BY <2>1 DEF Awaited, TypeOK
      <3> QED
        BY <1>1, <1>3, <3>1 DEF AwaitedCall
    <2>2. CASE c = call
      BY <1>1, <1>3, <1>5, <2>2 DEF AwaitedCall
    <2> QED
      BY <1>1, <2>1, <2>2
  <1>11. ASSUME Count' <= 1, "bootloader" \notin MayRefuse
         PROVE  FirstDevices' /\ FirstBootloader' /\ FirstSoftware'
    <2>1. FirstDevices /\ FirstBootloader /\ FirstSoftware /\ Count' = Count
      BY <1>1, <1>11 DEF First, Count
    <2>2. id[1] = 1
      <3>1. id[1] \in 1 .. Count
        BY <1>1, Submitted
      <3> QED
        BY <1>11, <2>1, <3>1, Counted
    <2>3. id = <<1, "bootloader">> /\ full_config'.config = 1
      BY <1>6, <1>7, <2>2
    <2>4. work'[<<1, "software">>] = work[<<1, "software">>]
      <3>1. 1 \in Numbers /\ id # <<1, "software">>
        BY <1>7, <2>2
      <3> QED
        BY <1>3, <3>1, Present
    <2>5. FirstDevices'
      BY <1>1, <1>3, <2>1 DEF FirstDevices, Started
    <2>6. FirstBootloader'
      <3>1. outcome'[<<1, "bootloader">>] # "ok"
        BY <1>1, <1>3, <2>3
      <3>2. \E c \in dbus' : c.task = <<1, "bootloader">> /\ c.kind = "bootloader"
        BY <1>1, <1>5, <2>3
      <3>3. \A c \in dbus' : c.kind = "bootloader" => c.data.config = 1
        BY <1>1, <1>5, <2>1, <2>3 DEF FirstBootloader
      <3> QED
        BY <2>3, <3>1, <3>2, <3>3 DEF FirstBootloader, PendingOf
    <2>7. FirstSoftware'
      BY <1>1, <1>3, <2>1, <2>4 DEF FirstSoftware, Collected, Resolvables
    <2> QED
      BY <2>5, <2>6, <2>7
  <1>12. Sound'
    BY <1>1, SoundStays
  <1> QED
    BY <1>3, <1>8, <1>9, <1>10, <1>11, <1>12 DEF First

\* The kernel argument goes with the configuration that the bootloader has.
LEMMA SetKernelArgKeeps ==
    ASSUME IInv, NEW id \in TaskIds, SetKernelArg(id)
    PROVE  IInv'
  <1> USE DEF IInv
  <1> DEFINE call == Call("bootloader", id, full_config')
  <1>1. /\ outcome[id] = "running" /\ id[2] = "selinux"
        /\ Done(id, "ok") /\ config' = config /\ dbus' = dbus \union {call}
        /\ full_config' = [full_config EXCEPT !.selinux = selinux_selected[id[1]]]
        /\ applied' = applied /\ selection' = selection
        /\ iscsi' = iscsi /\ storage' = storage /\ boot' = boot
        /\ overlapped' = overlapped /\ selinux_selected' = selinux_selected
    BY DEF SetKernelArg, Running, devices
  <1>2. Moves(id) /\ work' = work
    BY <1>1, EndMoves DEF Done
  <1>3. /\ GraphTypeOK' /\ Submission' /\ Chained'
        /\ \A x \in TaskIds : Started(x) => Started(x)'
        /\ \A x \in TaskIds \ {id} : outcome'[x] = outcome[x]
        /\ outcome'[id] \in {"ok", "failed"}
    BY <1>1, <1>2, MovesKeeps
  <1>4. /\ full_config' \in FullConfig
        /\ \A c \in dbus' :
              /\ c.kind \in {"iscsi", "probe", "storage", "bootloader"}
              /\ c.task \in TaskIds
              /\ c.kind = "iscsi" => c.data \in Sections
              /\ c.kind = "storage" => c.data \in StorageSections
              /\ c.kind = "bootloader" => c.data \in FullConfig
    BY <1>1, FullConfigCall
  <1>5. call.kind = "bootloader" /\ call.task = id /\ call.data = full_config'
    BY CallTask
  <1>6. full_config'.config = full_config.config
    BY <1>1 DEF TypeOK, FullConfig
  <1>7. id[1] \in Numbers /\ id = <<id[1], "selinux">>
    BY <1>1, Ids
  <1> HIDE DEF call
  <1>8. TypeOK'
    <2>1. \E n \in 0 .. MaxConfigs : config' \in [1 .. n -> ConfigType]
      BY <1>1 DEF TypeOK
    <2> QED
      BY <1>1, <1>3, <1>4, <2>1 DEF TypeOK, GraphTypeOK
  <1>9. Brought'
    <2>1. \A x \in TaskIds : Started(x) => StartedNext(x)
      BY <1>3 DEF Started, StartedNext
    <2>2. full_config.config # 0 => StartedNext(<<full_config.config, "bootloader">>)
      <3> SUFFICES ASSUME full_config.config # 0
                   PROVE  StartedNext(<<full_config.config, "bootloader">>)
        OBVIOUS
      <3>1. full_config.config \in 0 .. MaxConfigs
        BY DEF TypeOK, FullConfig
      <3>2. full_config.config \in Numbers
        BY <3>1, BoundsAssumption, NumbersRange
      <3>3. <<full_config.config, "bootloader">> \in TaskIds
        BY <3>2, Present
      <3> QED
        BY <2>1, <3>3 DEF Brought
    <2>3. StartedNext(id)
      BY <1>3 DEF StartedNext
    <2>4. \A c \in dbus' \ dbus :
               /\ StartedNext(c.task)
               /\ (c.kind = "bootloader" /\ c.data.config # 0)
                     => StartedNext(<<c.data.config, "bootloader">>)
      BY <1>1, <1>5, <1>6, <2>2, <2>3
    <2> QED
      BY <1>1, <1>6, <2>1, <2>4, BroughtStays
  <1>10. Awaited'
    <2> SUFFICES ASSUME NEW c \in dbus'
                 PROVE  AwaitedCall(c)'
      BY DEF Awaited
    <2>1. CASE c \in dbus
      <3>1. AwaitedCall(c) /\ c.task \in TaskIds
        BY <2>1 DEF Awaited, TypeOK
      <3> QED
        BY <1>1, <1>2, <1>3, <3>1 DEF AwaitedCall
    <2>2. CASE c = call
      BY <1>1, <1>5, <2>2 DEF AwaitedCall
    <2> QED
      BY <1>1, <2>1, <2>2
  <1>11. ASSUME Count' <= 1, "bootloader" \notin MayRefuse
         PROVE  FirstDevices' /\ FirstBootloader' /\ FirstSoftware'
    <2>1. FirstDevices /\ FirstBootloader /\ FirstSoftware /\ Count' = Count
      BY <1>1, <1>11 DEF First, Count
    <2>2. id[1] = 1
      <3>1. id[1] \in 1 .. Count
        BY <1>1, Submitted
      <3> QED
        BY <1>11, <2>1, <3>1, Counted
    <2>3. 1 \in Numbers /\ id = <<1, "selinux">>
      BY <1>7, <2>2
    <2>4. full_config.config = 1
      <3>1. outcome[<<1, "software">>] = "ok"
        BY <1>1, <2>3, Order DEF Started
      <3>2. outcome[<<1, "bootloader">>] = "ok"
        BY <2>3, <3>1, Order DEF Started
      <3> QED
        BY <2>1, <3>2 DEF FirstBootloader
    <2>5. /\ <<1, "storage">> \in TaskIds \ {id} /\ <<1, "bootloader">> \in TaskIds \ {id}
          /\ <<1, "software">> \in TaskIds \ {id}
      BY <2>3, Present
    <2>6. FirstDevices'
      BY <1>1, <1>3, <2>1, <2>5 DEF FirstDevices, Started
    <2>7. FirstBootloader'
      <3>1. \A c \in dbus' : c.kind = "bootloader" => c.data.config = 1
        BY <1>1, <1>5, <1>6, <2>1, <2>4 DEF FirstBootloader
      <3> QED
        BY <1>1, <1>2, <1>3, <1>6, <2>1, <2>5, <3>1 DEF FirstBootloader, PendingOf
    <2>8. FirstSoftware'
      BY <1>1, <1>2, <1>3, <2>1, <2>5 DEF FirstSoftware, Collected, Resolvables
    <2> QED
      BY <2>6, <2>7, <2>8
  <1>12. Sound'
    BY <1>1, SoundStays
  <1> QED
    BY <1>3, <1>8, <1>9, <1>10, <1>11, <1>12 DEF First

\* What a service answers is what it needs.
LEMMA SetResolvablesForKeeps ==
    ASSUME IInv, NEW id \in TaskIds, SetResolvablesFor(id)
    PROVE  IInv'
  <1> USE DEF IInv
  <1>1. PICK k \in 1 .. 5 :
            /\ Running(id, "software", k - 1)
            /\ selection' = [selection EXCEPT ![Providers[k]] = Resolvables(Providers[k])]
    BY FiveProviders DEF SetResolvablesFor
  <1>2. /\ outcome[id] = "running" /\ id[2] = "software" /\ work[id] = k - 1
        /\ NextCall(id) /\ config' = config /\ dbus' = dbus
        /\ full_config' = full_config /\ applied' = applied
        /\ iscsi' = iscsi /\ storage' = storage /\ boot' = boot
        /\ overlapped' = overlapped /\ selinux_selected' = selinux_selected
    BY <1>1 DEF SetResolvablesFor, Running, devices
  <1>3. Calls(id)
    BY <1>2 DEF Calls
  <1>4. /\ GraphTypeOK' /\ Submission' /\ Chained'
        /\ outcome' = outcome
        /\ work'[id] = work[id] + 1
        /\ \A x \in TaskIds \ {id} : work'[x] = work[x]
    BY <1>3, CallsKeeps
  <1>5. id[1] \in Numbers /\ id = <<id[1], "software">>
    BY <1>2, Ids
  <1>6. TypeOK'
    <2>1. \E n \in 0 .. MaxConfigs : config' \in [1 .. n -> ConfigType]
      BY <1>2 DEF TypeOK
    <2>2. DOMAIN selection' = ProviderSet
      BY <1>1 DEF TypeOK
    <2> QED
      BY <1>2, <1>4, <2>1, <2>2 DEF TypeOK, GraphTypeOK
  <1>7. Brought'
    BY <1>2, <1>4 DEF Brought, Started
  <1>8. Awaited'
    <2> SUFFICES ASSUME NEW c \in dbus
                 PROVE  AwaitedCall(c)'
      BY <1>2 DEF Awaited
    <2>1. AwaitedCall(c) /\ c.task \in TaskIds
      BY DEF Awaited, TypeOK
    <2> QED
      BY <1>2, <1>4, <2>1 DEF AwaitedCall
  <1>9. ASSUME Count' <= 1, "bootloader" \notin MayRefuse
        PROVE  FirstDevices' /\ FirstBootloader' /\ FirstSoftware'
    <2>1. FirstDevices /\ FirstBootloader /\ FirstSoftware /\ Count' = Count
      BY <1>2, <1>9 DEF First, Count
    <2>2. id[1] = 1
      <3>1. id[1] \in 1 .. Count
        BY <1>2, Submitted
      <3> QED
        BY <1>9, <2>1, <3>1, Counted
    <2>3. 1 \in Numbers /\ id = <<1, "software">> /\ <<1, "bootloader">> \in TaskIds \ {id}
      <3>1. 1 \in Numbers /\ id = <<1, "software">>
        BY <1>5, <2>2
      <3>2. <<1, "bootloader">> # id
        BY <3>1
      <3> QED
        BY <3>1, <3>2, Present
    <2>4. FirstDevices'
      BY <1>2, <1>4, <2>1 DEF FirstDevices, Started
    <2>5. FirstBootloader'
      BY <1>2, <1>4, <2>1, <2>3 DEF FirstBootloader, PendingOf
    <2>6. FirstSoftware'
      <3>1. \A p : Resolvables(p)' = Resolvables(p)
        BY <1>2 DEF Resolvables
      <3>2. ASSUME NEW l \in 1 .. 5,
                   outcome'[id] = "ok" \/ (outcome'[id] = "running" /\ l <= work'[id])
            PROVE  Collected(Providers[l])'
        <4>1. Providers[l] \in DOMAIN selection /\ Providers[k] \in DOMAIN selection
          BY FiveProviders DEF TypeOK
        <4>2. CASE l = k
          <5>1. selection'[Providers[k]] = Resolvables(Providers[k])
            BY <1>1, <4>1
          <5> QED
            BY <3>1, <4>2, <5>1 DEF Collected
        <4>3. CASE l # k
          <5>1. Providers[l] # Providers[k]
            BY <4>3, FiveProviders
          <5>2. selection'[Providers[l]] = selection[Providers[l]]
            BY <1>1, <4>1, <5>1
          <5>3. l <= work[id]
            BY <1>2, <1>4, <3>2, <4>3
          <5>4. Collected(Providers[l])
            BY <1>2, <2>1, <2>3, <5>3, FiveProviders DEF FirstSoftware
          <5> QED
            BY <1>2, <3>1, <5>2, <5>4 DEF Collected
        <4> QED
          BY <4>2, <4>3
      <3> QED
        BY <2>3, <3>2, FiveProviders DEF FirstSoftware
    <2> QED
      BY <2>4, <2>5, <2>6
  <1>10. Sound'
    BY <1>2, SoundStays
  <1> QED
    BY <1>4, <1>6, <1>7, <1>8, <1>9, <1>10 DEF First

-----------------------------------------------------------------------------
(* The D-Bus service.                                                      *)

\* The service takes a call; only the devices change.
LEMMA TakeKeeps ==
    ASSUME IInv, NEW c, NEW kind, Take(c, kind),
           iscsi' \in IscsiType,
           storage' \in StorageType,
           Sound',
           \/ boot' = boot
           \/ /\ kind = "bootloader"
              /\ boot' = [config |-> c.data.config, selinux |-> c.data.selinux,
                          keys |-> Merged(boot.keys, c.data.config)]
    PROVE  /\ TypeOK' /\ Submission' /\ Chained' /\ Brought' /\ Awaited'
           /\ c \in dbus /\ c.kind = kind /\ dbus' = dbus \ {c}
           /\ AwaitedCall(c) /\ Started(c.task) /\ c.task \in TaskIds
           /\ kind = "iscsi" => c.data \in Sections
           /\ kind = "storage" => c.data \in StorageSections
           /\ config' = config /\ outcome' = outcome /\ work' = work
           /\ full_config' = full_config /\ selection' = selection /\ applied' = applied
  <1> USE DEF IInv
  <1>1. /\ c \in dbus /\ c.kind = kind /\ dbus' = dbus \ {c}
        /\ UNCHANGED <<config, graph, work>>
        /\ config' = config /\ outcome' = outcome /\ work' = work
        /\ full_config' = full_config /\ selection' = selection /\ applied' = applied
        /\ selinux_selected' = selinux_selected /\ overlapped' = overlapped
    BY DEF Take, graph, services
  <1>2. GraphTypeOK' /\ Submission' /\ Chained'
    BY <1>1, SameGraph
  <1>3. /\ c.task \in TaskIds /\ Started(c.task) /\ AwaitedCall(c)
        /\ kind = "iscsi" => c.data \in Sections
        /\ kind = "storage" => c.data \in StorageSections
        /\ kind = "bootloader" => c.data \in FullConfig
    BY <1>1 DEF Awaited, Brought, TypeOK
  <1>4. TypeOK'
    <2>1. \E n \in 0 .. MaxConfigs : config' \in [1 .. n -> ConfigType]
      BY <1>1 DEF TypeOK
    <2>2. boot' \in BootType
      <3>1. CASE boot' = boot
        BY <3>1 DEF TypeOK
      <3>2. CASE boot' # boot
        <4>1. c.data.config \in 0 .. MaxConfigs /\ c.data.selinux \in 0 .. MaxConfigs
          BY <1>3, <3>2 DEF FullConfig
        <4>2. Merged(boot.keys, c.data.config) \in [BootKeys -> 0 .. MaxConfigs]
          BY <4>1, MergedTyped
        <4> QED
          BY <3>2, <4>1, <4>2 DEF BootType
      <3> QED
        BY <3>1, <3>2
    <2>3. \A d \in dbus' :
            /\ d.kind \in {"iscsi", "probe", "storage", "bootloader"}
            /\ d.task \in TaskIds
            /\ d.kind = "iscsi" => d.data \in Sections
            /\ d.kind = "storage" => d.data \in StorageSections
            /\ d.kind = "bootloader" => d.data \in FullConfig
      BY <1>1 DEF TypeOK
    <2> QED
      BY <1>1, <1>2, <2>1, <2>2, <2>3 DEF TypeOK, GraphTypeOK
  <1>5. Brought'
    <2>1. \A x \in TaskIds : Started(x) => StartedNext(x)
      BY <1>1 DEF Started, StartedNext
    <2>2. \/ boot'.config = boot.config
          \/ \E d \in dbus : d.kind = "bootloader" /\ boot'.config = d.data.config
      BY <1>1
    <2> QED
      BY <1>1, <2>1, <2>2, BroughtStays
  <1>6. Awaited'
    BY <1>1 DEF Awaited, AwaitedCall
  <1> QED
    BY <1>1, <1>2, <1>3, <1>4, <1>5, <1>6

\* The task of a call is of the first configuration if there is no other.
LEMMA FirstCall ==
    ASSUME IInv, Count <= 1, NEW c \in dbus
    PROVE  /\ 1 \in Numbers
           /\ c.task = <<1, c.task[2]>>
  <1> USE DEF IInv
  <1>1. c.task \in TaskIds /\ outcome[c.task] # "absent"
    BY DEF Brought, Started, TypeOK
  <1>2. c.task[1] \in 1 .. Count /\ Count \in 0 .. MaxConfigs
    BY <1>1, Submitted, Counted
  <1>3. c.task[1] = 1
    BY <1>2, BoundsAssumption
  <1> QED
    BY <1>1, <1>3, Ids

LEMMA RefuseKeeps ==
    ASSUME IInv, NEW c, Refuse(c)
    PROVE  IInv'
  <1> USE DEF IInv
  <1>1. PICK kind \in MayRefuse : Take(c, kind)
    BY DEF Refuse
  <1>2. iscsi' = iscsi /\ storage' = storage /\ boot' = boot
    BY DEF Refuse, devices
  <1>3. /\ iscsi' \in IscsiType
        /\ storage' \in StorageType
        /\ Sound'
    <2>1. config' = config
      BY <1>1 DEF Take
    <2> QED
      BY <1>2, <2>1, SoundStays DEF TypeOK
  <1>4. /\ TypeOK' /\ Submission' /\ Chained' /\ Brought' /\ Awaited'
        /\ c \in dbus /\ c.kind = kind /\ dbus' = dbus \ {c}
        /\ config' = config /\ outcome' = outcome /\ work' = work
        /\ full_config' = full_config /\ selection' = selection /\ applied' = applied
    BY <1>1, <1>2, <1>3, TakeKeeps
  <1>5. ASSUME Count' <= 1, "bootloader" \notin MayRefuse
        PROVE  FirstDevices' /\ FirstBootloader' /\ FirstSoftware'
    <2>1. FirstDevices /\ FirstBootloader /\ FirstSoftware
      BY <1>4, <1>5 DEF First, Count
    <2>2. c.kind # "bootloader"
      BY <1>4, <1>5
    <2>3. FirstDevices'
      BY <1>2, <1>4, <2>1 DEF FirstDevices, Started
    <2>4. FirstBootloader'
      BY <1>2, <1>4, <2>1, <2>2 DEF FirstBootloader, PendingOf
    <2>5. FirstSoftware'
      BY <1>2, <1>4, <2>1 DEF FirstSoftware, Collected, Resolvables
    <2> QED
      BY <2>3, <2>4, <2>5
  <1> QED
    BY <1>3, <1>4, <1>5 DEF First

\* The targets of the first configuration are there before its storage starts.
LEMMA ConfigureIscsiKeeps ==
    ASSUME IInv, NEW c, ConfigureIscsi(c)
    PROVE  IInv'
  <1> USE DEF IInv
  <1>1. /\ Take(c, "iscsi") /\ storage' = storage /\ boot' = boot
        /\ \/ iscsi' = iscsi
           \/ c.data # NoValue /\ iscsi' = ConnectTargets(c.data)
    BY DEF ConfigureIscsi
  <1>2. c \in dbus /\ c.kind = "iscsi" /\ c.data \in Sections /\ config' = config
    BY <1>1 DEF Take, TypeOK
  <1>3. /\ iscsi' \in IscsiType
        /\ storage' \in StorageType
        /\ Sound'
    <2>1. CASE iscsi' = iscsi
      BY <1>1, <1>2, <2>1, SoundStays DEF TypeOK
    <2>2. CASE iscsi' # iscsi
      <3>1. c.data \in IscsiSection /\ iscsi' = ConnectTargets(c.data)
        BY <1>1, <1>2, <2>2 DEF Sections
      <3>2. iscsi' \in IscsiType /\ iscsi'.connected \subseteq iscsi'.nodes
        BY <3>1, TargetsConnected
      <3>3. boot'.keys = Merged(boot.keys, boot.config)'
        BY <1>1, <1>2 DEF Sound, Merged, Given, Overridden
      <3> QED
        BY <1>1, <3>2, <3>3 DEF TypeOK, Sound
    <2> QED
      BY <2>1, <2>2
  <1>4. /\ TypeOK' /\ Submission' /\ Chained' /\ Brought' /\ Awaited'
        /\ dbus' = dbus \ {c} /\ AwaitedCall(c)
        /\ config' = config /\ outcome' = outcome /\ work' = work
        /\ full_config' = full_config /\ selection' = selection /\ applied' = applied
    BY <1>1, <1>3, TakeKeeps
  <1>5. ASSUME Count' <= 1, "bootloader" \notin MayRefuse
        PROVE  FirstDevices' /\ FirstBootloader' /\ FirstSoftware'
    <2>1. FirstDevices /\ FirstBootloader /\ FirstSoftware /\ Count' = Count
      BY <1>4, <1>5 DEF First, Count
    <2>2. 1 \in Numbers /\ c.task = <<1, c.task[2]>>
      BY <1>2, <1>5, <2>1, FirstCall
    <2>3. outcome[<<1, "iscsi">>] = "running"
      BY <1>2, <1>4, <2>2 DEF AwaitedCall
    <2>4. ~Started(<<1, "storage">>)
      BY <2>2, <2>3, Order
    <2>5. FirstDevices'
      BY <1>1, <1>4, <2>1, <2>4 DEF FirstDevices, Started
    <2>6. FirstBootloader'
      BY <1>1, <1>2, <1>4, <2>1 DEF FirstBootloader, PendingOf
    <2>7. FirstSoftware'
      BY <1>1, <1>4, <2>1 DEF FirstSoftware, Collected, Resolvables
    <2> QED
      BY <2>5, <2>6, <2>7
  <1> QED
    BY <1>3, <1>4, <1>5 DEF First

\* Probing again finds the devices that the proposal was for.
LEMMA ProbeKeeps ==
    ASSUME IInv, NEW c, Probe(c)
    PROVE  IInv'
  <1> USE DEF IInv
  <1>1. /\ Take(c, "probe") /\ iscsi' = iscsi /\ boot' = boot
        /\ storage' = [storage EXCEPT !.probed = iscsi.connected,
                                      !.solved = Solve(iscsi.connected)]
    BY DEF Probe
  <1>2. c \in dbus /\ c.kind = "probe" /\ config' = config
    BY <1>1 DEF Take
  <1>3. storage \in StorageType
        /\ iscsi \in IscsiType
    BY DEF TypeOK
  <1>4. /\ storage'.config = storage.config /\ storage'.probed = iscsi.connected
        /\ storage.config # Never => storage'.solved = iscsi.connected
        /\ storage' \in StorageType
        /\ Sound'
    <2>1. storage.solved \in Devices /\ iscsi.connected \in Devices
      BY <1>3 DEF Devices, StorageType, IscsiType
    <2>2. Solve(iscsi.connected) \in Devices
      BY <2>1 DEF Solve
    <2>3. storage.config # Never => Solve(iscsi.connected) = iscsi.connected
      BY DEF Solve
    <2> QED
      BY <1>1, <1>2, <1>3, <2>1, <2>2, <2>3, SoundStays DEF StorageType
  <1>5. /\ TypeOK' /\ Submission' /\ Chained' /\ Brought' /\ Awaited'
        /\ dbus' = dbus \ {c} /\ AwaitedCall(c) /\ Started(c.task)
        /\ config' = config /\ outcome' = outcome /\ work' = work
        /\ full_config' = full_config /\ selection' = selection /\ applied' = applied
    BY <1>1, <1>3, <1>4, TakeKeeps
  <1>6. ASSUME Count' <= 1, "bootloader" \notin MayRefuse
        PROVE  FirstDevices' /\ FirstBootloader' /\ FirstSoftware'
    <2>1. FirstDevices /\ FirstBootloader /\ FirstSoftware /\ Count' = Count
      BY <1>5, <1>6 DEF First, Count
    <2>2. c.task = <<1, c.task[2]>> /\ c.task[2] = "storage"
      BY <1>2, <1>5, <1>6, <2>1, FirstCall DEF AwaitedCall
    <2>3. Started(<<1, "storage">>)
      BY <1>5, <2>2
    <2>4. FirstDevices'
      BY <1>1, <1>4, <1>5, <2>3 DEF FirstDevices, Started
    <2>5. FirstBootloader'
      BY <1>1, <1>2, <1>5, <2>1 DEF FirstBootloader, PendingOf
    <2>6. FirstSoftware'
      <3>1. storage.config # Never => storage.solved = iscsi.connected
        BY <2>1 DEF FirstDevices
      <3>2. storage.config # Never => Resolvables("storage")' = Resolvables("storage")
        BY <1>4, <3>1 DEF Resolvables
      <3>3. \A p \in ProviderSet \ {"storage"} : Resolvables(p)' = Resolvables(p)
        BY <1>1, <1>5 DEF Resolvables, ProviderSet
      <3>4. \A p \in ProviderSet : Collected(p) => Collected(p)'
        BY <1>4, <1>5, <3>2, <3>3 DEF Collected
      <3> QED
        BY <1>5, <2>1, <3>4, FiveProviders DEF FirstSoftware
    <2> QED
      BY <2>4, <2>5, <2>6
  <1> QED
    BY <1>4, <1>5, <1>6 DEF First

\* The storage task waits for its answer, and the software task for the storage task.
LEMMA ConfigureStorageKeeps ==
    ASSUME IInv, NEW c, ConfigureStorage(c)
    PROVE  IInv'
  <1> USE DEF IInv
  <1>1. /\ Take(c, "storage") /\ iscsi' = iscsi /\ boot' = boot
        /\ \/ storage' = storage
           \/ \E probed \in {iscsi.connected, storage.probed} :
                 /\ storage.probed = Never => probed = iscsi.connected
                 /\ storage' = [config |-> c.data, probed |-> probed, solved |-> probed]
    BY DEF ConfigureStorage
  <1>2. c \in dbus /\ c.kind = "storage" /\ c.data \in StorageSections /\ config' = config
    BY <1>1 DEF Take, TypeOK
  <1>3. storage \in StorageType
        /\ iscsi \in IscsiType
    BY DEF TypeOK
  <1>4. storage' \in StorageType /\ Sound'
    <2>1. storage.probed \in Devices /\ iscsi.connected \in Devices
      BY <1>3 DEF Devices, StorageType, IscsiType
    <2>2. storage' \in StorageType
      BY <1>1, <1>2, <1>3, <2>1 DEF StorageType
    <2> QED
      BY <1>1, <1>2, <2>2, SoundStays
  <1>5. /\ TypeOK' /\ Submission' /\ Chained' /\ Brought' /\ Awaited'
        /\ dbus' = dbus \ {c} /\ AwaitedCall(c)
        /\ config' = config /\ outcome' = outcome /\ work' = work
        /\ full_config' = full_config /\ selection' = selection /\ applied' = applied
    BY <1>1, <1>3, <1>4, TakeKeeps
  <1>6. ASSUME Count' <= 1, "bootloader" \notin MayRefuse
        PROVE  FirstDevices' /\ FirstBootloader' /\ FirstSoftware'
    <2>1. FirstDevices /\ FirstBootloader /\ FirstSoftware /\ Count' = Count
      BY <1>5, <1>6 DEF First, Count
    <2>2. 1 \in Numbers /\ c.task = <<1, c.task[2]>>
      BY <1>2, <1>6, <2>1, FirstCall
    <2>3. outcome[<<1, "storage">>] = "running"
      BY <1>2, <1>5, <2>2 DEF AwaitedCall
    <2>4. ~Started(<<1, "software">>)
      BY <2>2, <2>3, Order
    <2>5. FirstDevices'
      <3>1. storage.probed \in {Never, iscsi.connected}
        BY <2>1 DEF FirstDevices
      <3>2. Started(<<1, "storage">>)'
        BY <1>5, <2>3 DEF Started
      <3>3. storage'.probed \in {Never, iscsi.connected}
        BY <1>1, <3>1
      <3>4. storage'.config # Never =>
               storage'.probed = iscsi.connected /\ storage'.solved = iscsi.connected
        BY <1>1, <2>1, <3>1 DEF FirstDevices
      <3> QED
        BY <1>1, <3>2, <3>3, <3>4 DEF FirstDevices
    <2>6. FirstBootloader'
      BY <1>1, <1>2, <1>5, <2>1 DEF FirstBootloader, PendingOf
    <2>7. FirstSoftware'
      BY <1>5, <2>4 DEF FirstSoftware, Started
    <2> QED
      BY <2>5, <2>6, <2>7
  <1> QED
    BY <1>4, <1>5, <1>6 DEF First

\* With the kernel argument, the bootloader keeps the first configuration, and its storage
\* its proposal.
LEMMA ConfigureBootloaderKeeps ==
    ASSUME IInv, NEW c, ConfigureBootloader(c)
    PROVE  IInv'
  <1> USE DEF IInv
  <1>1. /\ Take(c, "bootloader") /\ iscsi' = iscsi
        /\ boot' = [config |-> c.data.config, selinux |-> c.data.selinux,
                    keys |-> Merged(boot.keys, c.data.config)]
        /\ storage' = [storage EXCEPT !.solved = Solve(storage.probed)]
    BY DEF ConfigureBootloader
  <1>2. c \in dbus /\ c.kind = "bootloader" /\ config' = config
    BY <1>1 DEF Take
  <1>3. storage \in StorageType
        /\ iscsi \in IscsiType
    BY DEF TypeOK
  <1>4. /\ storage'.config = storage.config /\ storage'.probed = storage.probed
        /\ storage.config # Never => storage'.solved = storage.probed
        /\ storage' \in StorageType
        /\ Sound'
    <2>1. Solve(storage.probed) \in Devices
      BY <1>3 DEF Solve, StorageType
    <2>2. storage.config # Never => Solve(storage.probed) = storage.probed
      BY DEF Solve
    <2>3. boot'.config = c.data.config /\ boot'.keys = Merged(boot.keys, c.data.config)
      BY <1>1
    <2>4. boot'.keys = Merged(boot'.keys, boot'.config)
      BY <2>3, MergedTwice
    <2>5. Sound'
      <3>1. Merged(boot.keys, boot.config)' = Merged(boot'.keys, boot'.config)
        BY <1>2 DEF Merged, Given, Overridden
      <3> QED
        BY <1>1, <2>4, <3>1 DEF Sound
    <2> QED
      BY <1>1, <1>3, <2>1, <2>2, <2>5 DEF StorageType
  <1>5. /\ TypeOK' /\ Submission' /\ Chained' /\ Brought' /\ Awaited'
        /\ dbus' = dbus \ {c}
        /\ config' = config /\ outcome' = outcome /\ work' = work
        /\ full_config' = full_config /\ selection' = selection /\ applied' = applied
    BY <1>1, <1>3, <1>4, TakeKeeps
  <1>6. ASSUME Count' <= 1, "bootloader" \notin MayRefuse
        PROVE  FirstDevices' /\ FirstBootloader' /\ FirstSoftware'
    <2>1. FirstDevices /\ FirstBootloader /\ FirstSoftware /\ Count' = Count
      BY <1>5, <1>6 DEF First, Count
    <2>2. 1 \in Numbers
      BY <1>2, <1>6, <2>1, FirstCall
    <2>3. c.data.config = 1 /\ boot'.config = 1
      BY <1>1, <1>2, <2>1 DEF FirstBootloader
    <2>4. FirstDevices'
      BY <1>1, <1>4, <1>5, <2>1 DEF FirstDevices, Started
    <2>5. FirstBootloader'
      <3>1. \A d \in dbus' : d.kind = "bootloader" => d.data.config = 1
        BY <1>5, <2>1 DEF FirstBootloader
      <3> QED
        BY <1>5, <2>1, <2>3, <3>1 DEF FirstBootloader
    <2>6. FirstSoftware'
      <3>1. ASSUME Started(<<1, "software">>), NEW p \in ProviderSet, Collected(p)
            PROVE  Collected(p)'
        <4>1. outcome[<<1, "bootloader">>] = "ok"
          BY <2>2, <3>1, Order
        <4>2. boot.config = 1
          BY <2>1, <4>1 DEF FirstBootloader
        <4>3. storage.config # Never => storage.solved = storage.probed
          BY <2>1 DEF FirstDevices
        <4>4. boot'.keys = boot.keys
          BY <1>1, <2>3, <4>2 DEF Sound
        <4>5. (p = "storage" => storage.config # Never)
                 => Resolvables(p)' = Resolvables(p)
          BY <1>4, <1>5, <4>3, <4>4 DEF Resolvables, ProviderSet
        <4> QED
          BY <1>4, <1>5, <3>1, <4>5 DEF Collected
      <3>2. \A k \in DOMAIN Providers : Providers[k] \in ProviderSet
        BY FiveProviders
      <3> QED
        BY <1>5, <2>1, <3>1, <3>2 DEF FirstSoftware, Started
    <2> QED
      BY <2>4, <2>5, <2>6
  <1> QED
    BY <1>4, <1>5, <1>6 DEF First

LEMMA DBusServiceKeeps ==
    ASSUME IInv, DBusService
    PROVE  IInv'
  BY RefuseKeeps, ConfigureIscsiKeeps, ProbeKeeps, ConfigureStorageKeeps,
     ConfigureBootloaderKeeps DEF DBusService

-----------------------------------------------------------------------------
(* A request.                                                              *)

LEMMA SetConfigKeeps ==
    ASSUME IInv, NEW c \in Configs, SetConfig(c)
    PROVE  IInv'
  <1> USE DEF IInv
  <1> DEFINE n == Count + 1
             Added(id) == id[1] = n /\ id[2] \in TasksOf(c)
  <1>1. /\ Count < MaxConfigs
        /\ config' = [i \in 1 .. n |-> IF i = n THEN c ELSE config[i]]
        /\ outcome' = [id \in TaskIds |-> IF Added(id) THEN "pending" ELSE outcome[id]]
        /\ deps' = [id \in TaskIds |->
                     IF Added(id)
                     THEN {n} \X (DependenciesOf(id[2]) \intersect TasksOf(c))
                     ELSE deps[id]]
        /\ always' = always /\ work' = work /\ selinux_selected' = selinux_selected
        /\ applied' = applied /\ full_config' = full_config /\ selection' = selection
        /\ dbus' = dbus /\ iscsi' = iscsi /\ storage' = storage /\ boot' = boot
    BY DEF SetConfig, services, devices
  <1>2. overlapped' \in BOOLEAN
    BY DEF SetConfig, TypeOK
  <1>3. /\ Count \in 0 .. MaxConfigs /\ Count \in Nat /\ n \in 1 .. MaxConfigs
        /\ DOMAIN config = 1 .. Count /\ config \in [1 .. Count -> ConfigType]
        /\ n \in Numbers
    <2>1. Count \in 0 .. MaxConfigs /\ DOMAIN config = 1 .. Count
          /\ config \in [1 .. Count -> ConfigType]
      BY Counted
    <2>2. MaxConfigs \in Nat
      BY BoundsAssumption
    <2> QED
      BY <1>1, <2>1, <2>2 DEF Numbers
  <1>4. c \in ConfigType /\ TasksOf(c) \subseteq Tasks
    BY ConfigsAssumption, TasksOfConfig
  <1> HIDE DEF n
  <1>5. n = Count + 1
    BY DEF n
  <1>6. /\ DOMAIN config' = 1 .. n
        /\ config' \in [1 .. n -> ConfigType]
        /\ config'[n] = c
        /\ \A i \in 1 .. Count : i \in 1 .. n /\ i # n /\ config'[i] = config[i]
    BY <1>1, <1>3, <1>4, <1>5
  <1>7. Count' = n
    <2>1. n \in Nat
      BY <1>3, <1>5
    <2>2. Cardinality(1 .. n) = n
      BY <2>1, FS_Interval
    <2> QED
      BY <1>6, <2>2 DEF Count
  <1>8. \A id \in TaskIds : Added(id) => outcome[id] = "absent"
    <2> SUFFICES ASSUME NEW id \in TaskIds, Added(id), outcome[id] # "absent"
                 PROVE  FALSE
      OBVIOUS
    <2>1. id[1] \in 1 .. Count
      BY Submitted
    <2> QED
      BY <1>3, <1>5, <2>1
  <1>9. /\ outcome \in [TaskIds -> {"absent", "pending", "running", "ok", "failed",
                                    "cancelled"}]
        /\ deps \in [TaskIds -> SUBSET TaskIds]
    BY TypeOfGraph
  <1>10. \A id \in TaskIds : /\ outcome[id] # "absent" => ~Added(id)
                             /\ Added(id) => outcome'[id] = "pending"
                             /\ ~Added(id) => outcome'[id] = outcome[id] /\ deps'[id] = deps[id]
    BY <1>1, <1>8
  <1>11. \A ds \in SUBSET Tasks : {n} \X ds \in SUBSET TaskIds
    BY <1>3 DEF TaskIds
  <1>12. /\ outcome' \in [TaskIds -> {"absent", "pending", "running", "ok", "failed",
                                      "cancelled"}]
         /\ deps' \in [TaskIds -> SUBSET TaskIds]
    <2>1. \A id \in TaskIds : deps'[id] \in SUBSET TaskIds
      <3> SUFFICES ASSUME NEW id \in TaskIds
                   PROVE  deps'[id] \in SUBSET TaskIds
        OBVIOUS
      <3>1. DependenciesOf(id[2]) \intersect TasksOf(c) \in SUBSET Tasks
        BY <1>4
      <3>2. {n} \X (DependenciesOf(id[2]) \intersect TasksOf(c)) \in SUBSET TaskIds
        BY <1>11, <3>1
      <3> QED
        BY <1>1, <1>9, <3>2
    <2> QED
      BY <1>1, <1>9, <2>1
  <1>13. TypeOK'
    <2>1. GraphTypeOK'
      BY <1>1, <1>12, TypeOfGraph DEF GraphTypeOK, Graph!TypeOK, Graph!Outcome,
                                      Graph!Resolved, Graph!Failed
    <2>2. \E m \in 0 .. MaxConfigs : config' \in [1 .. m -> ConfigType]
      BY <1>3, <1>6
    <2> QED
      BY <1>1, <1>2, <2>1, <2>2 DEF TypeOK, GraphTypeOK
  <1>14. Submission'
    <2> SUFFICES ASSUME NEW id \in TaskIds
                 PROVE  /\ ~always[id]
                        /\ outcome'[id] # "absent" <=>
                              id[1] \in 1 .. n /\ id[2] \in TasksOf(config'[id[1]])
                        /\ outcome'[id] # "absent" =>
                              deps'[id] = {id[1]} \X (DependenciesOf(id[2])
                                                        \intersect TasksOf(config'[id[1]]))
      BY <1>1, <1>6 DEF Submission, TasksOf
    <2>1. /\ ~always[id]
          /\ outcome[id] # "absent" <=>
                (id[1] \in 1 .. Count /\ id[2] \in TasksOf(config[id[1]]))
          /\ outcome[id] # "absent" =>
                deps[id] = {id[1]} \X (DependenciesOf(id[2]) \intersect TasksOf(config[id[1]]))
      BY <1>3 DEF Submission
    <2>2. CASE id[1] = n
      <3>1. config'[id[1]] = c /\ id[1] \in 1 .. n
        BY <1>3, <1>6, <2>2
      <3>2. outcome[id] = "absent"
        BY <1>3, <1>5, <2>1, <2>2
      <3>3. Added(id) => deps'[id] = {n} \X (DependenciesOf(id[2]) \intersect TasksOf(c))
        BY <1>1
      <3> QED
        BY <1>10, <2>1, <2>2, <3>1, <3>2, <3>3
    <2>3. CASE id[1] # n
      <3>1. ~Added(id)
        BY <2>3
      <3>2. id[1] \in 1 .. n <=> id[1] \in 1 .. Count
        BY <1>3, <1>5, <2>3
      <3>3. id[1] \in 1 .. Count => config'[id[1]] = config[id[1]]
        BY <1>6
      <3> QED
        BY <1>10, <2>1, <3>1, <3>2, <3>3
    <2> QED
      BY <2>2, <2>3
  <1>15. Chained'
    <2> SUFFICES ASSUME NEW id \in TaskIds
                 PROVE  /\ Started(id)' => \A d \in deps'[id] : outcome'[d] = "ok"
                        /\ outcome'[id] = "cancelled" =>
                              \E d \in deps'[id] : outcome'[d] \in {"failed", "cancelled"}
                        /\ outcome'[id] = "failed" => id[2] \in MayFail
                        /\ outcome'[id] \in {"absent", "pending", "cancelled"} => work[id] = 0
      BY <1>1 DEF Chained
    <2>1. CASE Added(id)
      BY <1>8, <1>10, <2>1 DEF Chained, Started
    <2>2. CASE ~Added(id)
      <3>1. outcome'[id] = outcome[id] /\ deps'[id] = deps[id]
        BY <1>10, <2>2
      <3>2. \A d \in deps[id] : /\ d \in TaskIds
                                /\ outcome[d] # "absent" => outcome'[d] = outcome[d]
        BY <1>9, <1>10
      <3> QED
        BY <3>1, <3>2 DEF Chained, Started
    <2> QED
      BY <2>1, <2>2
  <1>16. Brought'
    <2>1. \A x \in TaskIds : Started(x) => StartedNext(x)
      BY <1>10 DEF Started, StartedNext
    <2> QED
      BY <1>1, <2>1, BroughtStays
  <1>17. Awaited'
    <2> SUFFICES ASSUME NEW d \in dbus
                 PROVE  AwaitedCall(d)'
      BY <1>1 DEF Awaited
    <2>1. AwaitedCall(d) /\ Started(d.task) /\ d.task \in TaskIds
      BY DEF Awaited, Brought, TypeOK
    <2>2. outcome'[d.task] = outcome[d.task]
      BY <1>10, <2>1 DEF Started
    <2> QED
      BY <1>1, <2>1, <2>2 DEF AwaitedCall
  <1>18. ASSUME Count' <= 1, "bootloader" \notin MayRefuse
         PROVE  FirstDevices' /\ FirstBootloader' /\ FirstSoftware'
    <2>1. Count = 0
      BY <1>3, <1>5, <1>7, <1>18
    <2>2. FirstDevices
      BY <1>18, <2>1 DEF First
    <2>3. \A id \in TaskIds : outcome[id] = "absent"
      <3> SUFFICES ASSUME NEW id \in TaskIds, outcome[id] # "absent"
                   PROVE  FALSE
        OBVIOUS
      <3>1. id[1] \in 1 .. 0
        BY <2>1, Submitted
      <3> QED
        BY <3>1
    <2>4. dbus = {}
      BY <2>3 DEF Brought, Started, TypeOK
    <2>5. 1 \in Numbers
      BY BoundsAssumption, NumbersRange
    <2>6. /\ <<1, "storage">> \in TaskIds /\ <<1, "bootloader">> \in TaskIds
          /\ <<1, "software">> \in TaskIds
      BY <2>5, Present
    <2>7. \A id \in TaskIds : outcome'[id] \in {"absent", "pending"}
      BY <1>10, <2>3
    <2>8. FirstDevices'
      BY <1>1, <2>2, <2>3, <2>6 DEF FirstDevices, Started
    <2>9. FirstBootloader'
      BY <1>1, <2>4, <2>6, <2>7 DEF FirstBootloader
    <2>10. FirstSoftware'
      BY <2>6, <2>7 DEF FirstSoftware
    <2> QED
      BY <2>8, <2>9, <2>10
  <1>19. Sound'
    <2>1. boot.config \in 0 .. MaxConfigs
      BY DEF TypeOK, BootType
    <2>2. boot.config \in 1 .. Count \/ boot.config = 0
      <3> SUFFICES ASSUME boot.config # 0
                   PROVE  boot.config \in 1 .. Count
        OBVIOUS
      <3>1. boot.config \in Numbers
        BY <2>1, BoundsAssumption, NumbersRange
      <3>2. <<boot.config, "bootloader">> \in TaskIds
        BY <3>1, Present
      <3>3. outcome[<<boot.config, "bootloader">>] # "absent"
        BY DEF Brought, Started
      <3>4. <<boot.config, "bootloader">>[1] \in 1 .. Count
        BY <3>2, <3>3, Submitted
      <3> QED
        BY <3>4
    <2>3. Given(boot.config)' = Given(boot.config)
      <3>1. CASE boot.config \in 1 .. Count
        BY <1>1, <1>3, <1>6, <3>1 DEF Given
      <3>2. CASE boot.config = 0
        <4>1. 0 \notin 1 .. Count /\ 0 \notin 1 .. n
          BY <1>3
        <4> QED
          BY <1>1, <1>3, <1>6, <3>2, <4>1 DEF Given
      <3> QED
        BY <2>2, <3>1, <3>2
    <2>4. Merged(boot.keys, boot.config)' = Merged(boot.keys, boot.config)
      BY <1>1, <2>3 DEF Merged, Overridden
    <2> QED
      BY <1>1, <2>4 DEF Sound
  <1> QED
    BY <1>13, <1>14, <1>15, <1>16, <1>17, <1>18, <1>19 DEF First

-----------------------------------------------------------------------------
(* The theorems.                                                           *)

LEMMA InitIInv ==
    ASSUME Init
    PROVE  IInv
  <1>1. /\ config = <<>> /\ dbus = {} /\ work = [id \in TaskIds |-> 0]
        /\ outcome = [id \in TaskIds |-> "absent"]
        /\ deps = [id \in TaskIds |-> {}]
        /\ always = [id \in TaskIds |-> FALSE]
        /\ iscsi = [initiator |-> NoValue, nodes |-> Discovered, connected |-> {}]
        /\ full_config = [config |-> 0, selinux |-> 0]
        /\ boot = [config |-> 0, selinux |-> 0, keys |-> [k \in BootKeys |-> 0]]
        /\ storage = [config |-> Never, probed |-> Never, solved |-> Never]
        /\ applied = [t \in AllTasks |-> 0]
        /\ selection = [p \in ProviderSet |-> <<>>]
        /\ selinux_selected = [n \in Numbers |-> 0]
        /\ overlapped = FALSE
    BY DEF Init, Graph!Init
  <1>2. MaxConfigs \in Nat /\ 0 \in 0 .. MaxConfigs
    BY BoundsAssumption
  <1>3. DOMAIN config = {} /\ config \in [1 .. 0 -> ConfigType]
    BY <1>1
  <1>4. GraphTypeOK
    BY <1>1 DEF GraphTypeOK, Graph!TypeOK, Graph!Outcome
  <1>5. TypeOK
    <2>1. full_config \in FullConfig /\ boot \in BootType
      BY <1>1, <1>2 DEF FullConfig, BootType
    <2>2. iscsi \in IscsiType
      BY <1>1, TargetsAssumption DEF IscsiType
    <2>3. storage \in StorageType
      BY <1>1 DEF Devices, StorageType
    <2>4. /\ applied \in [AllTasks -> 0 .. MaxConfigs]
          /\ selinux_selected \in [Numbers -> 0 .. MaxConfigs]
          /\ DOMAIN selection = ProviderSet
      BY <1>1, <1>2
    <2>5. overlapped \in BOOLEAN
      BY <1>1
    <2>6. \E n \in 0 .. MaxConfigs : config \in [1 .. n -> ConfigType]
      BY <1>2, <1>3
    <2>7. \A c \in dbus : FALSE
      BY <1>1
    <2> QED
      BY <1>4, <2>1, <2>2, <2>3, <2>4, <2>5, <2>6, <2>7 DEF TypeOK, GraphTypeOK
  <1>6. Submission
    BY <1>1, <1>3 DEF Submission
  <1>7. Chained
    BY <1>1 DEF Chained, Started
  <1>8. Brought
    BY <1>1 DEF Brought
  <1>9. Awaited
    BY <1>1 DEF Awaited
  <1>10. First
    <2>1. 1 \in Numbers
      BY BoundsAssumption, NumbersRange
    <2>2. /\ <<1, "storage">> \in TaskIds /\ <<1, "bootloader">> \in TaskIds
          /\ <<1, "software">> \in TaskIds
      BY <2>1, Present
    <2>3. FirstDevices
      BY <1>1 DEF FirstDevices
    <2>4. FirstBootloader
      BY <1>1, <2>2 DEF FirstBootloader
    <2>5. FirstSoftware
      BY <1>1, <2>2 DEF FirstSoftware
    <2> QED
      BY <2>3, <2>4, <2>5 DEF First
  <1>11. Sound
    <2>1. Given(0) = {}
      BY <1>1, <1>3 DEF Given
    <2>2. boot.config = 0 /\ boot.keys = [k \in BootKeys |-> 0]
      BY <1>1
    <2>3. Merged(boot.keys, 0) = boot.keys
      BY <2>1, <2>2 DEF Merged, Overridden
    <2> QED
      BY <1>1, <2>2, <2>3 DEF Sound
  <1> QED
    BY <1>5, <1>6, <1>7, <1>8, <1>9, <1>10, <1>11 DEF IInv

LEMMA StepKeepsIInv ==
    ASSUME IInv, [Next]_vars
    PROVE  IInv'
  <1>1. ASSUME NEW c \in Configs, SetConfig(c)
        PROVE  IInv'
    BY <1>1, SetConfigKeeps
  <1>2. ASSUME NEW id \in TaskIds, TaskStep(id)
        PROVE  IInv'
    BY <1>2, StartKeeps, OneCallKeeps, IscsiCallKeeps, StorageProbeKeeps,
       StorageSetConfigKeeps, BootloaderSetConfigKeeps, AwaitAnswerKeeps,
       SetResolvablesForKeeps, SoftwareSetConfigKeeps, IsPatternSelectedKeeps,
       SetKernelArgKeeps DEF TaskStep
  <1>3. ASSUME DBusService
        PROVE  IInv'
    BY <1>3, DBusServiceKeeps
  <1>4. ASSUME UNCHANGED vars
        PROVE  IInv'
    <2> USE DEF IInv
    <2>1. /\ UNCHANGED <<config, graph, work>>
          /\ config' = config /\ outcome' = outcome /\ work' = work
          /\ selinux_selected' = selinux_selected
          /\ applied' = applied /\ full_config' = full_config /\ selection' = selection
          /\ dbus' = dbus /\ iscsi' = iscsi /\ storage' = storage /\ boot' = boot
          /\ overlapped' = overlapped
      BY <1>4 DEF vars, graph, services, devices
    <2>2. GraphTypeOK' /\ Submission' /\ Chained'
      BY <2>1, SameGraph
    <2>3. TypeOK'
      <3>1. \E n \in 0 .. MaxConfigs : config' \in [1 .. n -> ConfigType]
        BY <2>1 DEF TypeOK
      <3> QED
        BY <2>1, <2>2, <3>1 DEF TypeOK, GraphTypeOK
    <2>4. Brought'
      BY <2>1 DEF Brought, Started
    <2>5. Awaited'
      BY <2>1 DEF Awaited, AwaitedCall
    <2>6. First'
      <3>1. FirstDevices => FirstDevices'
        BY <2>1 DEF FirstDevices, Started
      <3>2. FirstBootloader => FirstBootloader'
        BY <2>1 DEF FirstBootloader, PendingOf
      <3>3. FirstSoftware => FirstSoftware'
        BY <2>1 DEF FirstSoftware, Collected, Resolvables
      <3> QED
        BY <2>1, <3>1, <3>2, <3>3 DEF First, Count
    <2>7. Sound'
      BY <2>1, SoundStays
    <2> QED
      BY <2>2, <2>3, <2>4, <2>5, <2>6, <2>7
  <1> QED
    BY <1>1, <1>2, <1>3, <1>4 DEF Next

LEMMA IInvAlways ==
    Spec => []IInv
  <1>1. Init => IInv
    BY InitIInv
  <1>2. IInv /\ [Next]_vars => IInv'
    BY StepKeepsIInv
  <1> QED
    BY <1>1, <1>2, PTL DEF Spec

\* Every variable keeps its type: a task is known with its configuration, and no call
\* goes to the D-Bus service without a section.
THEOREM ConfigTasksTypeCorrect ==
    Spec => []TypeOK
  <1>1. IInv => TypeOK
    BY DEF IInv
  <1> QED
    BY <1>1, IInvAlways, PTL

LEMMA FailureContainedFollows ==
    ASSUME IInv
    PROVE  FailureContained
  <1> USE DEF IInv
  <1> SUFFICES ASSUME NEW n \in DOMAIN config,
                      \A id \in {n} \X Tasks : ~Unfinished(id)
               PROVE  /\ outcome[<<n, "pre_scripts">>] = "ok" =>
                            \A t \in Tasks \intersect Optional : outcome[<<n, t>>] = "ok"
                      /\ outcome[<<n, "network">>] = "failed" =>
                            /\ \A c \in dbus : c.task[1] # n
                            /\ boot.config # n /\ applied["software"] # n
    BY DEF FailureContained, Outcome
  <1>1. n \in 1 .. Count /\ Count \in 0 .. MaxConfigs
    BY Counted
  <1>2. n \in Numbers /\ n # 0
    BY <1>1, BoundsAssumption, NumbersRange
  <1>3. ASSUME outcome[<<n, "pre_scripts">>] = "ok", NEW t \in Tasks \intersect Optional
        PROVE  outcome[<<n, t>>] = "ok"
    <2>1. <<n, t>> \in TaskIds /\ <<n, t>> \in {n} \X Tasks
      BY <1>2 DEF TaskIds
    <2>2. t \in TasksOf(config[n])
      BY TasksOfConfig
    <2>3. /\ outcome[<<n, t>>] # "absent"
          /\ deps[<<n, t>>] = {n} \X (DependenciesOf(t) \intersect TasksOf(config[n]))
      BY <2>1, <2>2 DEF Submission
    <2>4. \A d \in deps[<<n, t>>] : outcome[d] = "ok"
      BY <1>3, <2>3, DependenciesAre
    <2>5. outcome[<<n, t>>] # "cancelled"
      BY <2>1, <2>4 DEF Chained
    <2>6. outcome[<<n, t>>] # "failed"
      BY <2>1, MayFailAssumption DEF Chained, Optional
    <2>7. outcome[<<n, t>>] \notin {"pending", "running"}
      BY <2>1 DEF Unfinished
    <2> QED
      BY <2>1, <2>3, <2>5, <2>6, <2>7, TypeOfGraph
  <1>4. ASSUME outcome[<<n, "network">>] = "failed"
        PROVE  /\ \A c \in dbus : c.task[1] # n
               /\ boot.config # n /\ applied["software"] # n
    <2>1. ~Started(<<n, "iscsi">>)
      BY <1>2, <1>4, Order
    <2>2. ~Started(<<n, "storage">>)
      BY <1>2, <2>1, Order DEF Started
    <2>3. ~Started(<<n, "bootloader">>)
      BY <1>2, <2>2, Order DEF Started
    <2>4. ~Started(<<n, "software">>)
      BY <1>2, <2>3, Order DEF Started
    <2>5. ~Started(<<n, "selinux">>)
      BY <1>2, <2>4, Order DEF Started
    <2>6. ASSUME NEW c \in dbus, c.task[1] = n
          PROVE  FALSE
      <3>1. /\ Started(c.task) /\ AwaitedCall(c) /\ c.task \in TaskIds
            /\ c.kind \in {"iscsi", "probe", "storage", "bootloader"}
        BY DEF Brought, Awaited, TypeOK
      <3>2. c.task = <<n, c.task[2]>>
        BY <2>6, <3>1, Ids
      <3>3. c.task[2] \in {"iscsi", "storage", "bootloader", "selinux"}
        BY <3>1 DEF AwaitedCall
      <3> QED
        BY <2>1, <2>2, <2>3, <2>5, <3>1, <3>2, <3>3
    <2>7. boot.config # n
      BY <1>2, <2>3 DEF Brought
    <2>8. applied["software"] # n
      BY <1>2, <2>4 DEF Brought, AllTasks
    <2> QED
      BY <2>6, <2>7, <2>8
  <1> QED
    BY <1>3, <1>4

\* Whatever fails, what only waits for the scripts is done and what follows the network
\* is not tried: a failure goes along the dependencies (actions.rs 343-515) and no
\* further, for any number of configurations at once.
THEOREM FailureContainedAlways ==
    Spec => []FailureContained
  <1>1. IInv => FailureContained
    BY FailureContainedFollows
  <1> QED
    BY <1>1, IInvAlways, PTL

\* If the D-Bus service does not refuse what it is asked for the bootloader, the software
\* is selected with what every service needs for the first configuration (actions.rs
\* 499-512), however late the calls come that nobody waits for: probing and the kernel
\* argument.
THEOREM SoftwareSeesServicesAlways ==
    ASSUME "bootloader" \notin MayRefuse
    PROVE  Spec => []SoftwareSeesServices
  <1>1. IInv => SoftwareSeesServices
    <2> SUFFICES ASSUME IInv, Count = 1, outcome[<<1, "software">>] = "ok",
                        NEW p \in ProviderSet \ {"access"}, p = "storage" => storage.config # Never
                 PROVE  selection[p] = Resolvables(p)
      BY DEF SoftwareSeesServices, Last, Outcome
    <2>1. FirstSoftware
      BY DEF IInv, First
    <2>2. PICK k \in DOMAIN Providers : Providers[k] = p
      BY FiveProviders
    <2> QED
      BY <2>1, <2>2 DEF FirstSoftware, Collected
  <1> QED
    BY <1>1, IInvAlways, PTL
-----------------------------------------------------------------------------
(* What the last configuration leaves, if no call fails and none is refused. *)

NoneFails == \A id \in TaskIds : outcome[id] \notin {"failed", "cancelled"}

\* A task that ended has made all of its calls.
CallsMade ==
    \A n \in Numbers :
        /\ \A t \in {"iscsi", "bootloader", "selinux"} :
              outcome[<<n, t>>] = "ok" => work[<<n, t>>] = 1
        /\ outcome[<<n, "storage">>] = "ok" => work[<<n, "storage">>] = 2

\* A call carries the section of the configuration of its task.
Carried ==
    \A c \in dbus :
        /\ c.kind = "iscsi" => c.data = config[c.task[1]].iscsi
        /\ c.kind = "storage" => c.data = config[c.task[1]].storage

\* If clients wait, only the last configuration has something to do.
Alone ==
    /\ overlapped => Count >= 2
    /\ ~overlapped =>
          /\ \A id \in TaskIds : id[1] # Count => ~Unfinished(id)
          /\ \A c \in dbus : c.task[1] = Count

\* The tasks whose calls end with a service that has the configuration.
Served == {"files", "pre_scripts", "network", "software"} \union (Tasks \intersect Optional)

ServicesOf(n) == \A t \in Served : outcome[<<n, t>>] = "ok" => applied[t] = n

LayoutOf(n) ==
    work[<<n, "storage">>] = 2 =>
        \/ PendingOf(<<n, "storage">>, "storage")
        \/ storage.config = config[n].storage

\* The call for the iSCSI targets was taken by the D-Bus service.
TargetsDone(n) == work[<<n, "iscsi">>] # 0 /\ ~PendingOf(<<n, "iscsi">>, "iscsi")
\* What is discovered of the section is connected and nothing else, and so it stays if the
\* same section comes again.
Settled(n) ==
    /\ iscsi.connected = config[n].iscsi.targets \intersect iscsi.nodes
    /\ config[n].iscsi.initiator \in {NoValue, iscsi.initiator}
    /\ \/ Configured(config[n].iscsi)
       \/ config[n].iscsi.targets \ Unreachable \subseteq iscsi.nodes
TargetsOf(n) == TargetsDone(n) /\ config[n].iscsi # NoValue => Settled(n)

\* The bootloader has the configuration, and in the end its kernel argument.
BootloaderOf(n) ==
    /\ work[<<n, "bootloader">>] # 0 =>
          /\ full_config.config = n
          /\ PendingOf(<<n, "bootloader">>, "bootloader") \/ boot.config = n
    /\ work[<<n, "selinux">>] # 0 => selinux_selected[n] = n
    /\ \A c \in dbus : c.kind = "bootloader" =>
          /\ c.data.config = n
          /\ c.task[2] = "selinux" => c.data.selinux = n
    /\ outcome[<<n, "selinux">>] = "ok" =>
          \/ PendingOf(<<n, "selinux">>, "bootloader")
          \/ boot.config = n /\ boot.selinux = n

LastHas ==
    \A n \in Numbers :
        n = Count /\ ~overlapped =>
            ServicesOf(n) /\ LayoutOf(n) /\ TargetsOf(n) /\ BootloaderOf(n)

\* A configuration that probes has not probed yet.
ToProbe(n) ==
    /\ ForceStorageProbe(n)
    /\ work[<<n, "storage">>] = 0 \/ PendingOf(<<n, "storage">>, "probe")

Unprobed == storage.config = Never /\ storage.probed = Never

\* Clients wait, or there are two configurations that may overlap.
AtMostTwo == overlapped => Count <= 2

\* The proposal is about the devices that were probed, which are those there are unless
\* a configuration is still going to probe.  One that does not find a change in the
\* targets brings none, since those of the one before are there.
Probing ==
    /\ storage.config # Never => storage.solved = storage.probed
    /\ \A n \in Numbers :
          work[<<n, "storage">>] = 2 =>
              PendingOf(<<n, "storage">>, "storage") \/ storage.config # Never
    /\ AtMostTwo =>
          /\ \/ storage.probed = iscsi.connected
             \/ Unprobed
             \/ \E n \in 1 .. Count : ToProbe(n)
          /\ \A n \in Numbers :
                (/\ n + 1 = Count
                 /\ config[n + 1].iscsi = config[n].iscsi
                 /\ TargetsDone(n) /\ config[n].iscsi # NoValue)
                    => Settled(n)

FollowInv ==
    NoneFails /\ CallsMade /\ Carried /\ Alone /\ LastHas /\ Probing

\* The D-Bus service has taken a section: what it does if it comes again.
LEMMA SettledAgain ==
    ASSUME IInv, NEW n, config' = config, config[n].iscsi \in IscsiSection,
           IF Configured(config[n].iscsi) THEN iscsi' = iscsi
           ELSE iscsi' = ConnectTargets(config[n].iscsi)
    PROVE  /\ Settled(n)'
           /\ Settled(n) => iscsi'.connected = iscsi.connected
  <1> DEFINE section == config[n].iscsi
  <1>1. CASE Configured(section)
    <2>1. iscsi' = iscsi
      BY <1>1
    <2>2. iscsi.connected \subseteq iscsi.nodes
      BY DEF IInv, Sound
    <2>3. \A t \in iscsi.nodes : t \in section.targets <=> t \in iscsi.connected
      BY <1>1 DEF Configured
    <2>4. iscsi.connected = section.targets \intersect iscsi.nodes
      BY <2>2, <2>3
    <2>5. section.initiator \in {NoValue, iscsi.initiator}
      BY <1>1 DEF Configured
    <2>6. Configured(config[n].iscsi)'
      BY <1>1, <2>1 DEF Configured
    <2> QED
      BY <2>1, <2>4, <2>5, <2>6 DEF Settled
  <1>2. CASE ~Configured(section)
    <2>1. iscsi' = ConnectTargets(section)
      BY <1>2
    <2>2. /\ section.targets \ Unreachable \subseteq iscsi'.nodes
          /\ iscsi'.connected = section.targets \intersect iscsi'.nodes
          /\ section.initiator \in {NoValue, iscsi'.initiator}
      BY <2>1, TargetsConnected DEF IInv
    <2>3. ASSUME Settled(n)
          PROVE  iscsi'.connected = iscsi.connected
      <3>1. section.targets \ Unreachable \subseteq iscsi.nodes
        BY <1>2, <2>3 DEF Settled
      <3>2. iscsi'.nodes = iscsi.nodes
        BY <2>1, <3>1 DEF ConnectTargets
      <3> QED
        BY <2>2, <2>3, <3>2 DEF Settled
    <2> QED
      BY <2>2, <2>3 DEF Settled
  <1> QED
    BY <1>1, <1>2

LEMMA SettledStays ==
    ASSUME config' = config, iscsi' = iscsi
    PROVE  \A n : Settled(n)' <=> Settled(n)
  BY DEF Settled, Configured

LEMMA ServedTasks ==
    /\ Served \subseteq Tasks /\ Served \subseteq AllTasks
    /\ \A t \in {"iscsi", "storage", "bootloader", "selinux"} : t \notin Served
  BY TasksAssumption DEF Served, AllTasks, Optional

LEMMA UpToCount ==
    ASSUME TypeOK
    PROVE  /\ Count \in Nat
           /\ \A n \in 1 .. Count : n \in Numbers
           /\ \A n \in Numbers : n \in Nat /\ (n <= Count => n \in 1 .. Count)
  <1>1. Count \in 0 .. MaxConfigs
    BY Counted
  <1> QED
    BY <1>1, BoundsAssumption, NumbersRange

\* If clients wait, what is under way is of the last configuration.
LEMMA UnderWay ==
    ASSUME IInv, FollowInv, NEW id \in TaskIds, Unfinished(id)
    PROVE  \A n \in Numbers : n = Count /\ ~overlapped => id[1] = n
  BY DEF FollowInv, Alone

\* A task goes on without a call that matters to the others.
LEMMA MoveFollows ==
    ASSUME IInv, FollowInv, MayFail = {}, NEW id, Moves(id),
           UNCHANGED <<full_config, dbus, devices, overlapped, selinux_selected>>,
           applied' \in {applied, [applied EXCEPT ![id[2]] = id[1]]},
           outcome[id] = "running" =>
               /\ id[2] \in Served => applied'[id[2]] = id[1]
               /\ id[2] \in {"iscsi", "bootloader"} => work[id] = 1
               /\ id[2] = "storage" => work[id] = 2
               /\ id[2] # "selinux"
    PROVE  FollowInv'
  <1> USE DEF IInv, FollowInv
  <1>1. /\ id \in TaskIds /\ config' = config /\ work' = work
        /\ full_config' = full_config /\ dbus' = dbus /\ overlapped' = overlapped
        /\ iscsi' = iscsi /\ storage' = storage /\ boot' = boot
        /\ selinux_selected' = selinux_selected
    BY DEF Moves, devices
  <1>2. /\ \A x \in TaskIds \ {id} : outcome'[x] = outcome[x]
        /\ outcome[id] \in {"pending", "running"}
        /\ outcome[id] = "pending" => outcome'[id] \in {"running", "cancelled"}
        /\ outcome[id] = "running" => outcome'[id] \in {"ok", "failed"}
        /\ Chained'
    BY MovesKeeps
  <1>3. deps \in [TaskIds -> SUBSET TaskIds]
    BY TypeOfGraph
  <1>4. /\ outcome[id] = "pending" => outcome'[id] = "running"
        /\ outcome[id] = "running" => outcome'[id] = "ok"
    <2>1. outcome'[id] # "failed"
      BY <1>1, <1>2 DEF Chained
    <2>2. \A d \in deps[id] : outcome[d] \notin {"failed", "cancelled"}
      BY <1>1, <1>3 DEF NoneFails
    <2>3. ~Graph!Cancel(id)
      BY <2>2 DEF Graph!Cancel, Graph!FailedDeps, Graph!Failed
    <2>4. outcome[id] = "pending" => outcome' = [outcome EXCEPT ![id] = "running"]
      BY <2>3 DEF Moves, Graph!Start
    <2>5. outcome \in [TaskIds -> {"absent", "pending", "running", "ok", "failed", "cancelled"}]
      BY TypeOfGraph
    <2> QED
      BY <1>1, <1>2, <2>1, <2>4, <2>5
  <1>5. NoneFails'
    BY <1>2, <1>4 DEF NoneFails
  <1>6. \A n \in Numbers : /\ <<n, "iscsi">> \in TaskIds /\ <<n, "storage">> \in TaskIds
                           /\ <<n, "bootloader">> \in TaskIds /\ <<n, "selinux">> \in TaskIds
    BY Present
  <1>7. CallsMade'
    <2> SUFFICES ASSUME NEW n \in Numbers
                 PROVE  /\ \A t \in {"iscsi", "bootloader", "selinux"} :
                              outcome'[<<n, t>>] = "ok" => work[<<n, t>>] = 1
                        /\ outcome'[<<n, "storage">>] = "ok" => work[<<n, "storage">>] = 2
      BY <1>1 DEF CallsMade
    <2>1. ASSUME NEW t \in {"iscsi", "storage", "bootloader", "selinux"},
                 outcome'[<<n, t>>] = "ok", outcome[<<n, t>>] # "ok"
          PROVE  outcome[id] = "running" /\ id = <<n, t>> /\ id[2] = t
      <3>1. <<n, t>> \in TaskIds
        BY <1>6
      <3>2. <<n, t>> = id
        BY <1>2, <2>1, <3>1
      <3> QED
        BY <1>2, <1>4, <2>1, <3>2
    <2> QED
      BY <2>1 DEF CallsMade
  <1>8. Carried'
    BY <1>1 DEF Carried
  <1>9. Count' = Count
    BY <1>1 DEF Count
  <1>10. Alone'
    <2>1. \A x \in TaskIds : Unfinished(x)' => Unfinished(x)
      BY <1>2 DEF Unfinished
    <2> QED
      BY <1>1, <1>9, <2>1 DEF Alone
  <1>11. ASSUME NEW n \in Numbers, n = Count, ~overlapped
         PROVE  ServicesOf(n)' /\ LayoutOf(n)' /\ TargetsOf(n)' /\ BootloaderOf(n)'
    <2>1. ServicesOf(n) /\ LayoutOf(n) /\ TargetsOf(n) /\ BootloaderOf(n)
      BY <1>11 DEF LastHas
    <2>2. id[1] = n /\ id = <<n, id[2]>>
      <3>1. Unfinished(id)
        BY <1>2 DEF Unfinished
      <3> QED
        BY <1>1, <1>11, <3>1, UnderWay, Ids
    <2>3. ServicesOf(n)'
      <3> SUFFICES ASSUME NEW t \in Served, outcome'[<<n, t>>] = "ok"
                   PROVE  applied'[t] = n
        BY DEF ServicesOf
      <3>1. t \in AllTasks /\ <<n, t>> \in TaskIds /\ applied \in [AllTasks -> 0 .. MaxConfigs]
        BY ServedTasks DEF TaskIds, TypeOK
      <3>2. CASE t = id[2]
        <4>1. id = <<n, t>>
          BY <2>2, <3>2
        <4>2. outcome[id] = "ok" \/ outcome[id] = "running"
          BY <1>2, <1>4, <4>1
        <4> QED
          BY <1>2, <2>2, <3>2, <4>2
      <3>3. CASE t # id[2]
        <4>1. id # <<n, t>>
          BY <2>2, <3>3
        <4>2. outcome[<<n, t>>] = "ok" /\ applied'[t] = applied[t]
          BY <1>2, <3>1, <3>3, <4>1
        <4> QED
          BY <2>1, <4>2 DEF ServicesOf
      <3> QED
        BY <3>2, <3>3
    <2>4. LayoutOf(n)' /\ TargetsOf(n)'
      BY <1>1, <2>1, SettledStays DEF LayoutOf, TargetsOf, TargetsDone, PendingOf
    <2>5. outcome'[<<n, "selinux">>] = "ok" => outcome[<<n, "selinux">>] = "ok"
      <3>1. CASE id = <<n, "selinux">>
        <4>1. id[2] = "selinux"
          BY <3>1
        <4> QED
          BY <1>2, <1>4, <3>1, <4>1
      <3>2. CASE id # <<n, "selinux">>
        BY <1>2, <1>6, <3>2
      <3> QED
        BY <3>1, <3>2
    <2>6. BootloaderOf(n)'
      BY <1>1, <2>1, <2>5 DEF BootloaderOf, PendingOf
    <2> QED
      BY <2>3, <2>4, <2>6
  <1>12. LastHas'
    BY <1>1, <1>9, <1>11 DEF LastHas
  <1>13. Probing'
    <2>1. \A n : ToProbe(n) => ToProbe(n)'
      BY <1>1 DEF ToProbe, PendingOf, ForceStorageProbe, OldIscsi
    <2>2. \A n : TargetsDone(n)' => TargetsDone(n)
      BY <1>1 DEF TargetsDone, PendingOf
    <2> QED
      BY <1>1, <1>9, <2>1, <2>2, SettledStays DEF Probing, AtMostTwo, Unprobed, PendingOf
  <1> QED
    BY <1>5, <1>7, <1>8, <1>10, <1>12, <1>13

\* A task that sends a call, or changes what only it reads.
LEMMA CallFollows ==
    ASSUME IInv, FollowInv, NEW id, Calls(id), NEW call,
           call.task = id, dbus' \in {dbus, dbus \union {call}},
           applied' = applied, UNCHANGED <<devices, overlapped>>,
           call.kind = "iscsi" => call.data = config[id[1]].iscsi,
           call.kind = "storage" => call.data = config[id[1]].storage,
           id[2] = "iscsi" => dbus' = dbus \union {call} /\ call.kind = "iscsi",
           id[2] = "storage" /\ work[id] = 0 /\ ForceStorageProbe(id[1]) =>
               dbus' = dbus \union {call} /\ call.kind = "probe",
           id[2] = "storage" /\ work[id] # 0 =>
               work[id] = 1 /\ dbus' = dbus \union {call} /\ call.kind = "storage",
           \A n \in Numbers : n = Count /\ ~overlapped => BootloaderOf(n)'
    PROVE  FollowInv'
  <1> USE DEF IInv, FollowInv
  <1>1. /\ id \in TaskIds /\ outcome[id] = "running" /\ overlapped' = overlapped
        /\ iscsi' = iscsi /\ storage' = storage
        /\ outcome' = outcome /\ config' = config
        /\ work'[id] = work[id] + 1
        /\ \A x \in TaskIds \ {id} : work'[x] = work[x]
    BY CallsKeeps DEF Calls, devices
  <1>2. Count' = Count
    BY <1>1 DEF Count
  <1>3. \A n \in Numbers : n = Count /\ ~overlapped => id[1] = n
    <2>1. Unfinished(id)
      BY <1>1 DEF Unfinished
    <2> QED
      BY <1>1, <2>1, UnderWay
  <1>4. id[1] \in Numbers /\ id = <<id[1], id[2]>> /\ work[id] \in Nat
    BY <1>1, Ids, TypeOfGraph
  <1>5. \A n \in Numbers : /\ <<n, "iscsi">> \in TaskIds /\ <<n, "storage">> \in TaskIds
                           /\ <<n, "bootloader">> \in TaskIds /\ <<n, "selinux">> \in TaskIds
    BY Present
  <1>6. NoneFails'
    BY <1>1 DEF NoneFails
  <1>7. CallsMade'
    <2> SUFFICES ASSUME NEW n \in Numbers
                 PROVE  /\ \A t \in {"iscsi", "bootloader", "selinux"} :
                              outcome[<<n, t>>] = "ok" => work'[<<n, t>>] = 1
                        /\ outcome[<<n, "storage">>] = "ok" => work'[<<n, "storage">>] = 2
      BY <1>1 DEF CallsMade
    <2>1. \A t \in {"iscsi", "storage", "bootloader", "selinux"} :
              outcome[<<n, t>>] = "ok" => work'[<<n, t>>] = work[<<n, t>>]
      BY <1>1, <1>5
    <2> QED
      BY <2>1 DEF CallsMade
  <1>8. Carried'
    BY <1>1 DEF Carried
  <1>9. Alone'
    <2>1. ~overlapped => call.task[1] = Count
      <3>1. Count \in Numbers
        BY <1>1, Submitted, Counted, BoundsAssumption DEF Numbers
      <3> QED
        BY <1>3, <3>1
    <2> QED
      BY <1>1, <1>2, <2>1 DEF Alone, Unfinished
  <1>10. \A x, k : PendingOf(x, k) => PendingOf(x, k)'
    BY DEF PendingOf
  <1>11. ASSUME NEW n \in Numbers
         PROVE  /\ work'[<<n, "storage">>] = 2 =>
                     work[<<n, "storage">>] = 2 \/ PendingOf(<<n, "storage">>, "storage")'
                /\ TargetsDone(n)' => TargetsDone(n)
                /\ ToProbe(n) => ToProbe(n)'
    <2>1. CASE id = <<n, "storage">>
      <3>1. id[1] = n /\ id[2] = "storage" /\ id # <<n, "iscsi">>
        BY <2>1
      <3>2. /\ work'[<<n, "storage">>] = work[<<n, "storage">>] + 1
            /\ work'[<<n, "iscsi">>] = work[<<n, "iscsi">>]
        BY <1>1, <1>5, <2>1, <3>1
      <3>3. work[id] # 0 => PendingOf(<<n, "storage">>, "storage")'
        BY <2>1, <3>1 DEF PendingOf
      <3>4. work[id] = 0 /\ ForceStorageProbe(n) => PendingOf(<<n, "storage">>, "probe")'
        BY <2>1, <3>1 DEF PendingOf
      <3>5. ForceStorageProbe(n)' <=> ForceStorageProbe(n)
        BY <1>1 DEF ForceStorageProbe, OldIscsi
      <3> QED
        BY <1>4, <1>10, <2>1, <3>2, <3>3, <3>4, <3>5 DEF TargetsDone, ToProbe
    <2>2. CASE id = <<n, "iscsi">>
      <3>1. id[2] = "iscsi" /\ id # <<n, "storage">>
        BY <2>2
      <3>2. PendingOf(<<n, "iscsi">>, "iscsi")'
        BY <2>2, <3>1 DEF PendingOf
      <3>3. work'[<<n, "storage">>] = work[<<n, "storage">>]
        BY <1>1, <1>5, <3>1
      <3>4. ForceStorageProbe(n)' <=> ForceStorageProbe(n)
        BY <1>1 DEF ForceStorageProbe, OldIscsi
      <3> QED
        BY <1>10, <3>2, <3>3, <3>4 DEF TargetsDone, ToProbe
    <2>3. CASE id # <<n, "storage">> /\ id # <<n, "iscsi">>
      <3>1. /\ work'[<<n, "storage">>] = work[<<n, "storage">>]
            /\ work'[<<n, "iscsi">>] = work[<<n, "iscsi">>]
        BY <1>1, <1>5, <2>3
      <3>2. ForceStorageProbe(n)' <=> ForceStorageProbe(n)
        BY <1>1 DEF ForceStorageProbe, OldIscsi
      <3> QED
        BY <1>10, <3>1, <3>2 DEF TargetsDone, ToProbe
    <2> QED
      BY <2>1, <2>2, <2>3
  <1>12. ASSUME NEW n \in Numbers, n = Count, ~overlapped
         PROVE  ServicesOf(n)' /\ LayoutOf(n)' /\ TargetsOf(n)' /\ BootloaderOf(n)'
    <2>1. ServicesOf(n) /\ LayoutOf(n) /\ TargetsOf(n)
      BY <1>12 DEF LastHas
    <2>2. ServicesOf(n)'
      BY <1>1, <2>1 DEF ServicesOf
    <2>3. LayoutOf(n)'
      BY <1>1, <1>10, <1>11, <2>1 DEF LayoutOf
    <2>4. TargetsOf(n)'
      BY <1>1, <1>11, <2>1, SettledStays DEF TargetsOf
    <2> QED
      BY <1>12, <2>2, <2>3, <2>4
  <1>13. LastHas'
    BY <1>1, <1>2, <1>12 DEF LastHas
  <1>14. Probing'
    <2>1. \A n \in Numbers : ToProbe(n) => ToProbe(n)'
      BY <1>11
    <2>2. ASSUME NEW n \in Numbers, work'[<<n, "storage">>] = 2
          PROVE  PendingOf(<<n, "storage">>, "storage")' \/ storage.config # Never
      <3>1. work[<<n, "storage">>] = 2 => PendingOf(<<n, "storage">>, "storage")
                                            \/ storage.config # Never
        BY DEF Probing
      <3> QED
        BY <1>10, <1>11, <2>2, <3>1
    <2>3. \A n \in Numbers : TargetsDone(n)' => TargetsDone(n)
      BY <1>11
    <2>4. (\E n \in 1 .. Count : ToProbe(n)) => \E n \in 1 .. Count : ToProbe(n)'
      BY <2>1, UpToCount
    <2> QED
      BY <1>1, <1>2, <2>2, <2>3, <2>4, SettledStays DEF Probing, AtMostTwo, Unprobed
  <1> QED
    BY <1>6, <1>7, <1>8, <1>9, <1>13, <1>14

\* The calls that are not for the bootloader leave it as it is.
LEMMA BootloaderStays ==
    ASSUME IInv, FollowInv, NEW id, Calls(id), id[2] \notin {"bootloader", "selinux"},
           NEW call, call.kind # "bootloader", dbus' \in {dbus, dbus \union {call}},
           full_config' = full_config, boot' = boot, selinux_selected' = selinux_selected
    PROVE  \A n \in Numbers : n = Count /\ ~overlapped => BootloaderOf(n)'
  <1> USE DEF IInv, FollowInv
  <1> SUFFICES ASSUME NEW n \in Numbers, n = Count, ~overlapped
               PROVE  BootloaderOf(n)'
    OBVIOUS
  <1>1. BootloaderOf(n)
    BY DEF LastHas
  <1>2. /\ outcome' = outcome
        /\ \A x \in TaskIds \ {id} : work'[x] = work[x]
    BY CallsKeeps
  <1>3. <<n, "bootloader">> \in TaskIds /\ <<n, "selinux">> \in TaskIds
    BY Present
  <1>4. id # <<n, "bootloader">> /\ id # <<n, "selinux">>
    OBVIOUS
  <1>5. /\ work'[<<n, "bootloader">>] = work[<<n, "bootloader">>]
        /\ work'[<<n, "selinux">>] = work[<<n, "selinux">>]
    BY <1>2, <1>3, <1>4
  <1>6. \A x, k : PendingOf(x, k) => PendingOf(x, k)'
    BY DEF PendingOf
  <1> QED
    BY <1>1, <1>2, <1>5, <1>6 DEF BootloaderOf

LEMMA IscsiCallFollows ==
    ASSUME IInv, FollowInv, NEW id \in TaskIds, IscsiCall(id)
    PROVE  FollowInv'
  <1> DEFINE call == Call("iscsi", id, config[id[1]].iscsi)
  <1>1. /\ outcome[id] = "running" /\ id[2] = "iscsi" /\ work[id] = 0
        /\ NextCall(id) /\ config' = config /\ dbus' = dbus \union {call}
        /\ applied' = applied /\ full_config' = full_config /\ boot' = boot
        /\ UNCHANGED <<devices, overlapped>>
        /\ selinux_selected' = selinux_selected
    BY DEF IscsiCall, Running, services, devices
  <1>2. Calls(id)
    BY <1>1 DEF Calls
  <1>3. call.kind = "iscsi" /\ call.task = id /\ call.data = config[id[1]].iscsi
    BY CallTask
  <1> HIDE DEF call
  <1>4. \A n \in Numbers : n = Count /\ ~overlapped => BootloaderOf(n)'
    BY <1>1, <1>2, <1>3, BootloaderStays
  <1> QED
    BY <1>1, <1>2, <1>3, <1>4, CallFollows

LEMMA StorageProbeFollows ==
    ASSUME IInv, FollowInv, NEW id \in TaskIds, StorageProbe(id)
    PROVE  FollowInv'
  <1> DEFINE call == Call("probe", id, NoValue)
  <1>1. /\ outcome[id] = "running" /\ id[2] = "storage" /\ work[id] = 0
        /\ NextCall(id) /\ config' = config /\ dbus' \in {dbus, dbus \union {call}}
        /\ ForceStorageProbe(id[1]) => dbus' = dbus \union {call}
        /\ applied' = applied /\ full_config' = full_config /\ boot' = boot
        /\ UNCHANGED <<devices, overlapped>>
        /\ selinux_selected' = selinux_selected
    BY DEF StorageProbe, Running, services, devices
  <1>2. Calls(id)
    BY <1>1 DEF Calls
  <1>3. call.kind = "probe" /\ call.task = id
    BY CallTask
  <1> HIDE DEF call
  <1>4. \A n \in Numbers : n = Count /\ ~overlapped => BootloaderOf(n)'
    BY <1>1, <1>2, <1>3, BootloaderStays
  <1> QED
    BY <1>1, <1>2, <1>3, <1>4, CallFollows

LEMMA StorageSetConfigFollows ==
    ASSUME IInv, FollowInv, NEW id \in TaskIds, StorageSetConfig(id)
    PROVE  FollowInv'
  <1> DEFINE call == Call("storage", id, config[id[1]].storage)
  <1>1. /\ outcome[id] = "running" /\ id[2] = "storage" /\ work[id] = 1
        /\ NextCall(id) /\ config' = config /\ dbus' = dbus \union {call}
        /\ applied' = applied /\ full_config' = full_config /\ boot' = boot
        /\ UNCHANGED <<devices, overlapped>>
        /\ selinux_selected' = selinux_selected
    BY DEF StorageSetConfig, Running, services, devices
  <1>2. Calls(id)
    BY <1>1 DEF Calls
  <1>3. call.kind = "storage" /\ call.task = id /\ call.data = config[id[1]].storage
    BY CallTask
  <1> HIDE DEF call
  <1>4. \A n \in Numbers : n = Count /\ ~overlapped => BootloaderOf(n)'
    BY <1>1, <1>2, <1>3, BootloaderStays
  <1> QED
    BY <1>1, <1>2, <1>3, <1>4, CallFollows

LEMMA SetResolvablesForFollows ==
    ASSUME IInv, FollowInv, NEW id \in TaskIds, SetResolvablesFor(id)
    PROVE  FollowInv'
  <1> DEFINE call == Call("probe", id, NoValue)
  <1>1. PICK k \in DOMAIN Providers : Running(id, "software", k - 1)
    BY DEF SetResolvablesFor
  <1>2. /\ outcome[id] = "running" /\ id[2] = "software" /\ work[id] \in 0 .. 4
        /\ NextCall(id) /\ config' = config /\ dbus' = dbus
        /\ applied' = applied /\ full_config' = full_config /\ boot' = boot
        /\ UNCHANGED <<devices, overlapped>>
        /\ selinux_selected' = selinux_selected
    <2>1. k \in 1 .. 5
      BY FiveProviders
    <2>2. outcome[id] = "running" /\ id[2] = "software" /\ work[id] = k - 1
      BY <1>1 DEF Running
    <2>3. work[id] \in 0 .. 4
      BY <2>1, <2>2
    <2> QED
      BY <2>2, <2>3 DEF SetResolvablesFor, devices
  <1>3. Calls(id)
    BY <1>2 DEF Calls
  <1>4. call.kind = "probe" /\ call.task = id
    BY CallTask
  <1> HIDE DEF call
  <1>5. \A n \in Numbers : n = Count /\ ~overlapped => BootloaderOf(n)'
    BY <1>2, <1>3, <1>4, BootloaderStays
  <1> QED
    BY <1>2, <1>3, <1>4, <1>5, CallFollows

\* What the bootloader task and SELinux wait for has ended.
LEMMA BootloaderTasks ==
    ASSUME IInv, FollowInv, NEW n \in Numbers
    PROVE  /\ Started(<<n, "selinux">>) =>
                 /\ outcome[<<n, "software">>] = "ok"
                 /\ outcome[<<n, "bootloader">>] = "ok"
                 /\ work[<<n, "bootloader">>] = 1
           /\ work[<<n, "selinux">>] # 0 => Started(<<n, "selinux">>)
  <1> USE DEF IInv, FollowInv
  <1>1. <<n, "selinux">> \in TaskIds
    BY Present
  <1>2. outcome[<<n, "bootloader">>] = "ok" => work[<<n, "bootloader">>] = 1
    BY DEF CallsMade
  <1>3. Started(<<n, "selinux">>) =>
            outcome[<<n, "software">>] = "ok" /\ outcome[<<n, "bootloader">>] = "ok"
    BY Order DEF Started
  <1>4. work[<<n, "selinux">>] # 0 => Started(<<n, "selinux">>)
    BY <1>1, TypeOfGraph DEF Chained, Started
  <1> QED
    BY <1>2, <1>3, <1>4

LEMMA BootloaderSetConfigFollows ==
    ASSUME IInv, FollowInv, NEW id \in TaskIds, BootloaderSetConfig(id)
    PROVE  FollowInv'
  <1> USE DEF IInv, FollowInv
  <1> DEFINE call == Call("bootloader", id, full_config')
  <1>1. /\ outcome[id] = "running" /\ id[2] = "bootloader" /\ work[id] = 0
        /\ NextCall(id) /\ config' = config /\ dbus' = dbus \union {call}
        /\ full_config' = [full_config EXCEPT !.config = id[1]]
        /\ applied' = applied /\ boot' = boot
        /\ UNCHANGED <<devices, overlapped>>
        /\ selinux_selected' = selinux_selected
    BY DEF BootloaderSetConfig, Running, devices
  <1>2. Calls(id)
    BY <1>1 DEF Calls
  <1>3. call.kind = "bootloader" /\ call.task = id /\ call.data = full_config'
    BY CallTask
  <1>4. full_config'.config = id[1]
    BY <1>1 DEF TypeOK, FullConfig
  <1>5. /\ outcome' = outcome /\ work'[id] = work[id] + 1
        /\ \A x \in TaskIds \ {id} : work'[x] = work[x]
    BY <1>2, CallsKeeps
  <1> HIDE DEF call
  <1>6. ASSUME NEW n \in Numbers, n = Count, ~overlapped
        PROVE  BootloaderOf(n)'
    <2>1. id[1] = n /\ id = <<n, "bootloader">>
      <3>1. Unfinished(id)
        BY <1>1 DEF Unfinished
      <3> QED
        BY <1>1, <1>6, <3>1, UnderWay, Ids
    <2>2. BootloaderOf(n)
      BY <1>6 DEF LastHas
    <2>3. PendingOf(<<n, "bootloader">>, "bootloader")'
      BY <1>1, <1>3, <2>1 DEF PendingOf
    <2>4. <<n, "selinux">> \in TaskIds /\ <<n, "selinux">> # id
      <3>1. <<n, "selinux">> \in TaskIds
        BY Present
      <3>2. <<n, "selinux">>[2] = "selinux"
        OBVIOUS
      <3> QED
        BY <1>1, <3>1, <3>2
    <2>5. work'[<<n, "selinux">>] = work[<<n, "selinux">>]
      BY <1>5, <2>4
    <2>6. \A c \in dbus' : c.kind = "bootloader" =>
             /\ c.data.config = n
             /\ c.task[2] = "selinux" => c.data.selinux = n
      BY <1>1, <1>3, <1>4, <2>1, <2>2 DEF BootloaderOf
    <2>7. outcome[<<n, "selinux">>] # "ok"
      BY <1>1, <2>1, BootloaderTasks DEF Started
    <2> QED
      BY <1>1, <1>4, <1>5, <2>1, <2>2, <2>3, <2>5, <2>6, <2>7 DEF BootloaderOf
  <1>7. id[2] # "iscsi" /\ id[2] # "storage" /\ call.kind # "iscsi" /\ call.kind # "storage"
    BY <1>1, <1>3
  <1> QED
    BY <1>1, <1>2, <1>3, <1>6, <1>7, CallFollows

LEMMA IsPatternSelectedFollows ==
    ASSUME IInv, FollowInv, MayFail = {}, NEW id \in TaskIds, IsPatternSelected(id)
    PROVE  FollowInv'
  <1> USE DEF IInv, FollowInv
  <1> DEFINE call == Call("bootloader", id, 0)
  <1>1. /\ outcome[id] = "running" /\ id[2] = "selinux" /\ work[id] = 0
        /\ NextCall(id) /\ config' = config /\ dbus' = dbus
        /\ applied' = applied /\ boot' = boot /\ full_config' = full_config
        /\ UNCHANGED <<devices, overlapped>>
        /\ selinux_selected' = [selinux_selected EXCEPT ![id[1]] = applied["software"]]
    BY DEF IsPatternSelected, Running, devices, services
  <1>2. Calls(id)
    BY <1>1 DEF Calls
  <1>3. call.kind = "bootloader" /\ call.task = id
    BY CallTask
  <1>4. /\ outcome' = outcome
        /\ \A x \in TaskIds \ {id} : work'[x] = work[x]
    BY <1>2, CallsKeeps
  <1> HIDE DEF call
  <1>5. ASSUME NEW n \in Numbers, n = Count, ~overlapped
        PROVE  BootloaderOf(n)'
    <2>1. id[1] = n /\ id = <<n, "selinux">>
      <3>1. Unfinished(id)
        BY <1>1 DEF Unfinished
      <3> QED
        BY <1>1, <1>5, <3>1, UnderWay, Ids
    <2>2. BootloaderOf(n) /\ ServicesOf(n)
      BY <1>5 DEF LastHas
    <2>3. outcome[<<n, "software">>] = "ok"
      BY <1>1, <2>1, BootloaderTasks DEF Started
    <2>4. applied["software"] = n
      BY <2>2, <2>3 DEF ServicesOf, Served
    <2>5. selinux_selected'[n] = n
      BY <1>1, <2>1, <2>4 DEF TypeOK
    <2>6. <<n, "bootloader">> \in TaskIds /\ <<n, "bootloader">> # id
      <3>1. <<n, "bootloader">> \in TaskIds
        BY Present
      <3>2. <<n, "bootloader">>[2] = "bootloader"
        OBVIOUS
      <3> QED
        BY <1>1, <3>1, <3>2
    <2>7. work'[<<n, "bootloader">>] = work[<<n, "bootloader">>]
      BY <1>4, <2>6
    <2> QED
      BY <1>1, <1>4, <2>2, <2>5, <2>7 DEF BootloaderOf, PendingOf
  <1>6. id[2] # "iscsi" /\ id[2] # "storage" /\ call.kind # "iscsi" /\ call.kind # "storage"
    BY <1>1, <1>3
  <1> QED
    BY <1>1, <1>2, <1>3, <1>5, <1>6, CallFollows

\* The kernel argument goes to the bootloader with the last configuration: what the
\* SELinux task read before, and what the bootloader task left in the client.
LEMMA SetKernelArgFollows ==
    ASSUME IInv, FollowInv, NEW id \in TaskIds, SetKernelArg(id)
    PROVE  FollowInv'
  <1> USE DEF IInv, FollowInv
  <1> DEFINE call == Call("bootloader", id, full_config')
  <1>1. /\ outcome[id] = "running" /\ id[2] = "selinux" /\ work[id] = 1
        /\ outcome' = [outcome EXCEPT ![id] = "ok"] /\ work' = work
        /\ config' = config /\ dbus' = dbus \union {call}
        /\ full_config' = [full_config EXCEPT !.selinux = selinux_selected[id[1]]]
        /\ applied' = applied /\ iscsi' = iscsi /\ storage' = storage /\ boot' = boot
        /\ overlapped' = overlapped
        /\ selinux_selected' = selinux_selected
    BY DEF SetKernelArg, Running, devices, Done
  <1>2. call.kind = "bootloader" /\ call.task = id /\ call.data = full_config'
    BY CallTask
  <1>3. /\ \A x \in TaskIds \ {id} : outcome'[x] = outcome[x]
        /\ outcome'[id] = "ok"
    BY <1>1, TypeOfGraph
  <1>4. Count' = Count
    BY <1>1 DEF Count
  <1>5. id[1] \in Numbers /\ id = <<id[1], "selinux">>
    BY <1>1, Ids
  <1>6. \A n \in Numbers : n = Count /\ ~overlapped => id[1] = n
    <2>1. Unfinished(id)
      BY <1>1 DEF Unfinished
    <2> QED
      BY <2>1, UnderWay
  <1> HIDE DEF call
  <1>7. NoneFails'
    BY <1>3 DEF NoneFails
  <1>8. \A n \in Numbers : /\ <<n, "iscsi">> \in TaskIds /\ <<n, "storage">> \in TaskIds
                           /\ <<n, "bootloader">> \in TaskIds /\ <<n, "selinux">> \in TaskIds
    BY Present
  <1>9. CallsMade'
    <2> SUFFICES ASSUME NEW n \in Numbers
                 PROVE  /\ \A t \in {"iscsi", "bootloader", "selinux"} :
                              outcome'[<<n, t>>] = "ok" => work[<<n, t>>] = 1
                        /\ outcome'[<<n, "storage">>] = "ok" => work[<<n, "storage">>] = 2
      BY <1>1 DEF CallsMade
    <2>1. \A t \in {"iscsi", "storage", "bootloader", "selinux"} :
              <<n, t>> # id => outcome'[<<n, t>>] = outcome[<<n, t>>]
      BY <1>3, <1>8
    <2>2. <<n, "storage">> # id
      BY <1>5
    <2> QED
      BY <1>1, <2>1, <2>2 DEF CallsMade
  <1>10. Carried'
    BY <1>1, <1>2 DEF Carried
  <1>11. Alone'
    <2>1. ~overlapped => call.task[1] = Count
      <3>1. id[1] \in 1 .. Count
        BY <1>1, Submitted
      <3>2. Count \in Numbers
        BY <3>1, Counted, BoundsAssumption DEF Numbers
      <3> QED
        BY <1>2, <1>6, <3>2
    <2>2. \A x \in TaskIds : Unfinished(x)' => Unfinished(x)
      BY <1>1, <1>3 DEF Unfinished
    <2> QED
      BY <1>1, <1>4, <2>1, <2>2 DEF Alone
  <1>12. \A x, k : PendingOf(x, k) => PendingOf(x, k)'
    BY <1>1 DEF PendingOf
  <1>13. \A n : TargetsDone(n)' => TargetsDone(n)
    BY <1>1, <1>12 DEF TargetsDone
  <1>14. ASSUME NEW n \in Numbers, n = Count, ~overlapped
         PROVE  ServicesOf(n)' /\ LayoutOf(n)' /\ TargetsOf(n)' /\ BootloaderOf(n)'
    <2>1. ServicesOf(n) /\ LayoutOf(n) /\ TargetsOf(n) /\ BootloaderOf(n)
      BY <1>14 DEF LastHas
    <2>2. id = <<n, "selinux">>
      BY <1>5, <1>6, <1>14
    <2>3. ServicesOf(n)'
      <3> SUFFICES ASSUME NEW t \in Served, outcome'[<<n, t>>] = "ok"
                   PROVE  applied'[t] = n
        BY DEF ServicesOf
      <3>1. <<n, t>> \in TaskIds /\ t # "selinux"
        BY ServedTasks DEF TaskIds
      <3>2. <<n, t>> # id
        BY <2>2, <3>1
      <3> QED
        BY <1>1, <1>3, <2>1, <3>1, <3>2 DEF ServicesOf
    <2>4. LayoutOf(n)'
      BY <1>1, <1>12, <2>1 DEF LayoutOf
    <2>5. TargetsOf(n)'
      BY <1>1, <1>13, <2>1, SettledStays DEF TargetsOf
    <2>6. full_config.config = n
      <3>1. work[<<n, "bootloader">>] = 1
        BY <1>1, <2>2, BootloaderTasks DEF Started
      <3> QED
        BY <2>1, <3>1 DEF BootloaderOf
    <2>7. selinux_selected[n] = n
      BY <1>1, <2>1, <2>2 DEF BootloaderOf
    <2>8. full_config'.config = n /\ full_config'.selinux = n
      <3>1. id[1] = n
        BY <2>2
      <3> QED
        BY <1>1, <2>6, <2>7, <3>1 DEF TypeOK, FullConfig
    <2>9. \A c \in dbus' : c.kind = "bootloader" =>
             /\ c.data.config = n
             /\ c.task[2] = "selinux" => c.data.selinux = n
      BY <1>1, <1>2, <2>1, <2>8 DEF BootloaderOf
    <2>10. PendingOf(<<n, "selinux">>, "bootloader")'
      BY <1>1, <1>2, <2>2 DEF PendingOf
    <2>11. BootloaderOf(n)'
      BY <1>1, <1>12, <2>1, <2>8, <2>9, <2>10 DEF BootloaderOf
    <2> QED
      BY <2>3, <2>4, <2>5, <2>11
  <1>15. LastHas'
    BY <1>1, <1>4, <1>14 DEF LastHas
  <1>16. Probing'
    <2>1. \A n : ToProbe(n) => ToProbe(n)'
      BY <1>1, <1>12 DEF ToProbe, ForceStorageProbe, OldIscsi
    <2> QED
      BY <1>1, <1>4, <1>12, <1>13, <2>1, SettledStays DEF Probing, AtMostTwo, Unprobed
  <1> QED
    BY <1>7, <1>9, <1>10, <1>11, <1>15, <1>16

\* The D-Bus service takes a call: what does not depend on the call.
LEMMA TakeFollows ==
    ASSUME IInv, FollowInv, NEW c, NEW kind, Take(c, kind)
    PROVE  /\ NoneFails' /\ CallsMade' /\ Carried' /\ Alone'
           /\ Count' = Count /\ overlapped' = overlapped
           /\ c \in dbus /\ c.kind = kind /\ c.task \in TaskIds /\ AwaitedCall(c)
           /\ Started(c.task) /\ c.task = <<c.task[1], c.task[2]>>
           /\ c.task[1] \in Numbers /\ c.task[1] \in 1 .. Count
           /\ config[c.task[1]] \in ConfigType
           /\ ~overlapped => c.task[1] = Count
           /\ \A n \in Numbers : n = Count /\ ~overlapped => ServicesOf(n)'
           /\ config' = config /\ outcome' = outcome /\ work' = work
           /\ full_config' = full_config /\ selinux_selected' = selinux_selected
           /\ \A x, k : PendingOf(x, k)' => PendingOf(x, k)
           /\ \A x, k : k # kind \/ x # c.task =>
                 (PendingOf(x, k) => PendingOf(x, k)')
           /\ \A n \in Numbers : kind # "probe" => (ToProbe(n) => ToProbe(n)')
           /\ \A n \in Numbers : TargetsDone(n)' =>
                 TargetsDone(n) \/ (kind = "iscsi" /\ c.task = <<n, "iscsi">>)
  <1> USE DEF IInv, FollowInv
  <1>1. /\ c \in dbus /\ c.kind = kind /\ dbus' = dbus \ {c}
        /\ config' = config /\ outcome' = outcome /\ work' = work
        /\ full_config' = full_config /\ applied' = applied
        /\ selinux_selected' = selinux_selected /\ overlapped' = overlapped
    BY DEF Take, graph, services
  <1>2. /\ c.task \in TaskIds /\ Started(c.task) /\ AwaitedCall(c)
    BY <1>1 DEF Awaited, Brought, TypeOK
  <1>3. /\ c.task[1] \in Numbers /\ c.task = <<c.task[1], c.task[2]>>
        /\ c.task[1] \in 1 .. Count /\ config[c.task[1]] \in ConfigType
    BY <1>2, Ids, Submitted DEF Started
  <1>4. Count' = Count
    BY <1>1 DEF Count
  <1>5. NoneFails' /\ CallsMade' /\ Carried'
    BY <1>1 DEF NoneFails, CallsMade, Carried
  <1>6. Alone' /\ (~overlapped => c.task[1] = Count)
    BY <1>1, <1>4 DEF Alone, Unfinished
  <1>7. \A n \in Numbers : n = Count /\ ~overlapped => ServicesOf(n)'
    <2> SUFFICES ASSUME NEW n \in Numbers, n = Count, ~overlapped
                 PROVE  ServicesOf(n)'
      OBVIOUS
    <2>1. ServicesOf(n)
      BY DEF LastHas
    <2> QED
      BY <1>1, <2>1 DEF ServicesOf
  <1>8. \A x, k : PendingOf(x, k)' => PendingOf(x, k)
    BY <1>1 DEF PendingOf
  <1>9. \A x, k : k # kind \/ x # c.task => (PendingOf(x, k) => PendingOf(x, k)')
    BY <1>1 DEF PendingOf
  <1>10. \A n \in Numbers : kind # "probe" => (ToProbe(n) => ToProbe(n)')
    BY <1>1, <1>9 DEF ToProbe, ForceStorageProbe, OldIscsi
  <1>11. \A n \in Numbers : TargetsDone(n)' =>
                 TargetsDone(n) \/ (kind = "iscsi" /\ c.task = <<n, "iscsi">>)
    BY <1>1, <1>9 DEF TargetsDone
  <1> QED
    BY <1>1, <1>2, <1>3, <1>4, <1>5, <1>6, <1>7, <1>8, <1>9, <1>10, <1>11

\* Calls for the devices leave the bootloader as it is.
LEMMA BootloaderNotTaken ==
    ASSUME IInv, FollowInv, NEW c, NEW kind, Take(c, kind), kind # "bootloader",
           boot' = boot
    PROVE  \A n \in Numbers : n = Count /\ ~overlapped => BootloaderOf(n)'
  <1> SUFFICES ASSUME NEW n \in Numbers, n = Count, ~overlapped
               PROVE  BootloaderOf(n)'
    OBVIOUS
  <1>1. BootloaderOf(n)
    BY DEF FollowInv, LastHas
  <1>2. /\ outcome' = outcome /\ work' = work
        /\ full_config' = full_config /\ selinux_selected' = selinux_selected
        /\ \A x, k : k # kind \/ x # c.task => (PendingOf(x, k) => PendingOf(x, k)')
    BY TakeFollows
  <1>3. dbus' \subseteq dbus
    BY DEF Take
  <1>4. \A x : PendingOf(x, "bootloader") => PendingOf(x, "bootloader")'
    BY <1>2
  <1> QED
    BY <1>1, <1>2, <1>3, <1>4 DEF BootloaderOf

\* When the configuration of a task of the storage is there, the layout of the last one
\* stays.
LEMMA LayoutStays ==
    ASSUME IInv, FollowInv, NEW c, NEW kind, Take(c, kind), kind # "storage",
           storage'.config = storage.config
    PROVE  /\ \A n \in Numbers : n = Count /\ ~overlapped => LayoutOf(n)'
           /\ \A n \in Numbers : work'[<<n, "storage">>] = 2 =>
                  PendingOf(<<n, "storage">>, "storage")' \/ storage'.config # Never
  <1>1. /\ work' = work /\ config' = config
        /\ \A x, k : k # kind \/ x # c.task => (PendingOf(x, k) => PendingOf(x, k)')
    BY TakeFollows
  <1>2. \A x : PendingOf(x, "storage") => PendingOf(x, "storage")'
    BY <1>1
  <1>3. ASSUME NEW n \in Numbers, n = Count, ~overlapped
        PROVE  LayoutOf(n)'
    <2>1. LayoutOf(n)
      BY <1>3 DEF FollowInv, LastHas
    <2> QED
      BY <1>1, <1>2, <2>1 DEF LayoutOf
  <1>4. ASSUME NEW n \in Numbers, work'[<<n, "storage">>] = 2
        PROVE  PendingOf(<<n, "storage">>, "storage")' \/ storage'.config # Never
    <2>1. PendingOf(<<n, "storage">>, "storage") \/ storage.config # Never
      BY <1>1, <1>4 DEF FollowInv, Probing
    <2> QED
      BY <1>2, <2>1
  <1> QED
    BY <1>3, <1>4

\* If no call for targets is taken, those there are stay.
LEMMA TargetsStay ==
    ASSUME IInv, FollowInv, NEW c, NEW kind, Take(c, kind), kind # "iscsi", iscsi' = iscsi
    PROVE  /\ \A n \in Numbers : TargetsDone(n)' => TargetsDone(n)
           /\ \A n \in Numbers : n = Count /\ ~overlapped => TargetsOf(n)'
           /\ AtMostTwo =>
                 \A n \in Numbers :
                    (/\ n + 1 = Count
                     /\ config[n + 1].iscsi = config[n].iscsi
                     /\ TargetsDone(n)' /\ config[n].iscsi # NoValue)
                        => Settled(n)'
  <1>1. config' = config /\ \A n \in Numbers : TargetsDone(n)' => TargetsDone(n)
    BY TakeFollows
  <1>2. ASSUME NEW n \in Numbers, n = Count, ~overlapped
        PROVE  TargetsOf(n)'
    <2>1. TargetsOf(n)
      BY <1>2 DEF FollowInv, LastHas
    <2> QED
      BY <1>1, <2>1, SettledStays DEF TargetsOf
  <1> QED
    BY <1>1, <1>2, SettledStays DEF FollowInv, Probing

LEMMA ProbeFollows ==
    ASSUME IInv, FollowInv, NEW c, Probe(c)
    PROVE  FollowInv'
  <1>1. Take(c, "probe") /\ iscsi' = iscsi /\ boot' = boot
    BY DEF Probe
  <1>2. /\ storage'.config = storage.config /\ storage'.probed = iscsi.connected
        /\ storage.config # Never => storage'.solved = storage'.probed
    BY DEF Probe, Solve, IInv, TypeOK, StorageType
  <1>3. /\ NoneFails' /\ CallsMade' /\ Carried' /\ Alone'
        /\ Count' = Count /\ overlapped' = overlapped /\ config' = config /\ work' = work
        /\ \A n \in Numbers : n = Count /\ ~overlapped => ServicesOf(n)'
    BY <1>1, TakeFollows
  <1>4. \A n \in Numbers : n = Count /\ ~overlapped => BootloaderOf(n)'
    BY <1>1, BootloaderNotTaken
  <1>5. /\ \A n \in Numbers : n = Count /\ ~overlapped => LayoutOf(n)'
        /\ \A n \in Numbers : work'[<<n, "storage">>] = 2 =>
                  PendingOf(<<n, "storage">>, "storage")' \/ storage'.config # Never
    BY <1>1, <1>2, LayoutStays
  <1>6. /\ \A n \in Numbers : n = Count /\ ~overlapped => TargetsOf(n)'
        /\ AtMostTwo =>
                 \A n \in Numbers :
                    (/\ n + 1 = Count
                     /\ config[n + 1].iscsi = config[n].iscsi
                     /\ TargetsDone(n)' /\ config[n].iscsi # NoValue)
                        => Settled(n)'
    BY <1>1, TargetsStay
  <1>7. LastHas'
    BY <1>3, <1>4, <1>5, <1>6 DEF LastHas
  <1>8. Probing'
    BY <1>1, <1>2, <1>3, <1>5, <1>6 DEF Probing, AtMostTwo
  <1> QED
    BY <1>3, <1>7, <1>8 DEF FollowInv

LEMMA ConfigureStorageFollows ==
    ASSUME IInv, FollowInv, NEW c, ConfigureStorage(c)
    PROVE  FollowInv'
  <1>1. Take(c, "storage") /\ iscsi' = iscsi /\ boot' = boot
    BY DEF ConfigureStorage
  <1>2. /\ NoneFails' /\ CallsMade' /\ Carried' /\ Alone'
        /\ Count' = Count /\ overlapped' = overlapped /\ config' = config /\ work' = work
        /\ c \in dbus /\ c.kind = "storage" /\ c.task = <<c.task[1], c.task[2]>>
        /\ config[c.task[1]] \in ConfigType /\ (~overlapped => c.task[1] = Count)
        /\ \A n \in Numbers : n = Count /\ ~overlapped => ServicesOf(n)'
        /\ \A n \in Numbers : ToProbe(n) => ToProbe(n)'
    BY <1>1, TakeFollows
  <1>3. c.data = config[c.task[1]].storage /\ c.data \in StorageSections /\ c.data # Never
    BY <1>2, NeverAssumption DEF FollowInv, Carried, ConfigType
  <1>4. /\ storage'.config = c.data /\ storage'.solved = storage'.probed
        /\ \/ storage'.probed = storage.probed /\ ~(storage.probed = Never /\ storage.config = Never)
           \/ storage'.probed = iscsi.connected
    <2>1. storage.config # Never => storage.solved = storage.probed
      BY DEF FollowInv, Probing
    <2> QED
      BY <1>3, <2>1 DEF ConfigureStorage
  <1>5. \A n \in Numbers : n = Count /\ ~overlapped => BootloaderOf(n)'
    BY <1>1, BootloaderNotTaken
  <1>6. /\ \A n \in Numbers : n = Count /\ ~overlapped => TargetsOf(n)'
        /\ AtMostTwo =>
                 \A n \in Numbers :
                    (/\ n + 1 = Count
                     /\ config[n + 1].iscsi = config[n].iscsi
                     /\ TargetsDone(n)' /\ config[n].iscsi # NoValue)
                        => Settled(n)'
    BY <1>1, TargetsStay
  <1>7. ASSUME NEW n \in Numbers, n = Count, ~overlapped
        PROVE  LayoutOf(n)'
    BY <1>2, <1>3, <1>4, <1>7 DEF LayoutOf
  <1>8. LastHas'
    BY <1>2, <1>5, <1>6, <1>7 DEF LastHas
  <1>9. Probing'
    <2>1. ASSUME AtMostTwo
          PROVE  \/ storage'.probed = iscsi.connected
                 \/ \E n \in 1 .. Count : ToProbe(n)'
      <3>1. \/ storage.probed = iscsi.connected
            \/ storage.config = Never /\ storage.probed = Never
            \/ \E n \in 1 .. Count : ToProbe(n)
        BY <2>1 DEF FollowInv, Probing, Unprobed
      <3>2. (\E n \in 1 .. Count : ToProbe(n)) => \E n \in 1 .. Count : ToProbe(n)'
        BY <1>2, UpToCount DEF IInv
      <3> QED
        BY <1>4, <3>1, <3>2
    <2> QED
      BY <1>1, <1>2, <1>3, <1>4, <1>6, <2>1 DEF Probing, AtMostTwo
  <1> QED
    BY <1>2, <1>8, <1>9 DEF FollowInv

LEMMA ConfigureBootloaderFollows ==
    ASSUME IInv, FollowInv, NEW c, ConfigureBootloader(c)
    PROVE  FollowInv'
  <1>1. /\ Take(c, "bootloader") /\ iscsi' = iscsi
        /\ boot'.config = c.data.config /\ boot'.selinux = c.data.selinux
    BY DEF ConfigureBootloader
  <1>2. /\ NoneFails' /\ CallsMade' /\ Carried' /\ Alone'
        /\ Count' = Count /\ overlapped' = overlapped /\ config' = config
        /\ outcome' = outcome /\ work' = work
        /\ full_config' = full_config /\ selinux_selected' = selinux_selected
        /\ c \in dbus /\ c.kind = "bootloader" /\ c.task = <<c.task[1], c.task[2]>>
        /\ c.task[1] \in Numbers /\ AwaitedCall(c)
        /\ (~overlapped => c.task[1] = Count)
        /\ \A n \in Numbers : n = Count /\ ~overlapped => ServicesOf(n)'
        /\ \A n \in Numbers : ToProbe(n) => ToProbe(n)'
    BY <1>1, TakeFollows
  <1>3. /\ storage'.config = storage.config /\ storage'.probed = storage.probed
        /\ storage.config # Never => storage'.solved = storage.probed
    BY DEF ConfigureBootloader, Solve, IInv, TypeOK, StorageType
  <1>4. /\ \A n \in Numbers : n = Count /\ ~overlapped => LayoutOf(n)'
        /\ \A n \in Numbers : work'[<<n, "storage">>] = 2 =>
                  PendingOf(<<n, "storage">>, "storage")' \/ storage'.config # Never
    BY <1>1, <1>3, LayoutStays
  <1>5. /\ \A n \in Numbers : n = Count /\ ~overlapped => TargetsOf(n)'
        /\ AtMostTwo =>
                 \A n \in Numbers :
                    (/\ n + 1 = Count
                     /\ config[n + 1].iscsi = config[n].iscsi
                     /\ TargetsDone(n)' /\ config[n].iscsi # NoValue)
                        => Settled(n)'
    BY <1>1, TargetsStay
  <1>6. ASSUME NEW n \in Numbers, n = Count, ~overlapped
        PROVE  BootloaderOf(n)'
    <2>1. BootloaderOf(n)
      BY <1>6 DEF FollowInv, LastHas
    <2>2. c.task = <<n, c.task[2]>> /\ c.data \in FullConfig
      BY <1>2, <1>6 DEF IInv, TypeOK
    <2>3. boot'.config = n
      BY <1>1, <1>2, <2>1 DEF BootloaderOf
    <2>4. dbus' \subseteq dbus
      BY <1>1 DEF Take
    <2>5. ASSUME outcome[<<n, "selinux">>] = "ok"
          PROVE  \/ PendingOf(<<n, "selinux">>, "bootloader")'
                 \/ boot'.config = n /\ boot'.selinux = n
      <3>1. c.task[2] = "selinux"
        <4>1. outcome[<<n, "bootloader">>] = "ok"
          BY <2>5, BootloaderTasks DEF Started
        <4>2. c.task # <<n, "bootloader">> \/ outcome[c.task] = "ok"
          BY <4>1
        <4> QED
          BY <1>2, <2>2, <4>2 DEF AwaitedCall
      <3>2. c.data.selinux = n /\ c.data.config = n
        BY <1>2, <2>1, <3>1 DEF BootloaderOf
      <3> QED
        BY <1>1, <3>2
    <2> QED
      BY <1>2, <2>1, <2>3, <2>4, <2>5 DEF BootloaderOf
  <1>7. LastHas'
    BY <1>2, <1>4, <1>5, <1>6 DEF LastHas
  <1>8. Probing'
    <2>1. ASSUME AtMostTwo
          PROVE  \/ storage'.probed = iscsi.connected
                 \/ Unprobed'
                 \/ \E n \in 1 .. Count : ToProbe(n)'
      <3>1. \/ storage.probed = iscsi.connected
            \/ Unprobed
            \/ \E n \in 1 .. Count : ToProbe(n)
        BY <2>1 DEF FollowInv, Probing
      <3>2. (\E n \in 1 .. Count : ToProbe(n)) => \E n \in 1 .. Count : ToProbe(n)'
        BY <1>2, UpToCount DEF IInv
      <3> QED
        BY <1>3, <3>1, <3>2 DEF Unprobed
    <2> QED
      BY <1>1, <1>2, <1>3, <1>4, <1>5, <2>1 DEF Probing, AtMostTwo
  <1> QED
    BY <1>2, <1>7, <1>8 DEF FollowInv

\* The storage is not configured before the targets are.
LEMMA StorageWaits ==
    ASSUME TypeOK, Submission, Chained, NEW n \in Numbers, outcome[<<n, "iscsi">>] # "ok"
    PROVE  work[<<n, "storage">>] = 0
  <1>1. <<n, "storage">> \in TaskIds
    BY Present
  <1>2. outcome[<<n, "storage">>]
            \in {"absent", "pending", "running", "ok", "failed", "cancelled"}
    BY <1>1, TypeOfGraph
  <1>3. ~Started(<<n, "storage">>)
    BY Order
  <1> QED
    BY <1>1, <1>2, <1>3 DEF Chained, Started

\* A configuration that brings other targets will probe; one that brings the same ones
\* finds those of the configuration before, or that one will probe.
LEMMA ConfigureIscsiFollows ==
    ASSUME IInv, FollowInv, NEW c, ConfigureIscsi(c)
    PROVE  FollowInv'
  <1> USE DEF IInv
  <1> DEFINE m == c.task[1]
  <1>1. Take(c, "iscsi") /\ storage' = storage /\ boot' = boot
    BY DEF ConfigureIscsi
  <1>2. /\ NoneFails' /\ CallsMade' /\ Carried' /\ Alone'
        /\ Count' = Count /\ overlapped' = overlapped /\ config' = config
        /\ work' = work
        /\ c \in dbus /\ c.kind = "iscsi" /\ c.task = <<m, c.task[2]>>
        /\ m \in Numbers /\ m \in 1 .. Count /\ AwaitedCall(c)
        /\ (~overlapped => m = Count)
        /\ \A n \in Numbers : n = Count /\ ~overlapped => ServicesOf(n)'
        /\ \A n \in Numbers : ToProbe(n) => ToProbe(n)'
        /\ \A n \in Numbers : TargetsDone(n)' => TargetsDone(n) \/ c.task = <<n, "iscsi">>
    BY <1>1, TakeFollows
  <1> HIDE DEF m
  <1>3. c.task = <<m, "iscsi">> /\ outcome[<<m, "iscsi">>] = "running"
    BY <1>2 DEF AwaitedCall
  <1>4. /\ c.data = config[m].iscsi
        /\ config[m].iscsi = NoValue => iscsi' = iscsi
        /\ config[m].iscsi # NoValue =>
              /\ config[m].iscsi \in IscsiSection
              /\ IF Configured(config[m].iscsi) THEN iscsi' = iscsi
                 ELSE iscsi' = ConnectTargets(config[m].iscsi)
    <2>1. c.data = config[m].iscsi /\ c.data \in Sections
      BY <1>2 DEF m, FollowInv, Carried, TypeOK
    <2> QED
      BY <2>1 DEF ConfigureIscsi, Sections
  <1>5. Count \in Nat /\ m \in Nat /\ 1 <= m /\ m <= Count
        /\ \A n \in Numbers : n \in Nat /\ 1 <= n
    BY <1>2, UpToCount, NumbersRange
  <1>6. ASSUME NEW n \in Numbers, outcome[<<n, "iscsi">>] # "ok"
        PROVE  work[<<n, "storage">>] = 0
    BY <1>6, StorageWaits
  <1>7. \A n \in Numbers : n = Count /\ ~overlapped => BootloaderOf(n)'
    BY <1>1, BootloaderNotTaken
  <1>8. /\ \A n \in Numbers : n = Count /\ ~overlapped => LayoutOf(n)'
        /\ \A n \in Numbers : work'[<<n, "storage">>] = 2 =>
                  PendingOf(<<n, "storage">>, "storage")' \/ storage'.config # Never
    BY <1>1, LayoutStays
  \* The section is settled, and nothing changes if it was.
  <1>9. config[m].iscsi # NoValue =>
             Settled(m)' /\ (Settled(m) => iscsi'.connected = iscsi.connected)
    BY <1>2, <1>4, SettledAgain
  <1>10. ASSUME NEW n \in Numbers, n = Count, ~overlapped
        PROVE  TargetsOf(n)'
    BY <1>2, <1>10, <1>9 DEF TargetsOf
  <1>11. LastHas'
    BY <1>2, <1>7, <1>8, <1>10 DEF LastHas
  \* The configuration before the last one has brought its targets, unless it will probe.
  <1>12. ASSUME AtMostTwo, NEW n \in Numbers, n + 1 = Count, m = n + 1,
                config[m].iscsi = config[n].iscsi, config[n].iscsi # NoValue
         PROVE  Settled(m) \/ ToProbe(n)
    <2>1. TargetsDone(n) => Settled(m)
      <3>1. TargetsDone(n) => Settled(n)
        BY <1>12 DEF FollowInv, Probing
      <3>2. Settled(n) <=> Settled(m)
        BY <1>12 DEF Settled
      <3> QED
        BY <3>1, <3>2
    <2>2. ASSUME ~TargetsDone(n)
          PROVE  ToProbe(n)
      <3>1. outcome[<<n, "iscsi">>] # "ok"
        <4>1. CASE work[<<n, "iscsi">>] = 0
          <5>1. outcome[<<n, "iscsi">>] = "ok" => work[<<n, "iscsi">>] = 1
            BY DEF FollowInv, CallsMade
          <5> QED
            BY <4>1, <5>1
        <4>2. CASE PendingOf(<<n, "iscsi">>, "iscsi")
          BY <4>2 DEF PendingOf, Awaited, AwaitedCall
        <4> QED
          BY <2>2, <4>1, <4>2 DEF TargetsDone
      <3>2. <<n, "iscsi">> \in TaskIds /\ n \in 1 .. Count /\ n # Count
        <4>1. <<n, "iscsi">> \in TaskIds
          BY Present
        <4> QED
          BY <1>5, <1>12, <4>1, UpToCount
      <3>3. outcome[<<n, "iscsi">>] # "absent"
        <4>1. "iscsi" \in TasksOf(config[n])
          BY TasksOfConfig
        <4> QED
          BY <3>2, <4>1, Counted DEF Submission
      <3>4. Unfinished(<<n, "iscsi">>)
        BY <3>1, <3>2, <3>3, TypeOfGraph DEF Unfinished, FollowInv, NoneFails
      <3>5. overlapped
        <4>1. <<n, "iscsi">>[1] # Count
          BY <3>2
        <4> QED
          BY <3>2, <3>4, <4>1 DEF FollowInv, Alone
      <3>6. n = 1
        BY <1>5, <1>12, <3>5 DEF AtMostTwo
      <3> QED
        BY <1>6, <1>12, <3>1, <3>6 DEF ToProbe, ForceStorageProbe, OldIscsi
    <2> QED
      BY <2>1, <2>2
  <1>13. ASSUME AtMostTwo
         PROVE  \/ storage.probed = iscsi'.connected
                \/ Unprobed'
                \/ \E n \in 1 .. Count : ToProbe(n)'
    <2>1. \/ storage.probed = iscsi.connected
          \/ Unprobed
          \/ \E n \in 1 .. Count : ToProbe(n)
      BY <1>13 DEF FollowInv, Probing
    <2>2. (\E n \in 1 .. Count : ToProbe(n)) => \E n \in 1 .. Count : ToProbe(n)'
      BY <1>2, UpToCount
    <2>3. CASE iscsi'.connected = iscsi.connected
      BY <1>1, <2>1, <2>2, <2>3 DEF Unprobed
    <2>4. CASE iscsi'.connected # iscsi.connected
      <3>1. config[m].iscsi # NoValue /\ ~Settled(m)
        BY <1>4, <1>9, <2>4
      <3>2. CASE ForceStorageProbe(m)
        <4>1. ToProbe(m)
          BY <1>2, <1>3, <1>6, <3>2 DEF ToProbe
        <4> QED
          BY <1>2, <2>2, <4>1
      <3>3. CASE ~ForceStorageProbe(m)
        <4>1. m # 1 /\ config[m].iscsi = config[m - 1].iscsi
          BY <1>5, <3>1, <3>3 DEF ForceStorageProbe, OldIscsi
        <4>2. m = Count
          BY <1>2, <1>5, <1>13, <4>1 DEF AtMostTwo
        <4>3. PICK n : n = m - 1
          OBVIOUS
        <4>4. n \in Numbers /\ m = n + 1 /\ n \in 1 .. Count
          <5>1. n \in 1 .. Count /\ m = n + 1
            BY <1>5, <4>1, <4>3
          <5> QED
            BY <5>1, UpToCount
        <4>5. ToProbe(n)
          BY <1>12, <1>13, <3>1, <4>1, <4>2, <4>3, <4>4
        <4> QED
          BY <2>2, <4>4, <4>5
      <3> QED
        BY <3>2, <3>3
    <2> QED
      BY <2>3, <2>4
  <1>14. ASSUME AtMostTwo, NEW n \in Numbers, n + 1 = Count,
                config[n + 1].iscsi = config[n].iscsi,
                TargetsDone(n)', config[n].iscsi # NoValue
         PROVE  Settled(n)'
    <2>1. m = n + 1 \/ m = n
      BY <1>2, <1>5, <1>14 DEF AtMostTwo
    <2>2. Settled(m)'
      BY <1>14, <1>9, <2>1
    <2>3. Settled(n)' <=> Settled(m)'
      BY <1>2, <1>14, <2>1 DEF Settled
    <2> QED
      BY <2>2, <2>3
  <1>15. Probing'
    BY <1>1, <1>2, <1>8, <1>13, <1>14 DEF Probing, AtMostTwo, FollowInv
  <1> QED
    BY <1>2, <1>11, <1>15 DEF FollowInv

LEMMA SetConfigFollows ==
    ASSUME IInv, FollowInv, NEW c \in Configs, SetConfig(c)
    PROVE  FollowInv'
  <1> USE DEF IInv, FollowInv
  <1>3. PICK n : n = Count + 1
    OBVIOUS
  <1> DEFINE Added(id) == id[1] = n /\ id[2] \in TasksOf(c)
  <1>1. /\ Count < MaxConfigs
        /\ config' = [i \in 1 .. n |-> IF i = n THEN c ELSE config[i]]
        /\ outcome' = [id \in TaskIds |-> IF Added(id) THEN "pending" ELSE outcome[id]]
        /\ overlapped' = (overlapped \/ ~NothingToDo)
        /\ work' = work /\ selinux_selected' = selinux_selected
        /\ applied' = applied /\ full_config' = full_config
        /\ dbus' = dbus /\ iscsi' = iscsi /\ storage' = storage /\ boot' = boot
    BY <1>3 DEF SetConfig, services, devices
  <1>2. /\ Count \in 0 .. MaxConfigs /\ Count \in Nat /\ n \in 1 .. MaxConfigs
        /\ DOMAIN config = 1 .. Count /\ n \in Numbers
    BY <1>1, <1>3, Counted, BoundsAssumption DEF Numbers
  <1>4. /\ \A i \in 1 .. Count : config'[i] = config[i]
        /\ DOMAIN config' = 1 .. n
    BY <1>1, <1>2, <1>3
  <1>5. Count' = n
    <2>1. n \in Nat
      BY <1>2, <1>3
    <2>2. Cardinality(1 .. n) = n
      BY <2>1, FS_Interval
    <2> QED
      BY <1>4, <2>2 DEF Count
  <1>6. \A id \in TaskIds : outcome[id] # "absent" => id[1] \in 1 .. Count
    BY Submitted
  <1>7. \A id \in TaskIds : id[1] = n => outcome[id] = "absent" /\ work[id] = 0
    <2>1. n \notin 1 .. Count
      BY <1>2, <1>3
    <2> QED
      BY <1>6, <2>1 DEF Chained
  <1>8. \A id \in TaskIds : /\ id[1] # n => outcome'[id] = outcome[id]
                            /\ id[1] = n => outcome'[id] \in {"absent", "pending"}
    BY <1>1, <1>7
  <1>9. NoneFails'
    BY <1>8 DEF NoneFails
  <1>10. CallsMade'
    <2> SUFFICES ASSUME NEW m \in Numbers
                 PROVE  /\ \A t \in {"iscsi", "bootloader", "selinux"} :
                              outcome'[<<m, t>>] = "ok" => work[<<m, t>>] = 1
                        /\ outcome'[<<m, "storage">>] = "ok" => work[<<m, "storage">>] = 2
      BY <1>1 DEF CallsMade
    <2>1. \A t \in {"iscsi", "storage", "bootloader", "selinux"} : <<m, t>> \in TaskIds
      BY Present
    <2>2. \A t \in {"iscsi", "storage", "bootloader", "selinux"} :
              outcome'[<<m, t>>] = "ok" => outcome[<<m, t>>] = "ok"
      BY <1>8, <2>1
    <2> QED
      BY <2>2 DEF CallsMade
  <1>11. \A d \in dbus : d.task \in TaskIds /\ d.task[1] \in 1 .. Count
    BY <1>6 DEF TypeOK, Brought, Started
  <1>12. Carried'
    BY <1>1, <1>4, <1>11 DEF Carried
  <1>13. Alone'
    <2>1. ASSUME overlapped'
          PROVE  n >= 2
      <3>1. CASE overlapped
        BY <1>2, <1>3, <3>1 DEF Alone
      <3>2. CASE ~NothingToDo
        <4>1. CASE dbus # {}
          BY <1>2, <1>3, <1>11, <4>1
        <4>2. CASE \E id \in TaskIds : Unfinished(id)
          BY <1>2, <1>3, <1>6, <4>2 DEF Unfinished
        <4> QED
          BY <3>2, <4>1, <4>2 DEF NothingToDo
      <3> QED
        BY <1>1, <2>1, <3>1, <3>2
    <2>2. ASSUME ~overlapped'
          PROVE  /\ \A id \in TaskIds : id[1] # n => ~Unfinished(id)'
                 /\ dbus = {}
      BY <1>1, <1>8, <2>2 DEF NothingToDo, Unfinished
    <2> QED
      BY <1>1, <1>5, <2>1, <2>2 DEF Alone
  <1>14. ASSUME ~overlapped'
         PROVE  ServicesOf(n)' /\ LayoutOf(n)' /\ TargetsOf(n)' /\ BootloaderOf(n)'
    <2>1. dbus' = {}
      BY <1>1, <1>14 DEF NothingToDo
    <2>2. \A t \in Tasks : <<n, t>> \in TaskIds /\ <<n, t>>[1] = n
      BY <1>2 DEF TaskIds
    <2>3. \A t \in Tasks : outcome'[<<n, t>>] # "ok" /\ work'[<<n, t>>] = 0
      BY <1>1, <1>7, <1>8, <2>2
    <2>4. {"iscsi", "storage", "bootloader", "selinux"} \subseteq Tasks
      BY TasksAssumption DEF AllTasks, Optional
    <2>5. ServicesOf(n)'
      BY <2>3, ServedTasks DEF ServicesOf
    <2>6. LayoutOf(n)' /\ TargetsOf(n)'
      BY <2>3, <2>4 DEF LayoutOf, TargetsOf, TargetsDone
    <2>7. BootloaderOf(n)'
      BY <2>1, <2>3, <2>4 DEF BootloaderOf
    <2> QED
      BY <2>5, <2>6, <2>7
  <1>15. LastHas'
    BY <1>5, <1>14 DEF LastHas
  <1>16. ASSUME AtMostTwo'
         PROVE  /\ AtMostTwo
                /\ Count # 0 => ~overlapped
    <2>1. overlapped => n <= 2
      BY <1>1, <1>5, <1>16 DEF AtMostTwo
    <2>2. overlapped => Count >= 2
      BY DEF Alone
    <2> QED
      BY <1>2, <1>3, <2>1, <2>2 DEF AtMostTwo
  <1>17. \A m \in 1 .. Count : ToProbe(m) => ToProbe(m)' /\ m \in 1 .. n
    <2> SUFFICES ASSUME NEW m \in 1 .. Count, ToProbe(m)
                 PROVE  ToProbe(m)' /\ m \in 1 .. n
      OBVIOUS
    <2>1. m \in 1 .. n
      BY <1>2, <1>3
    <2>2. config'[m] = config[m] /\ (m # 1 => config'[m - 1] = config[m - 1])
      <3>1. m # 1 => m - 1 \in 1 .. Count
        BY <1>2
      <3> QED
        BY <1>4, <3>1
    <2>3. ForceStorageProbe(m)'
      BY <2>2 DEF ToProbe, ForceStorageProbe, OldIscsi
    <2> QED
      BY <1>1, <2>1, <2>3 DEF ToProbe, PendingOf
  <1>18. ASSUME AtMostTwo', NEW m \in Numbers, m + 1 = n, TargetsDone(m)',
                config'[m].iscsi # NoValue
         PROVE  Settled(m)'
    <2>1. m = Count /\ m \in 1 .. Count
      BY <1>2, <1>3, <1>18, UpToCount
    <2>2. ~overlapped
      BY <1>2, <1>16, <1>18, <2>1
    <2>3. TargetsOf(m)
      BY <2>1, <2>2 DEF LastHas
    <2>4. TargetsDone(m)
      BY <1>1, <1>18 DEF TargetsDone, PendingOf
    <2>5. Settled(m)
      BY <1>4, <1>18, <2>1, <2>3, <2>4 DEF TargetsOf
    <2>6. config'[m] = config[m]
      BY <1>4, <2>1
    <2> QED
      BY <1>1, <2>5, <2>6 DEF Settled, Configured
  <1>19. Probing'
    <2>1. ASSUME AtMostTwo'
          PROVE  \/ storage.probed = iscsi.connected \/ Unprobed'
                 \/ \E m \in 1 .. n : ToProbe(m)'
      <3>1. \/ storage.probed = iscsi.connected \/ Unprobed
            \/ \E m \in 1 .. Count : ToProbe(m)
        BY <1>16, <2>1 DEF Probing
      <3> QED
        BY <1>1, <1>17, <3>1 DEF Unprobed
    <2>2. \A x, k : PendingOf(x, k)' <=> PendingOf(x, k)
      BY <1>1 DEF PendingOf
    <2> QED
      BY <1>1, <1>5, <1>18, <2>1, <2>2 DEF Probing
  <1> QED
    BY <1>9, <1>10, <1>12, <1>13, <1>15, <1>19

LEMMA InitFollows ==
    ASSUME Init
    PROVE  FollowInv
  <1>1. /\ config = <<>> /\ dbus = {} /\ work = [id \in TaskIds |-> 0]
        /\ outcome = [id \in TaskIds |-> "absent"]
        /\ storage = [config |-> Never, probed |-> Never, solved |-> Never]
        /\ overlapped = FALSE
    BY DEF Init, Graph!Init
  <1>2. IInv
    BY InitIInv
  <1>3. Count = 0
    <2>1. DOMAIN config = {}
      BY <1>1
    <2> QED
      BY <2>1, FS_EmptySet DEF Count
  <1>4. \A n \in Numbers : n # 0 /\ n + 1 # 0
    BY NumbersRange
  <1>5. \A n \in Numbers : /\ <<n, "iscsi">> \in TaskIds /\ <<n, "storage">> \in TaskIds
                           /\ <<n, "bootloader">> \in TaskIds /\ <<n, "selinux">> \in TaskIds
    BY Present
  <1>6. NoneFails
    BY <1>1 DEF NoneFails
  <1>7. CallsMade
    BY <1>1, <1>5 DEF CallsMade
  <1>8. Carried
    BY <1>1 DEF Carried
  <1>9. Alone
    BY <1>1 DEF Alone, Unfinished
  <1>10. LastHas
    BY <1>3, <1>4 DEF LastHas
  <1>11. Probing
    <2>1. \A n \in Numbers : work[<<n, "storage">>] # 2
      <3> SUFFICES ASSUME NEW n \in Numbers
                   PROVE  work[<<n, "storage">>] # 2
        OBVIOUS
      <3>1. work[<<n, "storage">>] = 0
        BY <1>1, <1>5
      <3> QED
        BY <3>1
    <2>2. storage.config = Never /\ Unprobed
      BY <1>1 DEF Unprobed
    <2>3. \A n \in Numbers : n + 1 # Count
      BY <1>3, <1>4
    <2> QED
      BY <2>1, <2>2, <2>3 DEF Probing
  <1> QED
    BY <1>6, <1>7, <1>8, <1>9, <1>10, <1>11 DEF FollowInv

LEMMA StepFollows ==
    ASSUME IInv, FollowInv, MayFail = {}, MayRefuse = {}, [Next]_vars
    PROVE  FollowInv'
  <1>1. ASSUME NEW c \in Configs, SetConfig(c)
        PROVE  FollowInv'
    BY <1>1, SetConfigFollows
  <1>2. ASSUME NEW id \in TaskIds, TaskStep(id)
        PROVE  FollowInv'
    <2>1. CASE Start(id) \/ Cancel(id)
      <3>1. outcome[id] # "running" /\ Moves(id)
        BY <2>1 DEF Start, Cancel, Moves, Graph!Start, Graph!Cancel
      <3>2. /\ UNCHANGED <<full_config, dbus, devices, overlapped, selinux_selected>>
            /\ applied' = applied
        BY <2>1 DEF Start, Cancel, services
      <3> QED
        BY <3>1, <3>2, MoveFollows
    <2>2. CASE OneCall(id)
      <3>1. /\ id[2] \in {"files", "pre_scripts", "access", "users", "ntp", "network"}
            /\ outcome[id] = "running" /\ Done(id, "ok") /\ config' = config
            /\ applied' = [applied EXCEPT ![id[2]] = id[1]]
            /\ UNCHANGED <<full_config, dbus, devices, overlapped, selinux_selected>>
        BY <2>2 DEF OneCall, Running
      <3>2. Moves(id)
        BY <3>1, EndMoves
      <3>3. applied'[id[2]] = id[1]
        BY <3>1 DEF IInv, TypeOK, AllTasks, Optional
      <3>4. id[2] \notin {"iscsi", "storage", "bootloader", "selinux"}
        BY <3>1
      <3> QED
        BY <3>1, <3>2, <3>3, <3>4, MoveFollows
    <2>3. CASE Answered(id)
      <3>1. /\ id[2] \in {"iscsi", "storage", "bootloader"}
            /\ id[2] = "iscsi" => work[id] = 1
            /\ id[2] = "storage" => work[id] = 2
            /\ id[2] = "bootloader" => work[id] = 1
            /\ outcome[id] = "running" /\ Done(id, "ok") /\ config' = config
            /\ applied' = applied
            /\ UNCHANGED <<full_config, dbus, devices, overlapped, selinux_selected>>
        BY <2>3 DEF Answered, AwaitAnswer, Running, services
      <3>2. Moves(id)
        BY <3>1, EndMoves
      <3>3. id[2] \notin Served /\ id[2] # "selinux"
        BY <3>1, ServedTasks
      <3> QED
        BY <3>1, <3>2, <3>3, MoveFollows
    <2>4. CASE SoftwareSetConfig(id)
      <3>1. /\ id[2] = "software"
            /\ outcome[id] = "running" /\ Done(id, "ok") /\ config' = config
            /\ applied' = [applied EXCEPT !["software"] = id[1]]
            /\ UNCHANGED <<full_config, dbus, devices, overlapped, selinux_selected>>
        BY <2>4 DEF SoftwareSetConfig, Running
      <3>2. Moves(id)
        BY <3>1, EndMoves
      <3>3. applied'[id[2]] = id[1]
        BY <3>1 DEF IInv, TypeOK, AllTasks
      <3>4. id[2] \notin {"iscsi", "storage", "bootloader", "selinux"}
        BY <3>1
      <3> QED
        BY <3>1, <3>2, <3>3, <3>4, MoveFollows
    <2> QED
      BY <1>2, <2>1, <2>2, <2>3, <2>4, IscsiCallFollows, StorageProbeFollows,
         StorageSetConfigFollows, BootloaderSetConfigFollows, SetResolvablesForFollows,
         IsPatternSelectedFollows, SetKernelArgFollows DEF TaskStep
  <1>3. ASSUME DBusService
        PROVE  FollowInv'
    BY <1>3, ConfigureIscsiFollows, ProbeFollows, ConfigureStorageFollows,
       ConfigureBootloaderFollows DEF DBusService, Refuse
  <1>4. ASSUME UNCHANGED vars
        PROVE  FollowInv'
    <2>1. /\ config' = config /\ outcome' = outcome /\ work' = work
          /\ selinux_selected' = selinux_selected
          /\ applied' = applied /\ full_config' = full_config
          /\ dbus' = dbus /\ iscsi' = iscsi /\ storage' = storage /\ boot' = boot
          /\ overlapped' = overlapped
      BY <1>4 DEF vars, graph, services, devices
    <2>2. Count' = Count
      BY <2>1 DEF Count
    <2>3. /\ \A x, k : PendingOf(x, k)' <=> PendingOf(x, k)
          /\ \A n : TargetsDone(n)' <=> TargetsDone(n)
          /\ \A n : ToProbe(n)' <=> ToProbe(n)
      BY <2>1 DEF PendingOf, TargetsDone, ToProbe, ForceStorageProbe, OldIscsi
    <2>4. NoneFails' /\ CallsMade' /\ Carried' /\ Alone'
      BY <2>1, <2>2 DEF FollowInv, NoneFails, CallsMade, Carried, Alone, Unfinished
    <2>5. LastHas'
      BY <2>1, <2>2, <2>3, SettledStays
          DEF FollowInv, LastHas, ServicesOf, LayoutOf, TargetsOf,
                              BootloaderOf
    <2>6. Probing'
      BY <2>1, <2>2, <2>3, SettledStays DEF FollowInv, Probing, AtMostTwo, Unprobed
    <2> QED
      BY <2>4, <2>5, <2>6 DEF FollowInv
  <1> QED
    BY <1>1, <1>2, <1>3, <1>4 DEF Next

\* When nothing is left to do, every task of a configuration has ended well.
LEMMA AllDone ==
    ASSUME IInv, FollowInv, NothingToDo, NEW n \in 1 .. Count
    PROVE  /\ n \in Numbers
           /\ \A t \in TasksOf(config[n]) : outcome[<<n, t>>] = "ok"
           /\ \A x, k : ~PendingOf(x, k)
  <1> USE DEF IInv, FollowInv
  <1>1. n \in Numbers
    BY UpToCount
  <1>2. ASSUME NEW t \in TasksOf(config[n])
        PROVE  outcome[<<n, t>>] = "ok"
    <2>1. <<n, t>> \in TaskIds /\ n \in DOMAIN config
      BY <1>1, <1>2, TasksOfConfig, Counted DEF TaskIds
    <2>2. outcome[<<n, t>>] # "absent"
      BY <1>2, <2>1 DEF Submission
    <2>3. outcome[<<n, t>>] \notin {"pending", "running"}
      BY <2>1 DEF NothingToDo, Unfinished
    <2> QED
      BY <2>1, <2>2, <2>3, TypeOfGraph DEF NoneFails
  <1> QED
    BY <1>1, <1>2 DEF NothingToDo, PendingOf

LEMMA ProductTasks ==
    ASSUME NEW c, c.product
    PROVE  NeedsProduct \subseteq TasksOf(c)
  BY TasksAssumption DEF NeedsProduct, TasksOf, AllTasks, Optional

LEMMA SystemFollows ==
    ASSUME IInv, FollowInv
    PROVE  SystemFollowsLast
  <1>1. Count \in Nat
    BY UpToCount DEF IInv
  <1>2. LastConfigApplied
    <2> SUFFICES ASSUME NothingToDo, Count > 0, ~overlapped, config[Count].product
                 PROVE  /\ \A t \in TasksOf(config[Count]) \ (NeedsProduct \union {"iscsi"}) :
                              applied[t] = Count
                        /\ applied["software"] = Count
                        /\ storage.config = config[Count].storage
                        /\ config[Count].iscsi # NoValue =>
                              /\ iscsi.connected
                                    = config[Count].iscsi.targets \intersect iscsi.nodes
                              /\ config[Count].iscsi.initiator \in {NoValue, iscsi.initiator}
                        /\ boot.config = Count /\ boot.selinux = Count
                        /\ \A k \in BootKeys :
                              /\ k \in Given(Count) \ Overridden(Count) => boot.keys[k] = Count
                              /\ k \in Overridden(Count) => boot.keys[k] = 0
      BY DEF LastConfigApplied, Last
    <2>1. PICK n : n = Count
      OBVIOUS
    <2>2. n \in 1 .. Count
      BY <1>1, <2>1
    <2>3. /\ n \in Numbers
          /\ \A t \in TasksOf(config[n]) : outcome[<<n, t>>] = "ok"
          /\ \A x, k : ~PendingOf(x, k)
      BY <2>2, AllDone
    <2>4. ServicesOf(n) /\ LayoutOf(n) /\ TargetsOf(n) /\ BootloaderOf(n)
      BY <2>1, <2>3 DEF FollowInv, LastHas
    <2>5. /\ outcome[<<n, "storage">>] = "ok" /\ outcome[<<n, "software">>] = "ok"
          /\ outcome[<<n, "bootloader">>] = "ok" /\ outcome[<<n, "selinux">>] = "ok"
      BY <2>1, <2>3, ProductTasks DEF NeedsProduct
    <2>6. outcome[<<n, "iscsi">>] = "ok"
      BY <2>3, TasksOfConfig
    <2>7. work[<<n, "storage">>] = 2 /\ work[<<n, "iscsi">>] = 1
      BY <2>3, <2>5, <2>6 DEF FollowInv, CallsMade
    <2>8. \A t \in TasksOf(config[n]) \ (NeedsProduct \union {"iscsi"}) : applied[t] = n
      <3> SUFFICES ASSUME NEW t \in TasksOf(config[n]), t \notin NeedsProduct, t # "iscsi"
                   PROVE  applied[t] = n
        OBVIOUS
      <3>1. t \in Served
        BY TasksAssumption, TasksOfConfig DEF Served, NeedsProduct, AllTasks, Optional
      <3> QED
        BY <2>3, <2>4, <3>1 DEF ServicesOf
    <2>9. applied["software"] = n
      BY <2>4, <2>5 DEF ServicesOf, Served
    <2>10. storage.config = config[n].storage
      BY <2>3, <2>4, <2>7 DEF LayoutOf
    <2>11. config[n].iscsi # NoValue =>
              /\ iscsi.connected = config[n].iscsi.targets \intersect iscsi.nodes
              /\ config[n].iscsi.initiator \in {NoValue, iscsi.initiator}
      BY <2>3, <2>4, <2>7 DEF TargetsOf, TargetsDone, Settled
    <2>12. boot.config = n /\ boot.selinux = n
      BY <2>3, <2>4, <2>5 DEF BootloaderOf
    <2>13. \A k \in BootKeys :
              /\ k \in Given(n) \ Overridden(n) => boot.keys[k] = n
              /\ k \in Overridden(n) => boot.keys[k] = 0
      <3>1. boot.keys = Merged(boot.keys, n)
        BY <2>12 DEF IInv, Sound
      <3>2. \A k \in BootKeys :
               boot.keys[k] = IF k \in Overridden(n) THEN 0
                              ELSE IF k \in Given(n) THEN n ELSE boot.keys[k]
        BY <3>1, Zenon DEF Merged
      <3> QED
        BY <3>2
    <2> QED
      BY <2>1, <2>8, <2>9, <2>10, <2>11, <2>12, <2>13
  <1>3. DevicesProbed
    <2> SUFFICES ASSUME NothingToDo, Count > 0, \A n \in DOMAIN config : config[n].product,
                        AtMostTwo
                 PROVE  /\ storage.probed = iscsi.connected
                        /\ storage.solved = iscsi.connected
      BY DEF DevicesProbed, Last, AtMostTwo
    <2>1. \A n \in 1 .. Count : /\ n \in Numbers
                                /\ outcome[<<n, "storage">>] = "ok"
                                /\ \A x, k : ~PendingOf(x, k)
      BY AllDone, ProductTasks, Counted DEF NeedsProduct, IInv
    <2>2. \A n \in 1 .. Count : work[<<n, "storage">>] = 2
      BY <2>1 DEF FollowInv, CallsMade
    <2>3. 1 \in 1 .. Count
      BY <1>1
    <2>4. ~Unprobed
      BY <2>1, <2>2, <2>3 DEF FollowInv, Probing, Unprobed
    <2>5. \A n \in 1 .. Count : ~ToProbe(n)
      <3> SUFFICES ASSUME NEW n \in 1 .. Count
                   PROVE  ~ToProbe(n)
        OBVIOUS
      <3>1. work[<<n, "storage">>] # 0
        BY <2>2
      <3> QED
        BY <2>1, <3>1 DEF ToProbe
    <2>6. storage.config # Never
      BY <2>1, <2>2, <2>3 DEF FollowInv, Probing
    <2> QED
      BY <2>4, <2>5, <2>6 DEF FollowInv, Probing
  <1> QED
    BY <1>2, <1>3 DEF SystemFollowsLast

\* If no call fails and the D-Bus service refuses none, the system ends up as the last
\* configuration says when clients wait, and the proposal is about the devices there are,
\* for two configurations that overlap as well (actions.rs 476-490): whoever brings other
\* targets probes after it.
THEOREM SystemFollowsLastAlways ==
    ASSUME MayFail = {}, MayRefuse = {}
    PROVE  Spec => []SystemFollowsLast
  <1>1. Init => IInv /\ FollowInv
    BY InitIInv, InitFollows
  <1>2. IInv /\ FollowInv /\ [Next]_vars => (IInv /\ FollowInv)'
    BY StepKeepsIInv, StepFollows
  <1>3. IInv /\ FollowInv => SystemFollowsLast
    BY SystemFollows
  <1> QED
    BY <1>1, <1>2, <1>3, PTL DEF Spec

=============================================================================
