------------------------------ MODULE ConfigTasks ------------------------------
(***************************************************************************)
(* What the manager service does with a configuration                      *)
(* (rust/agama-manager/src/actions.rs, SetConfigAction): a graph of tasks  *)
(* that hand its sections to the services and, at the end, collect in the  *)
(* software service what every service needs installed.                    *)
(*                                                                         *)
(* The tasks are those of module TaskGraph.  Storage, iSCSI and bootloader *)
(* live in a D-Bus service of their own (service/lib/agama): the calls to  *)
(* it are made by background tasks (storage client, run_in_background), so *)
(* dbus is a set; the service takes them one by one, in any order.         *)
(*                                                                         *)
(* The manager takes one request at a time and does not wait for tasks, so *)
(* the tasks of two configurations may overlap.  A configuration is known  *)
(* by its number; its iSCSI and storage sections have values, and of its   *)
(* bootloader section it is said which keys it gives.  Of iSCSI, logins    *)
(* that fail, credentials, locked targets and what a client discovers or   *)
(* connects by hand are left out.                                          *)
(*                                                                         *)
(* The tasks of s390 are those of iSCSI over again, and the tasks that no  *)
(* other one looks at (questions, security, hostname, proxy, l10n) are     *)
(* like "users" without its call: they are left out.  The tasks of one     *)
(* request are added at once: they only see each other.                    *)
(***************************************************************************)
EXTENDS Naturals, FiniteSets

CONSTANTS MaxConfigs,   \* bound on the configurations written
          Configs,      \* the configurations that clients may write
          NoValue,      \* a section, or a part of it, that is not in a configuration
          Never,        \* of a system that was not probed, a proposal not calculated
          Targets,      \* the iSCSI targets,
          Discovered,   \* those that are discovered before the first configuration,
          Unreachable,  \* those whose portal does not answer,
          Unsaid,       \* and those for which no configuration says the startup mode
          Initiators,   \* the names of the initiator
          Layouts,      \* the values of the storage section
          Tasks,        \* the tasks of an instance, see TasksAssumption
          MayFail,      \* the tasks whose call may end in an error
          MayRefuse     \* the calls that the D-Bus service may refuse

\* Nothing waits for these but the software task.
Optional == {"access", "users", "ntp"}
AllTasks ==
    {"files", "pre_scripts", "network", "iscsi", "storage", "bootloader", "software",
     "selinux"} \union Optional

ASSUME BoundsAssumption == MaxConfigs \in Nat \ {0}
ASSUME TasksAssumption == Tasks \subseteq AllTasks /\ AllTasks \ Optional \subseteq Tasks
ASSUME MayFailAssumption ==
    MayFail \subseteq {"files", "pre_scripts", "network", "software", "selinux"}
ASSUME MayRefuseAssumption == MayRefuse \subseteq {"iscsi", "storage", "bootloader"}

VARIABLES
    config,                 \* the configurations written, by number
    outcome, deps, always,  \* the graph of tasks
    work,                   \* per task, the calls it has done
    selinux_selected,       \* per configuration, the software that task "selinux" saw
    applied,                \* per service, the configuration it was given last
    full_config,            \* the bootloader client: configuration and kernel argument
    selection,              \* the software service: what each service needs
    dbus,                   \* the calls on the way to the D-Bus service
    iscsi,                  \* the D-Bus service: the initiator and the iSCSI targets,
    storage,                \* the storage configuration, devices and proposal,
    boot,                   \* and the bootloader
    overlapped              \* whether a configuration came before the last one ended

graph == <<outcome, deps, always>>
services == <<applied, full_config, selection>>
devices == <<iscsi, storage, boot>>
vars == <<config, graph, work, selinux_selected, services, dbus, devices, overlapped>>

Numbers == 1 .. MaxConfigs
TaskIds == Numbers \X Tasks

Graph == INSTANCE TaskGraph

BootKeys == {"timeout", "stopOnBootMenu", "extraKernelParams", "updateNvram"}
IscsiSection == [targets : SUBSET Targets, initiator : Initiators \union {NoValue}]
Sections == IscsiSection \union {NoValue}
StorageSections == Layouts \union {NoValue}
ConfigType == [product : BOOLEAN, network : BOOLEAN, iscsi : Sections,
               storage : StorageSections, bootloader : SUBSET BootKeys]
FullConfig == [config : 0 .. MaxConfigs, selinux : 0 .. MaxConfigs]
\* The devices that were found: the targets that were connected.
Devices == {Never} \union SUBSET Targets
IscsiType == [initiator : Initiators \union {NoValue}, nodes : SUBSET Targets,
              connected : SUBSET Targets]
StorageType == [config : StorageSections \union {Never}, probed : Devices,
                solved : Devices]
BootType == [config : 0 .. MaxConfigs, selinux : 0 .. MaxConfigs,
             keys : [BootKeys -> 0 .. MaxConfigs]]
ASSUME ConfigsAssumption == Configs \subseteq ConfigType
ASSUME NeverAssumption ==
    Never \notin StorageSections /\ \A found \in SUBSET Targets : found # Never
ASSUME TargetsAssumption ==
    /\ Discovered \subseteq Targets
    /\ Unreachable \subseteq Targets
    /\ Unsaid \subseteq Targets

\* The services that need packages, in the order the software task asks them.
Providers == <<"access", "files", "ntp", "storage", "bootloader">>
ProviderSet == {"access", "files", "ntp", "storage", "bootloader"}

\* What a service answers to GetResolvables depends on its configuration alone.  The
\* access service also counts what the users service asked for.
Resolvables(provider) ==
    [access     |-> <<applied["access"], applied["users"]>>,
     files      |-> <<applied["files"]>>,
     ntp        |-> <<applied["ntp"]>>,
     storage    |-> <<storage.config, storage.solved>>,
     bootloader |-> <<boot.keys>>][provider]

Call(kind, id, data) == [kind |-> kind, task |-> id, data |-> data]
\* The calls that a task sends and those whose answer it waits for.
PendingOf(id, kind) == \E c \in dbus : c.task = id /\ c.kind = kind

TypeOK ==
    /\ \E n \in 0 .. MaxConfigs : config \in [1 .. n -> ConfigType]
    /\ Graph!TypeOK
    /\ work \in [TaskIds -> 0 .. 5]
    /\ selinux_selected \in [Numbers -> 0 .. MaxConfigs]
    /\ applied \in [AllTasks -> 0 .. MaxConfigs]
    /\ full_config \in FullConfig
    /\ DOMAIN selection = ProviderSet
    /\ \A c \in dbus :
        /\ c.kind \in {"iscsi", "probe", "storage", "bootloader"}
        /\ c.task \in TaskIds
        /\ c.kind = "iscsi" => c.data \in Sections
        /\ c.kind = "storage" => c.data \in StorageSections
        /\ c.kind = "bootloader" => c.data \in FullConfig
    /\ iscsi \in IscsiType /\ storage \in StorageType /\ boot \in BootType
    /\ overlapped \in BOOLEAN

Init ==
    /\ config = <<>>
    /\ Graph!Init
    /\ work = [id \in TaskIds |-> 0]
    /\ selinux_selected = [n \in Numbers |-> 0]
    /\ applied = [t \in AllTasks |-> 0]
    /\ full_config = [config |-> 0, selinux |-> 0]
    /\ selection = [p \in ProviderSet |-> <<>>]
    /\ dbus = {}
    /\ iscsi = [initiator |-> NoValue, nodes |-> Discovered, connected |-> {}]
    /\ storage = [config |-> Never, probed |-> Never, solved |-> Never]
    /\ boot = [config |-> 0, selinux |-> 0, keys |-> [k \in BootKeys |-> 0]]
    /\ overlapped = FALSE

-----------------------------------------------------------------------------
(* A request: the tasks of a configuration.                                *)

Count == Cardinality(DOMAIN config)
Ended(id) == outcome[id] \in {"ok", "failed", "cancelled"}
Unfinished(id) == outcome[id] \in {"pending", "running"}
NothingToDo == dbus = {} /\ \A id \in TaskIds : ~Unfinished(id)

NeedsProduct == {"storage", "bootloader", "software", "selinux"}
TasksOf(c) ==
    {t \in Tasks : /\ t = "network" => c.network
                   /\ t \in NeedsProduct => c.product}

\* Bugs to try: a dependency that was forgotten.
IscsiBeforeNetwork == {"pre_scripts"}
SoftwareBeforeNtp == {"files", "pre_scripts", "storage", "bootloader"}

ServiceDependencies == {"pre_scripts"}
IscsiDependencies == {"pre_scripts", "network"}
SoftwareDependencies == {"files", "pre_scripts", "storage", "bootloader", "ntp"}

DependenciesOf(t) ==
    IF t \in Optional \union {"network"} THEN ServiceDependencies
    ELSE [files       |-> {},
          pre_scripts |-> {"files"},
          iscsi       |-> IscsiDependencies,
          storage     |-> {"pre_scripts", "iscsi"},
          bootloader  |-> {"pre_scripts", "storage"},
          software    |-> SoftwareDependencies,
          selinux     |-> {"software"}][t]

SetConfig(c) ==
    /\ Count < MaxConfigs
    /\ LET n == Count + 1
           Added(id) == id[1] = n /\ id[2] \in TasksOf(c)
       IN  /\ config' = [i \in 1 .. n |-> IF i = n THEN c ELSE config[i]]
           /\ outcome' = [id \in TaskIds |-> IF Added(id) THEN "pending" ELSE outcome[id]]
           /\ deps' = [id \in TaskIds |->
                        IF Added(id)
                        THEN {n} \X (DependenciesOf(id[2]) \intersect TasksOf(c))
                        ELSE deps[id]]
    /\ overlapped' = (overlapped \/ ~NothingToDo)
    /\ UNCHANGED <<always, work, selinux_selected, services, dbus, devices>>

\* old_config is the configuration of the manager, whether it was applied or not.
OldIscsi(n) == IF n = 1 THEN NoValue ELSE config[n - 1].iscsi
\* A bug to try: only the first configuration asks for it.
ForceFirstProbe(n) == n = 1
ForceStorageProbe(n) == config[n].iscsi # OldIscsi(n)

-----------------------------------------------------------------------------
(* The tasks.                                                              *)

Start(id) ==
    /\ Graph!Start(id)
    /\ UNCHANGED <<config, work, selinux_selected, services, dbus, devices, overlapped>>

\* A bug to try: a task is cancelled if all its dependencies failed.
CancelAllFailed(id) ==
    /\ Graph!Cancel(id)
    /\ Graph!FailedDeps(id) = deps[id]
    /\ UNCHANGED <<config, work, selinux_selected, services, dbus, devices, overlapped>>

Cancel(id) ==
    /\ Graph!Cancel(id)
    /\ UNCHANGED <<config, work, selinux_selected, services, dbus, devices, overlapped>>

Running(id, task, step) ==
    /\ outcome[id] = "running"
    /\ id[2] = task
    /\ work[id] = step

Done(id, result) ==
    /\ outcome' = [outcome EXCEPT ![id] = result]
    /\ UNCHANGED <<deps, always, work>>

NextCall(id) ==
    /\ work' = [work EXCEPT ![id] = @ + 1]
    /\ UNCHANGED graph

\* The tasks that do one call.  A pre-installation script may do anything, but not to
\* the services; a call that fails may have been applied or not (network: it is
\* update_config or apply that fails).
OneCall(id) ==
    /\ \E t \in {"files", "pre_scripts", "access", "users", "ntp", "network"} :
        Running(id, t, 0)
    /\ \/ /\ Done(id, "ok")
          /\ applied' = [applied EXCEPT ![id[2]] = id[1]]
       \/ /\ id[2] \in MayFail
          /\ Done(id, "failed")
          /\ applied' \in {applied, [applied EXCEPT ![id[2]] = id[1]]}
    /\ UNCHANGED <<config, selinux_selected, full_config, selection, dbus, devices,
                   overlapped>>

IscsiCall(id) ==
    /\ Running(id, "iscsi", 0)
    /\ dbus' = dbus \union {Call("iscsi", id, config[id[1]].iscsi)}
    /\ NextCall(id)
    /\ UNCHANGED <<config, selinux_selected, services, devices, overlapped>>

\* The storage client answers to Probe before the D-Bus service knows of it.
StorageProbe(id) ==
    /\ Running(id, "storage", 0)
    /\ IF ForceStorageProbe(id[1])
       THEN dbus' = dbus \union {Call("probe", id, NoValue)}
       ELSE UNCHANGED dbus
    /\ NextCall(id)
    /\ UNCHANGED <<config, selinux_selected, services, devices, overlapped>>

StorageSetConfig(id) ==
    /\ Running(id, "storage", 1)
    /\ dbus' = dbus \union {Call("storage", id, config[id[1]].storage)}
    /\ NextCall(id)
    /\ UNCHANGED <<config, selinux_selected, services, devices, overlapped>>

BootloaderSetConfig(id) ==
    /\ Running(id, "bootloader", 0)
    /\ full_config' = [full_config EXCEPT !.config = id[1]]
    /\ dbus' = dbus \union {Call("bootloader", id, full_config')}
    /\ NextCall(id)
    /\ UNCHANGED <<config, selinux_selected, applied, selection, devices, overlapped>>

\* The task awaits the answer and ignores what it says.
AwaitAnswer(id, task, step) ==
    /\ Running(id, task, step)
    /\ ~PendingOf(id, task)
    /\ Done(id, "ok")
    /\ UNCHANGED <<config, selinux_selected, services, dbus, devices, overlapped>>

Answered(id) ==
    \/ AwaitAnswer(id, "iscsi", 1)
    \/ AwaitAnswer(id, "storage", 2)
    \/ AwaitAnswer(id, "bootloader", 1)

SetResolvablesFor(id) ==
    /\ \E k \in DOMAIN Providers :
        /\ Running(id, "software", k - 1)
        /\ selection' = [selection EXCEPT ![Providers[k]] = Resolvables(Providers[k])]
    /\ NextCall(id)
    /\ UNCHANGED <<config, selinux_selected, applied, full_config, dbus, devices,
                   overlapped>>

\* A bug to try: it is tried again after an error.
SoftwareSetConfigAgain(id) ==
    /\ Running(id, "software", Cardinality(ProviderSet))
    /\ \/ /\ Done(id, "ok")
          /\ applied' = [applied EXCEPT !["software"] = id[1]]
       \/ "software" \in MayFail /\ NextCall(id) /\ UNCHANGED applied
    /\ UNCHANGED <<config, selinux_selected, full_config, selection, dbus, devices,
                   overlapped>>

SoftwareSetConfig(id) ==
    /\ Running(id, "software", Cardinality(ProviderSet))
    /\ \/ /\ Done(id, "ok")
          /\ applied' = [applied EXCEPT !["software"] = id[1]]
       \/ /\ "software" \in MayFail
          /\ Done(id, "failed")
          /\ applied' \in {applied, [applied EXCEPT !["software"] = id[1]]}
    /\ UNCHANGED <<config, selinux_selected, full_config, selection, dbus, devices,
                   overlapped>>

IsPatternSelected(id) ==
    /\ Running(id, "selinux", 0)
    /\ selinux_selected' = [selinux_selected EXCEPT ![id[1]] = applied["software"]]
    /\ \/ NextCall(id)
       \/ "selinux" \in MayFail /\ Done(id, "failed")
    /\ UNCHANGED <<config, services, dbus, devices, overlapped>>

\* Nobody waits for the answer of this one.
SetKernelArg(id) ==
    /\ Running(id, "selinux", 1)
    /\ full_config' = [full_config EXCEPT !.selinux = selinux_selected[id[1]]]
    /\ dbus' = dbus \union {Call("bootloader", id, full_config')}
    /\ Done(id, "ok")
    /\ UNCHANGED <<config, selinux_selected, applied, selection, devices, overlapped>>

TaskStep(id) ==
    \/ Start(id) \/ Cancel(id)
    \/ OneCall(id)
    \/ IscsiCall(id)
    \/ StorageProbe(id) \/ StorageSetConfig(id)
    \/ BootloaderSetConfig(id)
    \/ Answered(id)
    \/ SetResolvablesFor(id) \/ SoftwareSetConfig(id)
    \/ IsPatternSelected(id) \/ SetKernelArg(id)

-----------------------------------------------------------------------------
(* The D-Bus service.                                                      *)

Take(c, kind) ==
    /\ c \in dbus
    /\ c.kind = kind
    /\ dbus' = dbus \ {c}
    /\ UNCHANGED <<config, graph, work, selinux_selected, services, overlapped>>

\* Manager#configured? of iSCSI: what was discovered is connected if the section has it
\* and only then.  A target of the section that is connected looks changed if its startup
\* mode is not said.
Configured(section) ==
    /\ section.initiator \in {NoValue, iscsi.initiator}
    /\ \A t \in iscsi.nodes :
        IF t \in section.targets THEN t \in iscsi.connected \ Unsaid
        ELSE t \notin iscsi.connected

\* Manager#configure of iSCSI.
ConnectTargets(section) ==
    LET nodes == iscsi.nodes \union (section.targets \ Unreachable)
    IN  [initiator |-> IF section.initiator = NoValue THEN iscsi.initiator
                       ELSE section.initiator,
         nodes |-> nodes,
         connected |-> section.targets \intersect nodes]

\* Nothing is done without a section, and nothing if there is nothing to change, which
\* is decided before the portals are asked: a target that was not discovered before does
\* not count.
ConfigureIscsi(c) ==
    /\ Take(c, "iscsi")
    /\ IF c.data = NoValue \/ Configured(c.data) THEN UNCHANGED iscsi
       ELSE iscsi' = ConnectTargets(c.data)
    /\ UNCHANGED <<storage, boot>>

\* configure_with_current: a proposal for the current configuration, if there is one.
Solve(found) == IF storage.config = Never THEN storage.solved ELSE found

Probe(c) ==
    /\ Take(c, "probe")
    /\ storage' = [storage EXCEPT !.probed = iscsi.connected,
                                 !.solved = Solve(iscsi.connected)]
    /\ UNCHANGED <<iscsi, boot>>

\* The first configuration finds the system unprobed.
ConfigureStorage(c) ==
    /\ Take(c, "storage")
    /\ IF c.data = storage.config THEN UNCHANGED storage
       ELSE LET probed == IF storage.probed = Never THEN iscsi.connected
                          ELSE storage.probed
            IN  storage' = [config |-> c.data, probed |-> probed, solved |-> probed]
    /\ UNCHANGED <<iscsi, boot>>

\* BootloaderConfig#load_json: the keys that are given replace those of before, and one
\* of two that conflict is no longer exported; the menu wins.  A key has the number of
\* the configuration whose value it has, or 0 if it is not exported.
Given(n) == IF n \in DOMAIN config THEN config[n].bootloader ELSE {}
Overridden(n) ==
    IF "stopOnBootMenu" \in Given(n) THEN {"timeout"}
    ELSE IF "timeout" \in Given(n) THEN {"stopOnBootMenu"} ELSE {}

Merged(keys, n) ==
    [k \in BootKeys |-> IF k \in Overridden(n) THEN 0
                       ELSE IF k \in Given(n) THEN n ELSE keys[k]]

\* The kernel arguments are always replaced.  The storage proposal is calculated again
\* unless the type of the bootloader changed, and no configuration sets that type.
ConfigureBootloader(c) ==
    /\ Take(c, "bootloader")
    /\ boot' = [config |-> c.data.config, selinux |-> c.data.selinux,
                keys |-> Merged(boot.keys, c.data.config)]
    /\ storage' = [storage EXCEPT !.solved = Solve(storage.probed)]
    /\ UNCHANGED iscsi

\* A configuration that is not valid; the background task logs it.
Refuse(c) ==
    /\ \E kind \in MayRefuse : Take(c, kind)
    /\ UNCHANGED devices

DBusService ==
    \E c \in dbus :
        \/ ConfigureIscsi(c) \/ Probe(c)
        \/ ConfigureStorage(c) \/ ConfigureBootloader(c)
        \/ Refuse(c)

Next ==
    \/ \E c \in Configs : SetConfig(c)
    \/ \E id \in TaskIds : TaskStep(id)
    \/ DBusService

\* The runtime runs every task, and the D-Bus service answers to every call.
Fairness ==
    /\ \A id \in TaskIds : WF_vars(TaskStep(id))
    /\ WF_vars(DBusService)

Spec == Init /\ [][Next]_vars /\ Fairness

-----------------------------------------------------------------------------
(* Properties.                                                             *)

Outcome(n, t) == outcome[<<n, t>>]
Last == Count

\* When the software is selected for a configuration, what the files, NTP, storage and
\* bootloader services asked for is what they need for that configuration: none of them
\* answered before it was configured (actions.rs 499-512).  For the first configuration,
\* if the D-Bus service accepts it.
SoftwareSeesServices ==
    (Last = 1 /\ Outcome(1, "software") = "ok") =>
        \A p \in ProviderSet \ {"access"} :
            (p = "storage" => storage.config # Never) => selection[p] = Resolvables(p)

\* A failure stops what depends on it and nothing else: whatever fails, the services that
\* only wait for the scripts get their section, and what follows a network that could not
\* be configured is not even tried.
FailureContained ==
    \A n \in DOMAIN config :
        (\A id \in {n} \X Tasks : ~Unfinished(id)) =>
            /\ Outcome(n, "pre_scripts") = "ok" =>
                \A t \in Tasks \intersect Optional : Outcome(n, t) = "ok"
            /\ Outcome(n, "network") = "failed" =>
                /\ \A c \in dbus : c.task[1] # n
                /\ boot.config # n /\ applied["software"] # n

\* Every task of a configuration ends, whatever fails and whatever is refused.
ConfigEnds ==
    \A id \in TaskIds : [](outcome[id] = "pending" => <>Ended(id))

\* When nothing is left to do for configurations with a product, the storage proposal was
\* calculated for the devices there are, those of the last iSCSI configuration included
\* (actions.rs 476-490), for a client that waits and for two configurations that overlap.
\* Of three that overlap, the first may be done between the other two: the last finds in
\* old_config the targets that it asks for itself, and nothing is probed after it.
DevicesProbed ==
    (/\ NothingToDo /\ Last > 0 /\ \A n \in DOMAIN config : config[n].product
     /\ overlapped => Last <= 2) =>
        storage.probed = iscsi.connected /\ storage.solved = iscsi.connected

\* If a client waits for everything to end before it writes the next configuration, the
\* services end up with the last one: the targets of its section that are discovered are
\* connected, and only they, and the keys of the bootloader that it gives are exported
\* and those that they override are not.  The other keys are those of before.
LastConfigApplied ==
    (NothingToDo /\ Last > 0 /\ ~overlapped /\ config[Last].product) =>
        /\ \A t \in TasksOf(config[Last]) \ (NeedsProduct \union {"iscsi"}) :
            applied[t] = Last
        /\ applied["software"] = Last
        /\ storage.config = config[Last].storage
        /\ config[Last].iscsi # NoValue =>
              /\ iscsi.connected = config[Last].iscsi.targets \intersect iscsi.nodes
              /\ config[Last].iscsi.initiator \in {NoValue, iscsi.initiator}
        /\ boot.config = Last /\ boot.selinux = Last
        /\ \A k \in BootKeys :
              /\ k \in Given(Last) \ Overridden(Last) => boot.keys[k] = Last
              /\ k \in Overridden(Last) => boot.keys[k] = 0

\* When nothing is left to do, the system is the one of the last configuration: of its
\* sections if the client waited, and of its devices for two that overlap as well.
SystemFollowsLast == LastConfigApplied /\ DevicesProbed
=============================================================================
