# Agama in TLA+

[Agama](../src/README.md) is an installer for Linux distributions: a server
written in Rust that holds the configuration of the system to install, checks
it, and carries the installation out with the help of a Ruby service (storage),
libzypp (packages) and NetworkManager. Command line, web interface and the
unattended installer are clients of its HTTP API and of a stream of events.

This directory models the parts of that server in which the order of events
matters: what runs at the same time, what waits for what, who is told of it,
and what is left behind when a step fails. The specifications are translated
from the code under `../src/rust`; paths below are relative to it. The map from
each definition to the lines it stands for is in `PROJECT.json`.

## 1. The system

Every service is an *actor* (`agama-utils/src/actor.rs`): a tokio task with an
unbounded FIFO mailbox that handles one message at a time. `call` sends a
message and awaits the answer, `cast` only sends it. Services share nothing but
those messages and one broadcast channel of events.

| Component | State | Operations | Talks to | What is hard | What makes it correct |
|---|---|---|---|---|---|
| Task manager (`agama-manager/src/task_manager.rs`) | next id, sets of succeeded and failed tasks, metadata of the others, behind a lock shared by clones | submit a task (`run`, `run_always`) with dependencies; ask for the metadata | sends TaskAdded, TaskStarted, TaskFinished | one tokio task per task, waiting for each other; failures cancel dependents | no lost wake-up; every task ends once; failures reach exactly the dependents; events agree with the graph |
| Progress service (`agama-utils/src/progress`) | stage, list of progresses | start, next, finish, set, set stage, queries | called by every other service; sends events | many writers that do not know of each other; a failed step leaves a progress open | a scope has one progress; steps stay in range; the events tell the status; every progress ends |
| Events channel (`agama-server/src/agama-web-server.rs`, `web/ws.rs`) | bounded broadcast buffer, a cursor per receiver | send, receive, subscribe | all services and all web sockets | slow receivers lag; a channel without receivers refuses to send | a client sees every event or is disconnected; sending does not fail |
| Manager service (`agama-manager/src/service.rs`) | configuration, product, system description, hardware | read and write the configuration, select the product, run the installation, finish, probe | all services, task manager, progress, issues, questions | its handlers call other services and wait; its tasks outlive the call that made them | the installation runs once; it starts when the system is ready; the stage says what happened |
| Configuration tasks (`agama-manager/src/actions.rs`, `SetConfigAction`) | none | one graph of tasks per configuration that is written | task manager, every service | sixteen tasks with their own dependencies, several graphs at once | a service gets its configuration after those it reads from; the last configuration wins |
| Installation (`actions.rs`, `InstallAction`, `FinishAction`; `checks.rs`) | none | check, install, finish | task manager, progress, issues, storage, software, ... | a chain of tasks that may fail at each step | stage and progress agree with what happened; the system is restarted only when installed |
| Questions (`agama-utils/src/question`) | list of questions, policy, answer rules | ask, answer, delete, configure | asked by any service, answered by a user, by rules or by a policy | asking polls; users, rules and other clients answer or delete at any time | an asked question gets an answer and goes away; nobody is asked in unattended mode |
| Issues (`agama-utils/src/issue`) | list of issues per scope | set, clear, get | written by all services, read by the installation checks | | what is reported is the last set |
| Software service (`agama-software/src/service.rs`, `model/state.rs`) | configuration, what other services ask for, what is wanted of libzypp, issues | set configuration, resolvables and locale, probe, install, finish, query | zypp thread, issues, manager | its handlers wait for the other thread while the mailbox fills; what it wants is built in many steps that overwrite each other; an issue may be the only trace of a failure | the product, the services and the user decide in this order; without issues, libzypp holds what is wanted; what is installed was wanted |
| zypp thread (`agama-software/src/zypp_server.rs`) | what libzypp holds, registration, trusted keys and repositories | write, install, finish, read | questions, progress, the channel of the caller | a thread of its own with blocking calls, each of which may fail and leave the handler early; questions of callbacks; it stops after finishing | each caller gets an answer or learns that there is none |
| Files and scripts (`agama-files`) | scripts and files of the configuration, logs of the scripts that ran | add scripts, run a group, write files | questions, progress, tasks of the manager | downloads and scripts that fail are asked about; the calls of several tasks interleave; a log tells what has run | a script runs once; nothing is left behind; the scripts end up as those of one configuration |
| Status monitor (`agama-lib/src/monitor.rs`) | copy of the status | follow the events, tell whether the system is idle | web socket, HTTP | a snapshot and a stream read at different moments | the copy converges; idle is reported when the system is idle |
| Storage (`agama-storage`, `agama-storage-client`, Ruby service) | configuration model, devices; D-Bus service behind | probe, set configuration, install, finish | D-Bus, progress, issues | D-Bus signals and calls in the background | the model is that of the last configuration |
| Network service (`agama-network`) | connections as they are wanted, the last configuration, a queue of actions | update, apply, propose; new and removed connections | NetworkManager, by D-Bus calls and signals | updating and applying are two actions; a write runs beside the queue, under a checkpoint that is rolled back when it fails; its own changes come back as signals | the service knows what NetworkManager has; no port without its controller; what is written is what was wanted |
| Users, l10n, hostname, proxy, NTP, security, access, bootloader, iSCSI, s390 | configuration of each | get, set, install | files of the system, D-Bus | mostly sequential | the written files are those of the configuration |
| Unattended installer (`agama-autoinstall`), command line (`agama-cli`), web interface (`web`), profile and URL handling (`agama-transfer`) | | clients of the API | HTTP, events | waiting for the right moment | they wait for the system to be idle |

### How the parts interact

- A client writes a configuration. The manager stores it and submits one graph
  of tasks (`SetConfigAction`) to the task manager, and answers. Each task calls
  a service; the storage, iSCSI and bootloader services pass the call on to a
  D-Bus service in background tasks. At the end the software task collects from
  the services the packages they need.
- A client asks for the installation. The manager checks stage, issues and
  progress, and submits a chain of tasks (`InstallAction`) whose last one always
  runs and writes the stage.
- Any of them may ask a question and wait for its answer, which comes from a
  user, a rule or the policy.
- Everything that changes is told on the channel of events. Clients ask for the
  status once and follow the events from there.

## 2. The modules

| Module | What it models | State | Actions |
|---|---|---|---|
| `TaskGraph` | What any user of tasks may rely on: a graph whose tasks are added, start after their dependencies, end or are cancelled | outcome, dependencies and kind of each task | `Add`, `Start`, `Cancel`, `Complete` |
| `TaskManager` | `agama-manager/src/task_manager.rs`, one action per critical section | the fields of `TaskManagerState`; the point of the code each task has reached; the events | `NextId`, `StoreMetadata`, `Spawn` for the caller; `LeaveLoop`, `Park`, `Cancel`, `Start`, `Succeed`, `Fail` for the task |
| `ProgressList`, `Progress` | `agama-utils/src/progress/service.rs` and `api/progress.rs`, one action per message | stage, list of progresses, events | `SetStage`, `SetProgress`, `Start`, `Advance`, `Finish` |
| `Questions` | `agama-utils/src/question/service.rs`, `question.rs` and the Ruby client, with the mailbox of the actor | list of questions, configuration, mailbox, the point and the locals of each asker | one per message, one per step of `ask_question` and `wait_answer`, the clients |
| `Installation` | `InstallAction`, `FinishAction`, `checks.rs`, the handlers of the manager that lead to them, `agama install` | stage and progresses (`ProgressList`), tasks (`TaskGraph`), the request in course and the next call of its handler, the clients | one per call of a handler or of a task |
| `ConfigTasks` | `SetConfigAction`, the background calls of the storage client, and what the Ruby service does with them (`dbus/storage`, `storage/iscsi/manager.rb`, `storage/bootloader_config.rb`): what is configured already, what is merged | the configurations, tasks (`TaskGraph`), what each service has, the calls on their way, initiator, targets and devices, bootloader keys | one per call of a task, one per call the D-Bus service takes |
| `StatusMonitor` | `agama-lib/src/monitor.rs`, `wait_until_idle`, the web socket handler | those of `TaskManager` and `Progress`, the socket, the copy the client has | those of both, `Subscribe`, `DropSocket`, the steps of the client |
| `SoftwareState` | `SoftwareStateBuilder` of `agama-software/src/model/state.rs`: the wanted software as operators on functions, and the same by priority as its reference | none | none |
| `ZyppServer` | `agama-software/src/zypp_server.rs`, each handler split at its progress and its questions | what libzypp holds, registration, trust, the job, the channel of the answer, the progress | one per step of `write`, `install`, `finish`, `proposal`, `system_info`; the user |
| `Software` | `agama-software/src/service.rs` on top of `ZyppServer`, and the part of the manager that calls it | mailbox, the handler that waits, configuration, wanted state, issues; product, issue and stage of the manager; the software tasks | one per message, one per answer of the thread, one per call of a task or request |
| `Files` | `agama-files` and the tasks that call it | scripts, logs, files, what is in the target, progress, mailbox, the handler and its question, the tasks | one per message and per step of a handler that asks, the answers, the tasks |
| `NmSettings` | `agama-network/src/nm/dbus.rs`: what a connection says as sections of keys, cleaning, merging and reading back, as operators on functions | none | none |
| `Network` | `agama-network` on top of it: the queue of actions, `NetworkState`, the adapter's write and the watcher | what NetworkManager has, what is wanted, queue, the write in progress, signals | one per action, one per call of a write, signals, another client of NetworkManager |

`TaskManager` implements `TaskGraph`; `Installation` and `ConfigTasks` are built
on `TaskGraph`, and `StatusMonitor` extends `Progress` and has a `TaskManager`.
So what is said of an installation holds for tasks run by the real task manager,
and what a client sees follows from the events that it sends. `Software` extends
`ZyppServer`, which extends `SoftwareState`, and `Network` extends `NmSettings`.
`TaskManagerProofs`, `StatusMonitorProofs`, `QuestionsProofs`,
`InstallationProofs`, `ConfigTasksProofs`, `SoftwareProofs`, `FilesProofs` and
`NetworkProofs` hold the proofs about the modules of the same name (`Progress`
with `StatusMonitor`, `NmSettings` with `Network`).

An actor's handler that only changes its own state is one action. A handler that
calls other services is one action per call, since others may call in between.
A message whose handler changes nothing (a query, an error before any change) is
not an action unless a client decides something on the answer.

Definitions that begin with "A bug to try" in their comment are not part of any
specification: each is a plausible mistake in one definition, and the property
it is paired with in `PROJECT.json` fails when it takes its place.

## 3. The runs

Each run is `tlc -config <cfg> <MC module>`.

| Run | Question | Bounds, and why they are enough |
|---|---|---|
| `task_manager` | Does the task manager wake up, cancel, end and tell what it should? Does it implement `TaskGraph`? | Three tasks, two overlapping callers: chain, fork, join and independent tasks, failures that reach a task directly and through another one. The theorems hold for any number. |
| `progress` | Does the list stay consistent whoever writes to it? | Two scopes, two steps, five messages: a scope that starts, is replaced, ends and starts again while the other one does too. The theorems hold for any number. |
| `questions` | Does who asks get an answer to that question, and is the list cleaned up? | One asker of each kind, a client that interferes once, every way of answering: with more of each nothing new can cross. The theorems hold for any number. |
| `questions_ruby_wait` | Does the Ruby client stop if its question is deleted, as its comment says? It does not. | as above |
| `installation` | Do stage, progress and restart agree with the outcome of the tasks? Is there one installation? | Two clients; two requests of any kind from the second one, which is what it takes to ask for two installations, or for one and a restart; every call may fail. The theorems hold for any number. |
| `config_one` | For one configuration: who comes first, what a failure stops, what the software service knows, does it end? | All the tasks; sections present or not; any of five tasks may fail, which are those with different dependents; the D-Bus service may refuse. The theorems hold for any number. |
| `config_pair` | Do two configurations leave a consistent system? | The tasks that others look at, no failures, two out of three configurations: two that differ in every section, of which one names the initiator and asks for a target that is discovered and one that is unreachable, and the other asks for one that is not discovered yet; and one without iSCSI and bootloader keys. The first two give keys of the bootloader that conflict, so that keys are merged, replaced and taken away. The theorems hold for any number, all tasks and whatever the configurations say; what they say of the devices is about two that overlap. |
| `monitor` | Does a client that asks and listens end up with the status? Does it stop? | Two tasks, so that something remains when one ends; one progress that may be there already and one event about it; a channel that keeps two events, so that lagging happens. The theorems hold for any number. |
| `software` | Is what libzypp gets, and what is installed, what was asked for, whatever fails? Does every handler end? | Two products, one of which is registered, one with required patterns and one with optional packages, both with preselected patterns; two patterns and two packages; four configurations (none, an unknown product, each of the two, which add and remove patterns); two services, of which one needs a package that the other can do without, so that their order matters; two requests of any kind; one new try of a failed commit. Two configurations are what it takes to change the product and the registration; every call of libzypp may fail. The theorems hold for any number. |
| `files` | Do scripts run once, does a run leave nothing behind, and do overlapping configurations settle? | Two configurations, which share the name of a script and between them have all groups but one; one installation; each question may be answered to try again once; the link may be impossible to make or to remove. Two tasks are enough to interleave. The theorems hold for any number. |
| `network` | Does the service know what the system has? Are ports and controllers consistent after every write? Is what was wanted written, through the conversion to the keys of NetworkManager and the merge with what it has? | A bond and its port, two tasks, three requests out of five configurations that create, change, split and remove them; one change of somebody else; one refused call, which may be that of a rollback; four of these in all (`MaxSpent`). One of each is what it takes for a write to race with a signal, a failure and the next configuration. Six options, one of each sort: always written, written when said, of an optional section, unknown to the reader, not set by a profile. The two tasks are interchangeable (`SYMMETRY`; the run has no liveness property). The theorems hold for any number. |
| `network_ports` | Does a bond keep the ports its configuration lists? It does not always. | as above, without failures and other clients |

`CHECK_DEADLOCK FALSE` is set in all of them: when every task has ended, no
client has to ask for anything and the system rests.

Bounds on what clients do (`MaxTasks`, `MaxCallers`, `MaxEvents`,
`MaxRequests`, `MaxInstalls`, `MaxConfigs`, `MaxRetries`, `MaxAttempts`,
`MaxExternal`, `MaxFaults`, `MaxSpent`) are guards of the actions that start
something new; nothing that has started is ever cut short by one.

### The properties

Besides a type invariant per module:

- *Task manager*: `NoLostWakeup`, `FailurePropagates` and `EventsFollowGraph`
  (the events of a task come once, in order, and agree with what happened to
  it), `EveryTaskEnds`, and `ImplementsGraph`, the refinement of `TaskGraph`.
- *Progress*: `UniqueScopes`, `StepInRange`.
- *Questions*: `OwnAnswer`, `LostOnlyIfDeleted`, `NoLeftovers`, `AskersReturn`.
- *Installation*: `OutcomeShown` puts together `OneInstallation`,
  `StageTellsOutcome`, `StepShown` and `HaltedOnlyInstalled`; `InstallationEnds`.
- *Configuration tasks*: `SoftwareSeesServices`, `FailureContained`,
  `ConfigEnds`; `SystemFollowsLast` puts together `LastConfigApplied` (for a
  client that waits) and `DevicesProbed` (for a client that waits, or for two
  configurations that overlap: with three it does not hold, see section 6). The
  first says what the code leaves, not that it is what was asked: of the targets
  those that are discovered, and besides the bootloader keys of the last
  configuration those of earlier ones that it neither gives nor overrides.
- *Status monitor*: `ViewConverges`, and `ClientsEnd` for both clients.
- *Software*: `WantedByPriority` compares what the builder makes with the
  reference by priority; the order of the hash map may decide which of two
  services is heard and nothing else; `NoIssuesInSync` says
  that no failure of a write goes unnoticed; `InstalledIsWanted`;
  `ServiceReturns`.
- *Files*: `RanOnce`, `Tidy`, `ScriptsSettle`, `ServiceHasPackage`,
  `HandlersEnd`. Their conditions (`spoilt`) name what the code does not handle:
  a question that is deleted, a link that cannot be made or removed, an
  installation that starts while configurations are on their way. `Tidy` tells
  these apart: a link that cannot be made leaves a progress and no link, one
  that cannot be removed leaves the link and no progress.
- *Network*: `SystemKnown`, `PortsKeepController`, `WrittenAsWanted`. Their
  conditions say when they are not promised: while something is under way,
  after a refused deletion, when the rollback is refused as well (then what was
  written so far stays), when somebody else changes the system, when the
  service did not know a port as the write began.
  `WrittenAsWanted` reads back what was written: what is said and can reach
  NetworkManager is there (`Reaches` names what cannot: a section that it lacks,
  a gateway without addresses, what a disabled IP says), what is always written
  has its default again when nothing is said, and the keys Agama does not know
  stay (`KeepsUnknown`).

### What the runs with a violation show

- *The Ruby client waits for ever* (`RubyWaitEnds`): `wait_answer` takes a
  question that is not in the list for one without an answer, and goes on.
- *A port leaves its bond* (`PortsAsConfigured`): the first configuration has a
  bond with a port and a profile for each; the second changes the profile of the
  port only. `update_state` converts the changed profile alone, and what takes
  the place of the connection has no controller; the ports of a bond are set
  when the bond itself changed.

## 4. Fairness

- Tokio polls every task that is ready, so each step of a task, of an actor and
  of a polling asker is weakly fair (`TaskStep`, `Serve`, `AskerStep`,
  `Manager`, `Client`).
- The work of a task and the calls to the D-Bus service end. A panic in a work
  or a D-Bus service that hangs is outside of this: then a task may wait for
  ever, which section 7 lists.
- `Questions`: somebody answers what the interface shows. Without it an asker
  waits, which is what it is for.
- `Installation`: a service that reported progress reports its end
  (`ServiceProgressEnds`).
- `StatusMonitor` assumes nothing of the services. Its liveness properties have
  the condition that the server ends up idle.
- `Software` and `Files`: the thread, the service and the tasks go on; the user
  need not answer. So `ServiceReturns` and `HandlersEnd` say that a handler ends
  or that a question is open.
- `Network` states no fairness: its properties are about safety.
- Clients are never obliged to send a request.

## 5. The proofs

`TaskManagerProofs` holds for any `MaxTasks` and `MaxCallers`:

- `TypeCorrect`, the type invariant.
- `InductiveInvariant`. None of the safety properties is inductive: that a
  parked task has an undecided dependency does not say who will decide it, and a
  task decides on `failed_deps`, a copy made under a lock it no longer holds.
  `IInv` adds that the sets of the shared state are a function of where the
  tasks are (`StateMatchesPC`), that dependencies were submitted before
  (`DepsReturned`), that what a task read is still true (`ReadIsStable`: an
  outcome never changes), and that it acts on it (`DecisionFollowsRead`).
- `NoLostWakeupAlways` and `FailurePropagatesAlways`, from `IInv`.
- `EventsFollowGraphAlways`. That an event agrees with the graph is not inductive
  either: `EInv` adds which events each point of the code has already sent
  (`EventsMatchPC`), that none is sent twice (`EventsOnce`) and that the start
  of a task comes after the end of its dependencies (`EventsInOrder`).
- `TaskManagerImplementsGraph`: under the refinement mapping `OutcomeOf`, every
  step is a step of `TaskGraph` or a stutter. `Graph!SafeSpec` is the safety
  part of it; that the fairness of `TaskGraph` is implemented as well is checked
  by TLC (`ImplementsGraph`).

`StatusMonitorProofs` holds for any set of scopes, any number of steps, tasks,
callers and events, and any capacity of the channel:

- `ProgressTypeCorrect`, `UniqueScopesAlways` and `StepInRangeAlways`, of
  `Progress`. They need each other: the helpers find the first progress of a
  scope, which is the only one because scopes are unique, and they stay unique
  because of what the helpers find.
- `MonitorTypeCorrect` and `ViewConvergesAlways`: a client that was subscribed
  when it asked and has read every event shows what there is. What it shows is
  the result of applying the events one after the other, but no induction over
  them is needed, since only the last event about each thing counts.
  `MonitorInv` says that of the unread events the last one about the stage, or
  about a scope, says what there is (`StageSent`, `ScopeSent`), and that a
  started task which is gone has its end behind it (`TasksSent`). So the copy is
  right about each thing already, or an unread event will correct it
  (`StageShown`, `ScopeShown`, `TasksShown`), and with no event left it is right.
  The two questions of the client are answered between events, by a status that
  is newer than those it will read.

`QuestionsProofs` holds for any set of askers, questions, configurations and
answers, and any number of requests of other clients:

- `TypeCorrect`, `OwnAnswerAlways`, `LostOnlyIfDeletedAlways` and
  `NoLeftoversAlways`, from one invariant. That an asker misses its question only
  if a client deleted it depends on what is still in the mailbox: `IInv` adds
  that the service numbers the askers one by one and that no two have the same
  id (`IdsInOrder`), that an asker has at most the one call it waits for on its
  way (`OneCallEach`), that each deletion on its way was sent by a client or by
  the asker of that question, which ended (`DeletionsDue`), and that what the
  list and the askers hold was given to that question (`AnswersWereGiven`).

`InstallationProofs` holds for any number of installations that may be asked
for, of configurations and of requests:

- `InstallationTypeCorrect` and `OutcomeShownAlways`: one installation, whose
  stage and progress agree with what its tasks have done. `IInv` adds that the
  stage is checked before an installation starts and changes with it, although
  other requests and tasks come in between (`Requests`, `StartedOnce`), that the
  six tasks are submitted in order, each one depending on those before
  (`SubmittedInOrder`), that a task runs only after the one before succeeded and
  is cancelled only after it did not (`Chained`), which calls a task has made at
  each outcome (`WorkDone`), and that the list of progresses, to which the other
  services write as well, holds the one of the manager exactly from the start to
  the last call, at the phase of the last task (`ProgressShown`, `StageShown`).

`ConfigTasksProofs` holds for any configurations and any number of them:

- `ConfigTasksTypeCorrect` and `FailureContainedAlways`. A failure goes along the
  dependencies because the graph of each configuration is the one
  `SetConfigAction` submits, task by task (`Submission`), and because a task is
  as far as the tasks it waits for (`Chained`).
- `SoftwareSeesServicesAlways`: the software of the first configuration is
  selected with what the services need. This is a matter of order among the
  tasks and the calls that nobody waits for. `IInv` adds that what a service has
  was brought by a task that started (`Brought`), that a call on its way to the
  D-Bus service has its task waiting, or is one of those nobody awaits
  (`Awaited`), and what is there at each stage of the first configuration:
  devices, bootloader, software (`First`). Its hypothesis is that the D-Bus
  service does not refuse the bootloader configuration, whose outcome the task
  does not see.
- `SystemFollowsLastAlways`: when clients wait, the system is in the end that of
  the last configuration (`LastConfigApplied`), and the proposal is about the devices there are,
  also after two configurations that overlap. This is not about one
  configuration but about what the next one finds, so `FollowInv` says where each
  one stands: what the tasks that ended have left (`CallsMade`, `Carried`); that
  there is one configuration with tasks to run, or two (`Alone`); that what the
  last one brought is not undone by an earlier one (`LastHas`); and that if a
  proposal is older than the devices, a task is on its way that will probe, since
  whoever brings other targets probes after it (`Probing`). That the iSCSI
  service may find nothing to do needs that what it takes for configured is what
  configuring would leave: `Sound` says that only targets it knows are connected,
  and that the keys of the bootloader are those of its last merge, which merging
  again does not change. The hypotheses are
  that no task fails and that the D-Bus service refuses nothing (`MayFail`,
  `MayRefuse`): a configuration that stopped half way leaves what it left.

`SoftwareProofs` holds for any products, configurations, services and bounds:

- `BuildFromByPriority`: the nine steps of the builder, each of which may
  overwrite what an earlier one selected, select a resolvable as the reference
  says. Lemmas say what each group of steps leaves at one resolvable;
  `FirstOfAsks` that among the services that ask one comes first in any order,
  from the least element of a set of naturals.
- `WantedByPriorityAlways`: with `ConfigsKnown` (what is in the mailbox and in
  the tasks is a configuration of a client with a known product).
- `NoIssuesInSyncAlways`, from `IInv`: who the thread works for (`Turns`), what
  each point of `write` has done of the configuration and with which issues
  (`Writing`), that an answer without issues says that all was done
  (`WriteDone`), that this stays true until something else is wanted
  (`IdleDone`), and that nothing is installed before (`NotYet`).
- `InstalledIsWantedAlways`, with two more: before an installation may start
  there is something wanted (`Known`), and after one that started with nothing
  on its way nothing changes what is wanted or chosen, and what the thread
  reports as installed is all of it (`Quiet`).
- `SoftwareTypeCorrect`, from `TInv` on top of those: the progress stays within
  its steps since each start of it comes with as many messages (`ThreadTyped`),
  and what is built is for a product there is (`WantedTyped`).

`FilesProofs` holds for any configurations, any number of them, and any answers:

- `FilesTypeCorrect`, `RanOnceAlways`, `TidyAlways`, `ScriptsSettleAlways` and
  `ServiceHasPackageAlways`, from one invariant. `IInv` adds that each message,
  and the work in course, is the call of one task that waits (`OneCallEach`);
  that the installation comes last (`InstallLast`); that the list holds scripts
  of the configuration being set, in its order (`ListFromConfig`); that no
  script which is still to run has a log, and that none without a log ran
  (`LogTellsRun`); what a run has to clean up (`CleanUp`); and, for what tasks
  of several configurations do to each other, that as long as the list is not
  settled a task is on its way which will settle it: the package was asked for
  or the task that began will ask (`PackageAsked`), the first scripts ran or a
  task is at the call that runs them (`Settling`).
- `RanOnceAlways` has the hypothesis `DistinctPaths`: nothing in the code keeps
  two scripts of a configuration from having the same group and name, and then
  both run, from the same file.

`NetworkProofs` holds for any options, connections and updates, and for any
configurations, tasks and bounds:

- `MergeTwiceIsOnce`: merging an update into the outcome of its first merge
  changes nothing, so a task that failed after it wrote a connection may be
  repeated. One lemma per kind of section says that cleaning takes away the same
  keys the second time (`WithoutTwice`): those of Agama come from the update, and
  an address that is there stays.
- `MergeLosesNothing`: in a section NetworkManager has, the update wins where it
  says something, and what it does not write stays.
- `NetworkTypeCorrect`, `SystemKnownAlways` and `PortsKeepControllerAlways`, from
  one invariant, `IInv`. It adds that a UUID stands for the same connection
  wherever it is known, and that ports and bonds can be read (`Connections`).
  During a write that nobody disturbs (`Written`) a connection of NetworkManager
  is what it was, and unchanged if it was taken, or was written for one that was
  taken; each one that was taken and not removed stands there under its UUID or
  a new one; nothing else went away. When nothing failed since the state was
  read (`Reading`), the service knows each connection it can read by one that no
  pending removal is about, or its announcement is in the queue, or among the
  signals, with no removal behind it of one of the same identifier. That new
  UUIDs are new, and that a lookup finds what is there, comes from finite sets of
  naturals (`Smallest`, `Greatest`, `FreeEnough`); lemmas of their own say that
  what is converted, merged, cleaned and read is a connection again.
- `PortsKeepControllerAlways` has the hypothesis `PlainPorts`, that no controller
  of a configuration is the port of another: a connection is removed with its
  direct controller, not with the controller of that one.
- `WrittenWhileKindsKept` and `WrittenAsWantedAlways`: what was wanted is written,
  through the conversion to keys, the merge with what NetworkManager has, the
  cleaning and the reading back. Lemmas follow one option through these: what a
  connection says stays (`SaysStay`), nothing else does unless it may be left
  unsaid (`NothingElseStays`), and what Agama cannot read is not lost
  (`UnknownStays`). The invariant, `WInv`, adds that what is there and what is
  wanted is of the form that can be read back (`Normal`), which the outcome of a
  write is again (`OutcomeIsNormal`), and what a write in course has brought
  (`Bringing`): each connection still to take is as it was, and each one that was
  taken stands there unchanged, or as the outcome of conversion and merge on top
  of what was there. They have three hypotheses, all true of the run's instance:
  - `PlainOptions`: an option Agama cannot read is none of those it writes or
    handles of its own accord and is not found under another key; and there are
    no options of bridge ports, which go when a port leaves its bridge.
  - `NormalSettings`: what a profile says, and what is read of a connection of
    somebody else, is in a section that is written, and is neither a default that
    is then not said nor an empty interface name.
  - `KindsByName`: no identifier goes with two kinds of connection, so that
    `KindsKept` holds. `merge_dbus_connections` adds no section to what is there,
    and a wired connection that becomes a bond is not read back as a bond.
    `WrittenWhileKindsKept` needs of it `[]KindsKept` only.

The assumptions are those on the constants, which TLC evaluates in the runs:
`BoundsAssumption` or the like of each module (`MonitorAssumption`,
`ChannelAssumption`, `AskersAssumption`); patterns and packages are different
things and the aliases of the installer exist (`ResolvablesAssumption`,
`AliasesAssumption`); what products, configurations and services may say, as
their types in the code have it (`ProductsAssumption`, `AskedAssumption`, and
the `ConfigsAssumption` of `Software`, `ConfigTasks` and `Files`, and the
`NetworkAssumption`); that `Never`, which stands for what the storage service
has before any call, is not what a configuration says nor a set of devices
(`NeverAssumption`), and that the targets that are discovered, unreachable or
without a startup mode are targets (`TargetsAssumption`); that a question without an answer, or one that is not there, has
none of the answers (`AnswersAssumption`).

Only checked by TLC:

- the liveness properties, `EveryTaskEnds`, `AskersReturn`, `InstallationEnds`,
  `ConfigEnds`, `ClientsEnd`, `ServiceReturns` and `HandlersEnd`, and the fairness
  part of `ImplementsGraph`: fairness is defined by ENABLED, which is beyond the
  prover;
- the two runs with a violation, whose counterexamples are what they show.

Every invariant and action property that a passing run checks is stated by a
theorem, with the hypotheses named above.

## 6. The plan

Built, in this order: `TaskGraph`, `TaskManager`, `Progress`, `Questions`,
`Installation`, `ConfigTasks`, `StatusMonitor`, `SoftwareState`, `ZyppServer`,
`Software`, `Files`, `Network`, `NmSettings`. To come, the most important first:

1. `EventChannel`: the receiver that keeps the channel open, what happens to the
   senders when it ends, and an abstract channel that `TaskManager` and
   `Progress` use.
2. `StorageMonitor`, with the signals of the D-Bus service and the progress it
   may not find.
3. `Network`: devices, access points, the general state.
4. That the questions implement an abstract question box, as a refinement.

Other places where the text and the code differ, or where the code may surprise,
met on the way and not turned into runs:

- an installation may start while tasks of a configuration are pending: the
  command line looks first and asks later, and the server checks progress, not
  tasks (`agama-manager/src/checks.rs:48`);
- of two configurations whose tasks overlap, each service may end with either
  one (`agama-manager/src/service.rs:525`);
- of three configurations whose tasks overlap, the targets of the first may be
  brought between those of the other two; when the last two ask for the same
  targets, the last one is not told apart from the one before and probes nothing
  after it (`agama-manager/src/actions.rs:481`);
- two scripts of a configuration may have the same group and name: they share a
  file, and both run (`agama-files/src/runner.rs:219`);
- the software task does not depend on those of the access and users services,
  so it may miss their packages (`agama-manager/src/actions.rs:502`);
- the monitor may say Finished before the work starts: it ignores that a task
  was added, and takes any event for activity (`agama-lib/src/monitor.rs:447`);
- a client that is connected but whose handler has not subscribed yet loses what
  is sent in between (`agama-server/src/web/ws.rs:45`);
- the tasks and the progress of one status are read at different moments
  (`agama-manager/src/service.rs:657`);
- whether the software service is busy is looked up in the progress service,
  whose status never has tasks, so a query may be sent to a service that will be
  busy, and the manager waits for it, for a user too if libzypp asks something
  (`agama-manager/src/service.rs:627`);
- a configuration of iSCSI is not applied when what is discovered already is as
  it says, which is decided without asking its portals
  (`service/lib/agama/storage/iscsi/manager.rb:109`, called at
  `dbus/storage/iscsi.rb:75`, whose comment says "Do not configure if there is
  nothing to change"): a section that names no other initiator and whose targets
  are not discovered yet connects nothing;
- a bootloader key of an earlier configuration stays until a later one gives it
  or one that conflicts (`service/lib/agama/storage/bootloader_config.rb:114`);
- a link to `resolv.conf` that cannot be removed stays, and a later run of
  scripts does not take it for its own (`agama-files/src/runner.rs:263`, `:249`);
- when the rollback of a failed write fails, NetworkManager stays half written,
  with the checkpoint, and a port may be left without its controller
  (`agama-network/src/nm/adapter.rs:217`);
- two controllers that list each other make the ordering recurse without an end
  (`agama-network/src/nm/adapter.rs:321`); of a bond that is the port of a bridge,
  the ports stay when the bond goes with the bridge (`:184`);
- a write that fails at its end does not read the state back, so the service does
  not know the UUID of a port it added; when it removes the bond later, that port
  stays without a controller (`agama-network/src/service.rs:531`);
- a rollback brings back a connection whose removal is still to be handled; if
  the state is read before, the removal then drops the connection from the
  service although it is there (`agama-network/src/service.rs:445`);
- an update does not add the sections NetworkManager lacks, such as the security
  of a wireless network that had none or 802.1X, and does not take away a key
  that is no longer said, which a FIXME names (`agama-network/src/nm/dbus.rs:297`);
- some keys are written under one name and read under another: `path-cost` and
  `path_cost` (`agama-network/src/nm/dbus.rs:817`, `:832`), `zone` and
  `firewall-zone` (`:104`, `:1004`), `rstp-enable` and `srtp-enable`, `stp-enable`
  and `stp` (`:912`, `:929`); `ReadKey` has them. The custom MAC address of a
  profile is not taken over (`agama-network/src/model.rs:1214`);
- repositories are compared by their alias, so one of which only the URL changes
  stays as it is (`agama-software/src/zypp_server.rs:415`), and a registered
  system stays registered when another product is selected (`:972`);
- the product is dropped before the new one is looked up
  (`agama-manager/src/service.rs:583`);
- the answer "try again" to the question about a script that could not be
  fetched is followed by no new attempt, so the question comes back
  (`agama-files/src/service.rs:180`); a script whose name an earlier one had
  does not run (`:140`);
- the monitor of the storage service ends on the first error of a handler
  (`agama-storage/src/monitor.rs:182`);
- a panic in the work of a task leaves its dependents waiting
  (`agama-manager/src/task_manager.rs:303`);
- an answer rule matches when all of its data match
  (`agama-utils/src/api/question.rs:96`) and its comment says any (`:69`);
- an asker may be told that its question is not there after it was answered
  (`agama-utils/src/question.rs:118`), and not only before (`:102`);
- the storage is probed by a task that nobody awaits
  (`agama-storage-client/src/service.rs:122`);
- a kernel argument is sent with a whole bootloader configuration that may be
  older than the one on its way (`agama-bootloader/src/service.rs:135`).

## 7. Not modelled, and why

- Panics, and processes that die: nothing of the state is persisted, so a
  restart of the server starts from nothing.
- The text of messages, names and descriptions; the data of configurations
  beyond what tells two of them apart.
- Progresses that are not valid: the monitor of the storage service passes on
  what it gets from D-Bus without a check (`agama-storage/src/monitor.rs:56`), and
  `Progress` takes a step within the size for granted.
- Of iSCSI: targets that are locked because they were connected at the first
  probing, credentials, logins that fail, and what a client discovers or
  connects by hand.
- What services write to disk and storage proposals: data transformations
  without interleaving.
- Of the software: what GetSystem and GetProposal show, conflicts, keys and
  certificates, locales, the choice of the solver. A failure of any of them is a
  call that fails.
- Of the network: devices, access points and the general state; secrets, the
  forms that depend on the version of NetworkManager, and the values of the
  options, which are compared and no more.
- Users, l10n, hostname, proxy, NTP, security, access and bootloader: each keeps
  a configuration and writes it to files, one message at a time; `ConfigTasks`
  and `Installation` have their messages as calls that may fail.
- Authentication, TLS, the web interface, profile conversion, transfers, locale
  data, the build of the live system: input, output and data.
- libzypp, NetworkManager and D-Bus themselves: outside of the repository.

Components and their status, the hazards with the line where each bites, and
the properties that cover them are listed in `PROJECT.json`.
