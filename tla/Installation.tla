----------------------------- MODULE Installation -----------------------------
(***************************************************************************)
(* An installation, from the request of a client to the restart of the     *)
(* machine: the checks and tasks of InstallAction                          *)
(* (rust/agama-manager/src/actions.rs and checks.rs), the messages of the  *)
(* manager service that lead to it (service.rs), and the command line      *)
(* that waits for the right moment (rust/agama-cli/src/lib.rs).            *)
(*                                                                         *)
(* The tasks are those of module TaskGraph, which the task manager         *)
(* implements; the progresses are those of the progress service.  The      *)
(* manager is an actor: it takes the next request when it has answered the *)
(* last one, and each of its calls to another service is a step, between   *)
(* which tasks, services and clients go on.                                *)
(*                                                                         *)
(* The services are abstract: a call succeeds or fails.  While one works   *)
(* it may show a progress of its own (scope "services").  What writing a   *)
(* configuration does is in module ConfigTasks; here it is one task.       *)
(***************************************************************************)
EXTENDS ProgressList, FiniteSets

CONSTANTS MaxInstalls,      \* bound on the installations that get to start
          MaxConfigs,       \* bound on the configurations written
          MaxRequests       \* bound on the requests of the web client

ASSUME BoundsAssumption ==
    MaxInstalls \in Nat \ {0} /\ MaxConfigs \in Nat /\ MaxRequests \in Nat

VARIABLES
    stage, progresses,      \* the state of the progress service
    issues,                 \* whether there are issues
    outcome, deps, always,  \* the graph of tasks
    work,                   \* per task, the calls it has made
    manager,                \* the request the manager works on, and its step
    installs, configs,      \* how many were started
    cli,                    \* where "agama install" is
    web,                    \* the requests the web client may still do
    halted                  \* whether shutdown was run

status == <<stage, progresses, issues>>
graph == <<outcome, deps, always>>
clients == <<cli, web>>
vars == <<status, graph, work, manager, installs, configs, clients, halted>>

-----------------------------------------------------------------------------
(* The tasks.                                                              *)

Critical == <<"storage_install", "post_partitioning_scripts", "software_install",
              "configure", "finish_progress">>
InstallOrder == Append(Critical, "finalize")

ConfigTaskIds == {"set_config"} \X (1 .. MaxConfigs)
InstallTaskIds == ToSet(InstallOrder) \X (1 .. MaxInstalls)
TaskIds == ConfigTaskIds \union InstallTaskIds

Graph == INSTANCE TaskGraph

Ended == {"ok", "failed", "cancelled"}
Unresolved(id) == outcome[id] \in {"pending", "running"}
CriticalTasks(n) == ToSet(Critical) \X {n}

\* Each task waits for the one before it, and "finalize" for all of them.
DependenciesOf(k, n) ==
    IF InstallOrder[k] = "finalize" THEN CriticalTasks(n)
    ELSE {<<InstallOrder[j], n>> : j \in {k - 1} \ {0}}

TypeOK ==
    /\ stage \in {"configuring", "installing", "finished", "failed"}
    /\ progresses \in Seq([scope : {"manager", "services"}, size : 0 .. 3, index : 1 .. 3])
    /\ issues \in BOOLEAN
    /\ Graph!TypeOK
    /\ work \in [TaskIds -> 0 .. 13]
    /\ manager \in [handling : {"none", "install", "config", "finish", "idle_status",
                                "stage_status", "issues"},
                    for : {"cli", "web"}, step : 1 .. 11]
    /\ installs \in 0 .. MaxInstalls
    /\ configs \in 0 .. MaxConfigs
    /\ halted \in BOOLEAN

Idle == [handling |-> "none", for |-> "web", step |-> 1]

Init ==
    /\ stage = "configuring"
    /\ progresses = <<>>
    /\ issues \in BOOLEAN
    /\ Graph!Init
    /\ work = [id \in TaskIds |-> 0]
    /\ manager = Idle
    /\ installs = 0
    /\ configs = 0
    /\ cli = "wait_until_idle"
    /\ web = MaxRequests
    /\ halted = FALSE

-----------------------------------------------------------------------------
(* The manager: RunAction(Install), step by step.                          *)

At(handling, step) == manager.handling = handling /\ manager.step = step
NextStep == manager' = [manager EXCEPT !.step = @ + 1]
Takes(h, client) == manager' = [handling |-> h, for |-> client, step |-> 1]
Reply == manager' = Idle
\* The command line goes on with the reply of its request.
CliGets(next) == cli' = IF manager.for = "cli" THEN next ELSE cli

CheckStage ==
    /\ At("install", 1)
    /\ \/ stage = "configuring" /\ NextStep /\ UNCHANGED cli
       \/ stage # "configuring" /\ Reply /\ CliGets("refused")
    /\ UNCHANGED <<status, graph, work, installs, configs, web, halted>>

CheckIssues ==
    /\ At("install", 2)
    /\ \/ ~issues /\ NextStep /\ UNCHANGED cli
       \/ issues /\ Reply /\ CliGets("refused")
    /\ UNCHANGED <<status, graph, work, installs, configs, web, halted>>

CheckProgress ==
    /\ At("install", 3)
    /\ \/ progresses = <<>> /\ NextStep /\ UNCHANGED cli
       \/ progresses # <<>> /\ Reply /\ CliGets("refused")
    /\ UNCHANGED <<status, graph, work, installs, configs, web, halted>>

SetStageInstalling ==
    /\ At("install", 4)
    /\ installs < MaxInstalls
    /\ stage' = "installing"
    /\ installs' = installs + 1
    /\ NextStep
    /\ UNCHANGED <<progresses, issues, graph, work, configs, clients, halted>>

\* Nothing else reports a progress with the scope of the manager.
StartProgress ==
    /\ At("install", 5)
    /\ ~HasProgress(progresses, "manager")
    /\ progresses' = Added(progresses, NewProgress("manager", 3))
    /\ NextStep
    /\ UNCHANGED <<stage, issues, graph, work, installs, configs, clients, halted>>

\* A bug to try: the last task is cancelled like the others.
AddTaskPlain(k) ==
    /\ At("install", 5 + k)
    /\ Graph!Add(<<InstallOrder[k], installs>>, DependenciesOf(k, installs), FALSE)
    /\ IF k = Len(InstallOrder) THEN Reply /\ CliGets("installing")
       ELSE NextStep /\ UNCHANGED cli
    /\ UNCHANGED <<status, work, installs, configs, web, halted>>

\* A bug to try: every task runs in any case.
AddTaskAlways(k) ==
    /\ At("install", 5 + k)
    /\ Graph!Add(<<InstallOrder[k], installs>>, DependenciesOf(k, installs), TRUE)
    /\ IF k = Len(InstallOrder) THEN Reply /\ CliGets("installing")
       ELSE NextStep /\ UNCHANGED cli
    /\ UNCHANGED <<status, work, installs, configs, web, halted>>

AddTask(k) ==
    /\ At("install", 5 + k)
    /\ Graph!Add(<<InstallOrder[k], installs>>, DependenciesOf(k, installs),
                 InstallOrder[k] = "finalize")
    /\ IF k = Len(InstallOrder) THEN Reply /\ CliGets("installing")
       ELSE NextStep /\ UNCHANGED cli
    /\ UNCHANGED <<status, work, installs, configs, web, halted>>

Install ==
    \/ CheckStage \/ CheckIssues \/ CheckProgress
    \/ SetStageInstalling \/ StartProgress
    \/ \E k \in DOMAIN InstallOrder : AddTask(k)

-----------------------------------------------------------------------------
(* The other requests.                                                     *)

\* SetConfig and UpdateConfig: the stage is checked when the request comes.
ConfigCheckStage ==
    /\ At("config", 1)
    /\ IF stage = "configuring" THEN NextStep ELSE Reply
    /\ UNCHANGED <<status, graph, work, installs, configs, clients, halted>>

ConfigAddTask ==
    /\ At("config", 2)
    /\ configs < MaxConfigs
    /\ Graph!Add(<<"set_config", configs + 1>>, {}, FALSE)
    /\ configs' = configs + 1
    /\ Reply
    /\ UNCHANGED <<status, work, installs, clients, halted>>

\* The method "stop" does nothing, and the command for the others may fail.
FinishAction == halted' \in {halted, TRUE}

\* RunAction(Finish).
Finish ==
    /\ At("finish", 1)
    /\ IF stage = "finished" THEN FinishAction ELSE UNCHANGED halted
    /\ Reply
    /\ UNCHANGED <<status, graph, work, installs, configs, clients>>

\* GetStatus reads the tasks first, the progresses and the stage later.
IdleStatusTasks ==
    /\ At("idle_status", 1)
    /\ IF \E id \in TaskIds : Unresolved(id)
       THEN Reply /\ CliGets("wait_until_idle")
       ELSE NextStep /\ UNCHANGED cli
    /\ UNCHANGED <<status, graph, work, installs, configs, web, halted>>

IdleStatusProgresses ==
    /\ At("idle_status", 2)
    /\ Reply
    /\ CliGets(IF progresses = <<>> THEN "read_stage" ELSE "wait_until_idle")
    /\ UNCHANGED <<status, graph, work, installs, configs, web, halted>>

StageStatus ==
    /\ At("stage_status", 1)
    /\ Reply
    /\ CliGets(IF stage = "configuring" THEN "read_issues" ELSE "refused")
    /\ UNCHANGED <<status, graph, work, installs, configs, web, halted>>

Issues ==
    /\ At("issues", 1)
    /\ Reply
    /\ CliGets(IF issues THEN "refused" ELSE "install")
    /\ UNCHANGED <<status, graph, work, installs, configs, web, halted>>

Manager ==
    \/ Install \/ ConfigCheckStage \/ ConfigAddTask \/ Finish
    \/ IdleStatusTasks \/ IdleStatusProgresses \/ StageStatus \/ Issues

\* The idle manager takes a request of the command line...
CliRequest ==
    /\ manager.handling = "none"
    /\ \/ cli = "wait_until_idle" /\ Takes("idle_status", "cli")
       \/ cli = "read_stage" /\ Takes("stage_status", "cli")
       \/ cli = "read_issues" /\ Takes("issues", "cli")
       \/ cli = "install" /\ Takes("install", "cli")
    /\ UNCHANGED <<status, graph, work, installs, configs, clients, halted>>

\* ... or of the web client, which does not wait for anything.
WebRequest ==
    /\ manager.handling = "none"
    /\ web > 0
    /\ web' = web - 1
    /\ \E h \in {"install", "finish"} \union (IF configs < MaxConfigs THEN {"config"} ELSE {}) :
          Takes(h, "web")
    /\ UNCHANGED <<status, graph, work, installs, configs, cli, halted>>

-----------------------------------------------------------------------------
(* The work of the tasks.                                                  *)

Running(name, n) == outcome[<<name, n>>] = "running"
Complete(name, n, result) == outcome' = [outcome EXCEPT ![<<name, n>>] = result]
Made(name, n) == work' = [work EXCEPT ![<<name, n>>] = @ + 1]

\* The dependencies of a task are resolved: it starts, or it is cancelled.
Resolve(id) ==
    /\ Graph!Start(id) \/ Graph!Cancel(id)
    /\ UNCHANGED <<status, work, manager, installs, configs, clients, halted>>

\* Tasks with one call to a service; writing a configuration changes the issues.
OneCall(name, n) ==
    /\ name \in {"set_config", "storage_install", "post_partitioning_scripts"}
    /\ Running(name, n)
    /\ \E result \in {"ok", "failed"} : Complete(name, n, result)
    /\ IF name = "set_config" THEN issues' \in BOOLEAN ELSE UNCHANGED issues
    /\ UNCHANGED <<stage, progresses, deps, always, work, manager, installs, configs,
                   clients, halted>>

\* The tasks that begin a phase move the progress of the manager first.
NextProgress(name, n) ==
    /\ name \in {"software_install", "configure"}
    /\ Running(name, n) /\ work[<<name, n>>] = 0
    /\ HasProgress(progresses, "manager")
    /\ CanAdvance(ProgressOf(progresses, "manager"))
    /\ progresses' = Replaced(progresses, Advanced(ProgressOf(progresses, "manager")))
    /\ Made(name, n)
    /\ UNCHANGED <<stage, issues, graph, manager, installs, configs, clients, halted>>

\* A bug to try: the list of calls is one too long.
CallsBeyond(name) == IF name = "configure" THEN 13 ELSE 1

\* The calls of "configure": localization, software, files, network, proxy,
\* NTP, hostname, users, storage, access, scripts, and unmounting.
Calls(name) == IF name = "configure" THEN 12 ELSE 1

\* Then they make their calls, one after another until one fails.
Call(name, n) ==
    /\ name \in {"software_install", "configure"}
    /\ Running(name, n) /\ work[<<name, n>>] \in 1 .. Calls(name)
    /\ Made(name, n)
    /\ \/ Complete(name, n, "failed")
       \/ /\ work[<<name, n>>] = Calls(name)
          /\ Complete(name, n, "ok")
       \/ /\ work[<<name, n>>] < Calls(name)
          /\ UNCHANGED outcome
    /\ UNCHANGED <<status, deps, always, manager, installs, configs, clients, halted>>

\* "finish_progress" ends the progress, then sets the stage, then returns.
FinishProgress(n) ==
    /\ Running("finish_progress", n)
    /\ IF work[<<"finish_progress", n>>] = 0
       THEN /\ progresses' = Removed(progresses, "manager")
            /\ Made("finish_progress", n)
            /\ UNCHANGED <<stage, outcome>>
       ELSE /\ UNCHANGED progresses
            /\ IF work[<<"finish_progress", n>>] = 1
               THEN /\ stage' = "finished" /\ Made("finish_progress", n) /\ UNCHANGED outcome
               ELSE /\ Complete("finish_progress", n, "ok") /\ UNCHANGED <<stage, work>>
    /\ UNCHANGED <<issues, deps, always, manager, installs, configs, clients, halted>>

FailedTasks(n) == {id \in CriticalTasks(n) : outcome[id] \in {"failed", "cancelled"}}

\* "finalize" runs the finish action, which may halt the machine (the method
\* is read from the kernel command line) ...
FinalizeSuccess(n) ==
    /\ Running("finalize", n)
    /\ FailedTasks(n) = {}
    /\ halted' \in {halted, TRUE}
    /\ Complete("finalize", n, "ok")
    /\ UNCHANGED <<status, work, deps, always, manager, installs, configs, clients>>

\* ... or ends the progress and reports the failure.
FinalizeFailure(n) ==
    /\ Running("finalize", n)
    /\ FailedTasks(n) # {}
    /\ IF work[<<"finalize", n>>] = 0
       THEN /\ progresses' = Removed(progresses, "manager")
            /\ Made("finalize", n)
            /\ UNCHANGED <<stage, outcome>>
       ELSE /\ UNCHANGED progresses
            /\ IF work[<<"finalize", n>>] = 1
               THEN /\ stage' = "failed" /\ Made("finalize", n) /\ UNCHANGED outcome
               ELSE /\ Complete("finalize", n, "ok") /\ UNCHANGED <<stage, work>>
    /\ UNCHANGED <<issues, deps, always, manager, installs, configs, clients, halted>>

TaskStep(id) ==
    \/ Resolve(id)
    \/ OneCall(id[1], id[2])
    \/ NextProgress(id[1], id[2])
    \/ Call(id[1], id[2])
    \/ id[1] = "finish_progress" /\ FinishProgress(id[2])
    \/ id[1] = "finalize" /\ (FinalizeSuccess(id[2]) \/ FinalizeFailure(id[2]))

\* While tasks run, the services they call may show a progress; it goes away
\* on its own, the storage service reports it in the background.
ServiceProgressStarts ==
    /\ \E id \in TaskIds : outcome[id] = "running" /\ id[1] \in {"set_config", "storage_install"}
    /\ ~HasProgress(progresses, "services")
    /\ progresses' = Added(progresses, NewProgress("services", 1))
    /\ UNCHANGED <<stage, issues, graph, work, manager, installs, configs, clients, halted>>

ServiceProgressEnds ==
    /\ HasProgress(progresses, "services")
    /\ progresses' = Removed(progresses, "services")
    /\ UNCHANGED <<stage, issues, graph, work, manager, installs, configs, clients, halted>>

Next ==
    \/ Manager \/ CliRequest \/ WebRequest
    \/ \E id \in TaskIds : TaskStep(id)
    \/ ServiceProgressStarts \/ ServiceProgressEnds

\* The manager and the tasks go on, services answer, progresses of services
\* end.  No client has to send its next request.
Fairness ==
    /\ WF_vars(Manager)
    /\ \A id \in TaskIds : WF_vars(TaskStep(id))
    /\ WF_vars(ServiceProgressEnds)

Spec == Init /\ [][Next]_vars /\ Fairness

-----------------------------------------------------------------------------
(* Properties.                                                             *)

\* The tasks of an installation are submitted once, whatever the clients ask
\* for: the second request finds another stage.
OneInstallation ==
    \A n, m \in 1 .. MaxInstalls :
        outcome[<<"storage_install", n>>] # "absent"
          /\ outcome[<<"storage_install", m>>] # "absent" => n = m

\* The stage says what happened: "finished" when every task succeeded,
\* "failed" when one did not, and "configuring" when none was submitted.
StageTellsOutcome ==
    \A n \in 1 .. installs :
        /\ stage = "finished" => \A k \in 1 .. 4 : outcome[<<Critical[k], n>>] = "ok"
        /\ stage = "failed" => FailedTasks(n) # {}
        /\ stage # "configuring"

\* The progress of the manager shows the phase that is being executed, and
\* is gone when the stage says that the installation ended.
StepShown ==
    /\ \A n \in 1 .. installs :
          /\ Running("software_install", n) /\ work[<<"software_install", n>>] > 0
                => ProgressOf(progresses, "manager").index = 2
          /\ Running("configure", n) /\ work[<<"configure", n>>] > 0
                => ProgressOf(progresses, "manager").index = 3
    /\ stage \in {"finished", "failed"} => ~HasProgress(progresses, "manager")

\* The machine is restarted only when it is installed, whoever asks for it.
HaltedOnlyInstalled ==
    halted => /\ stage = "finished"
              /\ \E n \in 1 .. installs : \A k \in 1 .. 4 : outcome[<<Critical[k], n>>] = "ok"

\* What the server tells of an installation is what happened: one installation,
\* the stage of its outcome, the progress of its phase, and a restart only after
\* a success, whichever call failed and whatever the clients asked for in
\* between (actions.rs 246-302, checks.rs 27-56).
OutcomeShown == OneInstallation /\ StageTellsOutcome /\ StepShown /\ HaltedOnlyInstalled

\* An installation that started ends, and says how.
InstallationEnds == (stage = "installing") ~> (stage \in {"finished", "failed"})

=============================================================================
