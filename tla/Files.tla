-------------------------------- MODULE Files --------------------------------
(***************************************************************************)
(* The user's files and scripts: rust/agama-files/src/service.rs and       *)
(* runner.rs, ScriptsRepository of rust/agama-utils/src/api/files, and the *)
(* tasks of rust/agama-manager/src/actions.rs that call the service.       *)
(*                                                                         *)
(* The service is an actor: while it waits for the answer to a question,   *)
(* the calls of the tasks stay in its mailbox.  A task makes its calls one *)
(* after the other, and ends with the first one that fails.  Fetching a    *)
(* script, running it, linking resolv.conf and writing a file are outside: *)
(* each may fail.  A question may be answered or deleted.                  *)
(*                                                                         *)
(* The file of a script, and its log, have the group and the name of the   *)
(* script as their path.                                                   *)
(***************************************************************************)
EXTENDS Naturals, Sequences, FiniteSets, Functions

CONSTANTS Configs,          \* what clients write: scripts by group, and files
          MaxConfigs,       \* bound on the configurations that clients write
          MaxAttempts       \* bound on how often "try again" is answered

AllScripts == UNION {Range(c.scripts) : c \in Configs}
AllFiles == UNION {c.files : c \in Configs}

ASSUME FilesAssumption == MaxConfigs \in Nat /\ MaxAttempts \in Nat
ASSUME ConfigsAssumption == \A c \in Configs : c.scripts \in Seq(AllScripts)

VARIABLES scripts,          \* ScriptsRepository.scripts
          logged,           \* the paths of scripts that have a .stdout file
          files,            \* Service.files
          target,           \* the installed system: files, resolv.conf, service
          progress,         \* the progress of Scope::Files: <<step, steps>>
          mailbox,          \* the tasks whose call waits for the service
          work,             \* the handler that the service is in
          question,         \* the question that the handler waits for
          tasks,            \* the calls of every task and where it is
          asked,            \* whether agama-scripts is to be installed
          ran,              \* how many calls have executed the script of a path
          spoilt            \* what went wrong beyond what the service handles

serviceVars == <<scripts, logged, files, target, progress>>
vars == <<serviceVars, mailbox, work, question, tasks, asked, ran, spoilt>>

Groups == {"pre", "postPartitioning", "post", "init"}

\* relative_script_path.
Path(script) == <<script.group, script.name>>
AllPaths == {Path(s) : s \in AllScripts}

Idle == [op |-> "none"]
NoQuestion == [open |-> FALSE]
NoProgress == <<>>

SetConfig(config) == [op |-> "SetConfig", config |-> config]
RunScripts(group) == [op |-> "RunScripts", group |-> group]
GetResolvables == [op |-> "GetResolvables"]
Finish == [op |-> "Finish"]

Init ==
    /\ scripts = <<>> /\ logged = {} /\ files = {}
    /\ target = [files |-> {}, link |-> FALSE, service |-> FALSE]
    /\ progress = NoProgress
    /\ mailbox = <<>> /\ work = Idle /\ question = NoQuestion
    /\ tasks = <<>> /\ asked = FALSE
    /\ ran = [p \in AllPaths |-> 0]
    /\ spoilt = {}

-----------------------------------------------------------------------------
\* The tasks of the manager.

\* Every task makes three calls.
Task(kind, calls) == [kind |-> kind, calls |-> calls, step |-> 1, waits |-> FALSE]
Ended(t) == tasks[t].step > 3
CallOf(t) == tasks[t].calls[tasks[t].step]
OnlyConfigs == \A t \in DOMAIN tasks : tasks[t].kind = "config"

\* The files task, the pre_scripts task and the software_config task of one
\* configuration: each one depends on the one before.
Configuration(config) == <<SetConfig(config), RunScripts("pre"), GetResolvables>>

WriteConfig(config) ==
    /\ Len(tasks) < MaxConfigs /\ OnlyConfigs
    /\ tasks' = Append(tasks, Task("config", Configuration(config)))
    /\ UNCHANGED <<serviceVars, mailbox, work, question, asked, ran, spoilt>>

\* The calls of the installation.  It may start while configurations are on
\* the way: its checks do not look at the tasks.
Installation == <<RunScripts("postPartitioning"), Finish, RunScripts("post")>>

Install ==
    /\ tasks # <<>> /\ OnlyConfigs
    /\ progress = NoProgress
    /\ tasks' = Append(tasks, Task("install", Installation))
    /\ spoilt' = spoilt \union
                    (IF \A t \in DOMAIN tasks : Ended(t) THEN {} ELSE {"early"})
    /\ UNCHANGED <<serviceVars, mailbox, work, question, asked, ran>>

SendCall(t) ==
    /\ ~Ended(t) /\ ~tasks[t].waits
    /\ mailbox' = Append(mailbox, t)
    /\ tasks' = [tasks EXCEPT ![t].waits = TRUE]
    /\ UNCHANGED <<serviceVars, work, question, asked, ran, spoilt>>

-----------------------------------------------------------------------------
\* The start and the end of a handler.

Caller == Head(mailbox)
Message == CallOf(Caller)

Handle(op) ==
    /\ work = Idle /\ mailbox # <<>>
    /\ Message.op = op
    /\ mailbox' = Tail(mailbox)

Answer(t) == tasks' = [tasks EXCEPT ![t].step = @ + 1, ![t].waits = FALSE]

\* A task that fails makes no more calls, nor do the ones that depend on it.
Drop(t) == tasks' = [tasks EXCEPT ![t].step = 4, ![t].waits = FALSE]

Return == work' = Idle /\ question' = NoQuestion /\ Answer(work.from)

ReturnError == work' = Idle /\ question' = NoQuestion /\ Drop(work.from)

\* ask_question: it waits until the question is answered, or deleted.
Ask(about, attempt) ==
    question' = [open |-> TRUE, about |-> about, attempt |-> attempt]

Answered(op, about) == question.open /\ work.op = op /\ question.about = about
TryAgain == question.attempt <= MaxAttempts

\* The scripts of a group, by their places in the list.
ByGroup(group) == {i \in DOMAIN scripts : scripts[i].group = group}

-----------------------------------------------------------------------------
\* SetConfig.

\* The logs of the groups other than "pre", which clear removes with their directories.
OtherLogs == {p \in logged : p[1] # "pre"}
Remove(logs) ==
    /\ logged' = logged \ logs
    /\ ran' = [p \in AllPaths |-> IF p \in logs THEN 0 ELSE ran[p]]

\* A bug to try: the scripts stay in the list.
ClearDirectories == Remove(OtherLogs) /\ UNCHANGED scripts

\* ScriptsRepository::clear: the directories, and then the whole list.
Clear == Remove(OtherLogs) /\ scripts' = <<>>

\* It fails at a directory, some of whose files may be gone already.
ClearFails == \E logs \in SUBSET OtherLogs : Remove(logs) /\ UNCHANGED scripts

HandleSetConfig ==
    /\ Handle("SetConfig")
    /\ \/ /\ Clear
          /\ work' = [op |-> "SetConfig", from |-> Caller, config |-> Message.config,
                      next |-> 1]
          /\ UNCHANGED <<tasks, spoilt>>
       \/ /\ ClearFails
          /\ Drop(Caller)
          /\ spoilt' = spoilt \union {"clear"}
          /\ UNCHANGED work
    /\ UNCHANGED <<files, target, progress, question, asked>>

ToAdd == work.config.scripts
NextToAdd == work' = [work EXCEPT !.next = @ + 1]

\* add_script: it is written, and in the list after that.
AddScript ==
    /\ work.op = "SetConfig" /\ work.next <= Len(ToAdd) /\ ~question.open
    /\ \/ /\ scripts' = Append(scripts, ToAdd[work.next])
          /\ NextToAdd
          /\ UNCHANGED question
       \/ Ask("add", 1) /\ UNCHANGED <<scripts, work>>
    /\ UNCHANGED <<logged, files, target, progress, mailbox, tasks, asked, ran, spoilt>>

\* A "Yes" is followed by the same question: the script is not added again.
AskToAddAgain ==
    /\ Answered("SetConfig", "add") /\ TryAgain
    /\ Ask("add", question.attempt + 1)
    /\ UNCHANGED <<serviceVars, mailbox, work, tasks, asked, ran, spoilt>>

SkipScript ==
    /\ Answered("SetConfig", "add")
    /\ NextToAdd
    /\ question' = NoQuestion
    /\ spoilt' = spoilt \union {"declined"}
    /\ UNCHANGED <<serviceVars, mailbox, tasks, asked, ran>>

\* The files stay the ones of before.
SetConfigAborted ==
    /\ Answered("SetConfig", "add")
    /\ ReturnError
    /\ spoilt' = spoilt \union {"deleted"}
    /\ UNCHANGED <<serviceVars, mailbox, asked, ran>>

SetFiles ==
    /\ work.op = "SetConfig" /\ work.next > Len(ToAdd)
    /\ files' = work.config.files
    /\ Return
    /\ UNCHANGED <<scripts, logged, target, progress, mailbox, asked, ran, spoilt>>

-----------------------------------------------------------------------------
\* RunScripts.

\* A bug to try: what ran already runs again.
FindAllScripts(group) == ByGroup(group)

\* find_scripts_to_run: a script with a log ran already.
FindScriptsToRun(group) == {i \in ByGroup(group) : Path(scripts[i]) \notin logged}

StartProgress(steps) ==
    progress' = IF progress = NoProgress THEN <<1, steps>> ELSE progress

\* The list of scripts is locked, so their places in it stay.
Run(todo, linked) ==
    work' = [op |-> "RunScripts", from |-> Caller, todo |-> todo, current |-> 0,
             linked |-> linked, fresh |-> TRUE]

\* link_resolv: TRUE when it links, FALSE when there is nothing to do.
LinkResolv(todo) ==
    \/ /\ \E i \in todo : scripts[i].chroot
       /\ ~target.link
       /\ target' = [target EXCEPT !.link = TRUE]
       /\ Run(todo, TRUE)
    \/ UNCHANGED target /\ Run(todo, FALSE)

HandleRunScripts ==
    /\ Handle("RunScripts")
    /\ ByGroup(Message.group) # {}
    /\ LET todo == FindScriptsToRun(Message.group)
       IN  StartProgress(Cardinality(todo)) /\ LinkResolv(todo)
    /\ UNCHANGED <<scripts, logged, files, question, tasks, asked, ran, spoilt>>

\* The error is only logged: no script runs, and the progress stays.
LinkFails ==
    /\ Handle("RunScripts")
    /\ LET todo == FindScriptsToRun(Message.group)
       IN  /\ \E i \in todo : scripts[i].chroot
           /\ StartProgress(Cardinality(todo))
    /\ Answer(Caller)
    /\ spoilt' = spoilt \union {"link"}
    /\ UNCHANGED <<scripts, logged, files, target, work, question, asked, ran>>

HandleNoScripts ==
    /\ Handle("RunScripts")
    /\ ByGroup(Message.group) = {}
    /\ Answer(Caller)
    /\ UNCHANGED <<serviceVars, work, question, asked, ran, spoilt>>

\* A bug to try: the last step is not checked.
NextStepUnchecked ==
    progress' = IF progress # NoProgress THEN <<progress[1] + 1, progress[2]>> ELSE progress

NextStep ==
    progress' = IF progress # NoProgress /\ progress[1] < progress[2]
                THEN <<progress[1] + 1, progress[2]>> ELSE progress

\* The progress moves on before the script runs, also before the first one.
NextScript ==
    /\ work.op = "RunScripts" /\ work.current = 0
    /\ NextStep
    /\ \E i \in work.todo :
          /\ \A j \in work.todo : i <= j
          /\ work' = [work EXCEPT !.current = i, !.todo = @ \ {i}, !.fresh = TRUE]
    /\ UNCHANGED <<scripts, logged, files, target, mailbox, question, tasks, asked,
                   ran, spoilt>>

\* run_command: the log is created first, and the script may fail.
RunCommand ==
    /\ work.op = "RunScripts" /\ work.current # 0 /\ ~question.open
    /\ LET path == Path(scripts[work.current])
       IN  \/ /\ logged' = logged \union {path}
              /\ ran' = IF work.fresh THEN [ran EXCEPT ![path] = @ + 1] ELSE ran
              /\ \/ /\ work' = [work EXCEPT !.current = 0]
                    /\ UNCHANGED question
                 \/ /\ work' = [work EXCEPT !.fresh = FALSE]
                    /\ Ask("run", 1)
           \/ Ask("run", 1) /\ UNCHANGED <<logged, ran, work>>
    /\ UNCHANGED <<scripts, files, target, progress, mailbox, tasks, asked, spoilt>>

RunAgain ==
    /\ Answered("RunScripts", "run") /\ TryAgain
    /\ question' = NoQuestion
    /\ UNCHANGED <<serviceVars, mailbox, work, tasks, asked, ran, spoilt>>

GiveUpScript ==
    /\ Answered("RunScripts", "run")
    /\ work' = [work EXCEPT !.current = 0]
    /\ question' = NoQuestion
    /\ spoilt' = spoilt \union {"declined"}
    /\ UNCHANGED <<serviceVars, mailbox, tasks, asked, ran>>

\* The error is only logged: the progress stays, and so does the link.
RunAborted ==
    /\ Answered("RunScripts", "run")
    /\ Return
    /\ spoilt' = spoilt \union {"deleted"}
    /\ UNCHANGED <<serviceVars, mailbox, asked, ran>>

\* A bug to try: the link is left.
UnlinkNever == UNCHANGED <<target, spoilt>>

\* unlink_resolv: when the link cannot be removed it stays, with a warning in
\* the log only, and a later run does not take it for its own (link_resolv).
UnlinkResolv ==
    \/ /\ target' = IF work.linked THEN [target EXCEPT !.link = FALSE] ELSE target
       /\ UNCHANGED spoilt
    \/ /\ work.linked
       /\ spoilt' = spoilt \union {"unlink"}
       /\ UNCHANGED target

EndScripts ==
    /\ work.op = "RunScripts" /\ work.current = 0 /\ work.todo = {}
    /\ UnlinkResolv
    /\ progress' = NoProgress
    /\ Return
    /\ UNCHANGED <<scripts, logged, files, mailbox, asked, ran>>

-----------------------------------------------------------------------------
\* Finish and GetResolvables.

HandleFinish ==
    /\ Handle("Finish")
    /\ work' = [op |-> "Finish", from |-> Caller, todo |-> files]
    /\ UNCHANGED <<serviceVars, question, tasks, asked, ran, spoilt>>

\* write_file; in contrast to a script, "Yes" is followed by a new attempt.
WriteFile ==
    /\ work.op = "Finish" /\ ~question.open
    /\ \E f \in work.todo :
          \/ /\ target' = [target EXCEPT !.files = @ \union {f}]
             /\ work' = [work EXCEPT !.todo = @ \ {f}]
             /\ UNCHANGED question
          \/ Ask(f, 1) /\ UNCHANGED <<target, work>>
    /\ UNCHANGED <<scripts, logged, files, progress, mailbox, tasks, asked, ran, spoilt>>

WriteAgain ==
    /\ question.open /\ work.op = "Finish" /\ TryAgain
    /\ \/ /\ target' = [target EXCEPT !.files = @ \union {question.about}]
          /\ work' = [work EXCEPT !.todo = @ \ {question.about}]
          /\ question' = NoQuestion
       \/ Ask(question.about, question.attempt + 1) /\ UNCHANGED <<target, work>>
    /\ UNCHANGED <<scripts, logged, files, progress, mailbox, tasks, asked, ran, spoilt>>

SkipFile ==
    /\ question.open /\ work.op = "Finish"
    /\ work' = [work EXCEPT !.todo = @ \ {question.about}]
    /\ question' = NoQuestion
    /\ UNCHANGED <<serviceVars, mailbox, tasks, asked, ran, spoilt>>

FinishAborted ==
    /\ question.open /\ work.op = "Finish"
    /\ ReturnError
    /\ UNCHANGED <<serviceVars, mailbox, asked, ran, spoilt>>

\* A bug to try: the handler only goes on with scripts for the first boot.
EnableServiceOnly ==
    /\ work.op = "Finish" /\ work.todo = {} /\ ~question.open
    /\ ByGroup("init") # {}
    /\ target' = [target EXCEPT !.service = TRUE]
    /\ Return
    /\ UNCHANGED <<scripts, logged, files, progress, mailbox, asked, ran, spoilt>>

EnableService ==
    /\ work.op = "Finish" /\ work.todo = {} /\ ~question.open
    /\ target' = [target EXCEPT !.service = ByGroup("init") # {}]
    /\ Return
    /\ UNCHANGED <<scripts, logged, files, progress, mailbox, asked, ran, spoilt>>

\* A bug to try: the scripts of another group count.
HasPostScripts == ByGroup("post") # {}

HasInitScripts == ByGroup("init") # {}

\* The software task passes the answer on to the software service.
HandleGetResolvables ==
    /\ Handle("GetResolvables")
    /\ asked' = HasInitScripts
    /\ Answer(Caller)
    /\ UNCHANGED <<serviceVars, work, question, ran, spoilt>>

-----------------------------------------------------------------------------
Service ==
    \/ HandleSetConfig \/ AddScript \/ SetFiles
    \/ HandleRunScripts \/ LinkFails \/ HandleNoScripts \/ NextScript \/ RunCommand
    \/ EndScripts
    \/ HandleFinish \/ WriteFile \/ EnableService \/ HandleGetResolvables

User ==
    \/ AskToAddAgain \/ SkipScript \/ SetConfigAborted
    \/ RunAgain \/ GiveUpScript \/ RunAborted
    \/ WriteAgain \/ SkipFile \/ FinishAborted

Calls == \E t \in DOMAIN tasks : SendCall(t)

Clients == (\E config \in Configs : WriteConfig(config)) \/ Install

Next == Service \/ User \/ Calls \/ Clients

\* The service and the tasks go on; the user need not answer.
Spec == Init /\ [][Next]_vars /\ WF_vars(Service) /\ WF_vars(Calls)

-----------------------------------------------------------------------------
\* The types of the variables.
Work ==
    {Idle}
    \union [op : {"SetConfig"}, from : Nat, config : Configs, next : Nat \ {0}]
    \union [op : {"RunScripts"}, from : Nat, todo : SUBSET Nat, current : Nat,
            linked : BOOLEAN, fresh : BOOLEAN]
    \union [op : {"Finish"}, from : Nat, todo : SUBSET AllFiles]

TaskType ==
    [kind : {"config"}, calls : {Configuration(c) : c \in Configs}, step : 1 .. 4,
     waits : BOOLEAN]
    \union [kind : {"install"}, calls : {Installation}, step : 1 .. 4, waits : BOOLEAN]

TypeOK ==
    /\ scripts \in Seq(AllScripts)
    /\ logged \subseteq AllPaths
    /\ files \subseteq AllFiles
    /\ target \in [files : SUBSET AllFiles, link : BOOLEAN, service : BOOLEAN]
    /\ \/ progress = NoProgress
       \/ progress \in Nat \X Nat /\ (progress[1] = 1 \/ progress[1] \in 2 .. progress[2])
    /\ mailbox \in Seq(DOMAIN tasks)
    /\ work \in Work
    /\ question.open => work # Idle /\ question.attempt \in 1 .. (MaxAttempts + 1)
    /\ tasks \in Seq(TaskType) /\ Len(tasks) <= MaxConfigs + 1
    /\ asked \in BOOLEAN
    /\ ran \in [AllPaths -> Nat]

Quiet == work = Idle /\ mailbox = <<>> /\ \A t \in DOMAIN tasks : Ended(t)

\* However many tasks ask for a group of scripts, and whatever is tried again
\* in between, a script is run for one of them only, until its directory is
\* removed for a new configuration; that of the group "pre" never is, so a
\* script of that group is not run again at all (find_scripts_to_run, clear).
RanOnce == \A p \in AllPaths : ran[p] <= 1

\* Whatever scripts ran and failed, between two calls no link to resolv.conf
\* is left in the target unless a question was deleted or the link could not
\* be removed, and no progress is open unless a question was deleted or the
\* link could not be made (ScriptsRunner::run, unlink_resolv).
Tidy ==
    work = Idle
    => /\ target.link => spoilt \cap {"deleted", "unlink"} # {}
       /\ progress # NoProgress => spoilt \cap {"deleted", "link"} # {}

\* Whatever the order of the tasks of several configurations, in the end the
\* scripts and the files are the ones of one configuration, whose pre-scripts
\* have run (clear_scripts, add_scripts, RunScripts).
ScriptsSettle ==
    (Quiet /\ tasks # <<>> /\ spoilt \subseteq {"early", "unlink"})
    => /\ \E c \in Configs : scripts = c.scripts /\ files = c.files
       /\ \A i \in ByGroup("pre") : Path(scripts[i]) \in logged

\* The service that runs the scripts of the first boot is not enabled without
\* the package it is in being asked for, unless the installation started
\* early or a question was deleted (Finish, GetResolvables).
ServiceHasPackage ==
    (target.service /\ spoilt \cap {"early", "deleted"} = {}) => asked

\* A handler ends or asks the user, whatever fails.
HandlersEnd == (work # Idle) ~> (work = Idle \/ question.open)
=============================================================================
