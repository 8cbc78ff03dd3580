------------------------------- MODULE Software -------------------------------
(***************************************************************************)
(* The software service, rust/agama-software/src/service.rs, between the   *)
(* zypp thread of ZyppServer and the manager that calls it.                *)
(*                                                                         *)
(* The service is an actor: while it waits for the answer of the thread,   *)
(* what others send stays in its mailbox.  The manager,                    *)
(* rust/agama-manager/src/service.rs, is an actor as well: its product,    *)
(* its issue and the requests that reach the software service are modelled *)
(* here.  A configuration is applied by a task of the task manager, and    *)
(* the tasks of two configurations are not ordered (module ConfigTasks).   *)
(* The channel of events is taken to have a receiver.                      *)
(***************************************************************************)
EXTENDS ZyppServer, Sequences

CONSTANTS Products,         \* the specifications of the products
          Configs,          \* what clients write: a product and its software
          Asked,            \* what each service may ask for: resolvable -> selection
          MaxRequests,      \* bound on the requests before the installation
          MaxConfigs        \* bound: only the first ones write a configuration

\* A client names a product, one that does not exist, or none.
\* What a configuration says of patterns and of packages is kept apart, as they
\* are by their type; only a list or a map names patterns, and only a map
\* removes them (PatternsConfig).  What the services ask for is always selected
\* automatically (SetResolvables).
ASSUME ProductsAssumption == \A p \in Products : p.preselected \subseteq Patterns
ASSUME ConfigsAssumption ==
    \A c \in Configs :
        /\ c.product \in {p.id : p \in Products} \union {"none", "unknown"}
        /\ c.patterns.kind \in {"none", "list", "map"}
        /\ c.patterns.add \subseteq Patterns /\ c.patterns.remove \subseteq Patterns
        /\ c.patterns.kind = "none" => c.patterns.add = {}
        /\ c.patterns.kind # "map" => c.patterns.remove = {}
        /\ c.packages \subseteq Packages
ASSUME BoundsAssumption == MaxRequests \in Nat /\ MaxConfigs \in Nat
ASSUME AskedAssumption ==
    Asked \in [Ids -> SUBSET [Resolvables -> Automatic \union {"none"}]]

VARIABLES mailbox,          \* the messages that wait for the service
          svc,              \* what the service does, and for which message
          product,          \* Service.product
          config,           \* ServiceState.config
          selection,        \* Service.selection
          wanted,           \* ServiceState.state
          issues,           \* the scopes with issues: Software, Product
          manager,          \* product, no_product issue, and the call it waits for
          stage,            \* the stage of the installation
          calm,             \* whether nothing was on the way when it started
          tasks,            \* the software tasks with calls that they did not make yet
          requests          \* how many requests the clients made

serviceVars == <<mailbox, svc, product, config, selection, wanted, issues>>
managerVars == <<manager, stage, calm, tasks, requests>>
vars == <<zyppVars, serviceVars, managerVars>>

ProductIds == {p.id : p \in Products}
Specification(id) == CHOOSE p \in Products : p.id = id

SetConfig(c) == [type |-> "SetConfig", config |-> c]
SetResolvables(task, id, asked) ==
    [type |-> "SetResolvables", task |-> task, id |-> id, asked |-> asked]
Message(type) == [type |-> type]

Idle == [step |-> "idle", for |-> "none"]
NoConfig == [none |-> TRUE]

Init ==
    /\ ZyppInit
    /\ mailbox = <<>>
    /\ svc = Idle
    /\ product = "none"
    /\ config = NoConfig
    /\ selection = [i \in Ids |-> [r \in Resolvables |-> "none"]]
    /\ wanted = NoState
    /\ issues = {}
    /\ manager = [product |-> "none", issue |-> TRUE, waits |-> "no"]
    /\ stage = "configuring"
    /\ calm = TRUE
    /\ tasks = {}
    /\ requests = 0

-----------------------------------------------------------------------------
\* The handlers of the service.

Post(message) == mailbox' = Append(mailbox, message)

Take(type) == svc = Idle /\ mailbox # <<>> /\ Head(mailbox).type = type
                /\ mailbox' = Tail(mailbox)

Work(step) == svc' = [step |-> step, for |-> Head(mailbox).type]

\* The end of a handler: the manager goes on if it called it.
Return(type) ==
    /\ svc' = Idle
    /\ manager' = IF type = manager.waits THEN [manager EXCEPT !.waits = "no"] ELSE manager

\* calculate_wanted_state.
Wanted(id, c) ==
    {BuildFrom(Specification(id), c, selection, order) : order \in Orders}

\* update_proposal: without a wanted state there is nothing to do.
UpdateProposal(state) ==
    IF state = NoState
    THEN Return(Head(mailbox).type) /\ UNCHANGED <<job, reply>>
    ELSE Send(WriteAction(state)) /\ Work("writing") /\ UNCHANGED manager

HandleSetConfig ==
    /\ Take("SetConfig")
    /\ product' = Head(mailbox).config.product
    /\ config' = Head(mailbox).config
    /\ wanted' \in Wanted(product', config')
    /\ UpdateProposal(wanted')
    /\ UNCHANGED <<thread, registration, trusted, target, progress, asking,
                   selection, issues, stage, calm, tasks, requests>>

HandleProbe ==
    /\ Take("Probe")
    /\ wanted' \in IF product = "none" THEN {wanted} ELSE Wanted(product, config)
    /\ UpdateProposal(wanted')
    /\ UNCHANGED <<thread, registration, trusted, target, progress, asking,
                   product, config, selection, issues, stage, calm, tasks, requests>>

HandleSetLocale ==
    /\ Take("SetLocale")
    /\ UpdateProposal(wanted)
    /\ UNCHANGED <<thread, registration, trusted, target, progress, asking,
                   product, config, selection, wanted, issues,
                   stage, calm, tasks, requests>>

HandleSetResolvables ==
    /\ Take("SetResolvables")
    /\ selection' = [selection EXCEPT ![Head(mailbox).id] = Head(mailbox).asked]
    /\ UNCHANGED <<zyppVars, svc, product, config, wanted, issues, managerVars>>

HandleGetSystem ==
    /\ Take("GetSystem")
    /\ Return("GetSystem")
    /\ UNCHANGED <<zyppVars, product, config, selection, wanted, issues,
                   stage, calm, tasks, requests>>

HandleInstall ==
    /\ Take("Install")
    /\ Send(InstallAction)
    /\ Work("installing")
    /\ UNCHANGED <<thread, registration, trusted, target, progress, asking,
                   product, config, selection, wanted, issues, managerVars>>

HandleFinish ==
    /\ Take("Finish")
    /\ Send(FinishAction)
    /\ Work("finishing")
    /\ UNCHANGED <<thread, registration, trusted, target, progress, asking,
                   product, config, selection, wanted, issues, managerVars>>

-----------------------------------------------------------------------------
\* The service goes on when the thread has answered.

Answered(step) == svc.step = step /\ reply.type \notin {"none", "waiting"}
Succeeded == reply.type = "ok"

\* A bug to try: the issues are published only when the thread answered.
IssuesOfAnswer == IF Succeeded THEN reply.value ELSE issues

\* The issues of the thread, or the one of an internal error.
IssuesFound == IF Succeeded THEN reply.value ELSE {"software"}

WriteAnswered ==
    /\ Answered("writing")
    /\ issues' = IssuesFound
    /\ Send(ReadAction("proposal"))
    /\ svc' = [svc EXCEPT !.step = "proposal"]
    /\ UNCHANGED <<thread, registration, trusted, target, progress, asking,
                   mailbox, product, config, selection, wanted, managerVars>>

\* A proposal or a system that cannot be read leaves the one of before, and no
\* issue; neither is kept here.
ProposalAnswered ==
    /\ Answered("proposal")
    /\ Send(ReadAction("system"))
    /\ svc' = [svc EXCEPT !.step = "system"]
    /\ UNCHANGED <<thread, registration, trusted, target, progress, asking,
                   mailbox, product, config, selection, wanted, issues, managerVars>>

SystemAnswered ==
    /\ Answered("system")
    /\ reply' = NoReply
    /\ Return(svc.for)
    /\ UNCHANGED <<thread, job, registration, trusted, target, progress, asking,
                   mailbox, product, config, selection, wanted, issues,
                   stage, calm, tasks, requests>>

\* The task that installs the software calls Finish later, if it succeeds.
InstallAnswered ==
    /\ Answered("installing")
    /\ reply' = NoReply
    /\ svc' = Idle
    /\ IF Succeeded /\ reply.value
       THEN Post(Message("Finish")) /\ UNCHANGED stage
       ELSE stage' = "failed" /\ UNCHANGED mailbox
    /\ UNCHANGED <<thread, job, registration, trusted, target, progress, asking,
                   product, config, selection, wanted, issues,
                   manager, calm, tasks, requests>>

FinishAnswered ==
    /\ Answered("finishing")
    /\ reply' = NoReply
    /\ svc' = Idle
    /\ stage' = IF Succeeded THEN "finished" ELSE "failed"
    /\ UNCHANGED <<thread, job, registration, trusted, target, progress, asking,
                   mailbox, product, config, selection, wanted, issues,
                   manager, calm, tasks, requests>>

-----------------------------------------------------------------------------
\* The manager.  It handles one request at a time, too.

Request(stages) ==
    /\ manager.waits = "no"
    /\ stage \in stages
    /\ requests < MaxRequests
    /\ requests' = requests + 1

\* set_product drops the product first: an unknown one leaves none, and the
\* issue of before.  Without a product there is no software task.
ManagerSetConfig(c) ==
    /\ Request({"configuring"}) /\ requests < MaxConfigs
    /\ manager' = [manager EXCEPT
                      !.product = IF c.product \in ProductIds THEN c.product ELSE "none",
                      !.issue = IF c.product = "unknown" THEN @ ELSE c.product = "none"]
    /\ tasks' = IF c.product \in ProductIds
                THEN tasks \union {[id |-> requests, config |-> c, todo |-> Ids]}
                ELSE tasks
    /\ UNCHANGED <<zyppVars, serviceVars, stage, calm>>

\* The software task waits for the answer to each of its calls.
Waits(t) ==
    \E k \in DOMAIN mailbox :
        mailbox[k].type = "SetResolvables" /\ mailbox[k].task = t.id

\* It asks the other services what they need, one after the other in a fixed
\* order; one that does not answer needs nothing.
TaskSetResolvables(t, i, asked) ==
    /\ ~Waits(t)
    /\ t.todo # {} /\ i = (CHOOSE j \in t.todo : TRUE)
    /\ Post(SetResolvables(t.id, i, asked))
    /\ tasks' = (tasks \ {t}) \union {[t EXCEPT !.todo = @ \ {i}]}
    /\ UNCHANGED <<zyppVars, svc, product, config, selection, wanted, issues,
                   manager, stage, calm, requests>>

\* Its last call; nothing but the status looks at the task after that.
TaskSetConfig(t) ==
    /\ ~Waits(t)
    /\ t.todo = {}
    /\ Post(SetConfig(t.config))
    /\ tasks' = tasks \ {t}
    /\ UNCHANGED <<zyppVars, svc, product, config, selection, wanted, issues,
                   manager, stage, calm, requests>>

\* configure_l10n.
ManagerSetLocale ==
    /\ Request({"configuring"})
    /\ Post(Message("SetLocale"))
    /\ UNCHANGED <<zyppVars, svc, product, config, selection, wanted, issues,
                   manager, stage, calm, tasks>>

ManagerProbe ==
    /\ Request({"configuring"})
    /\ Post(Message("Probe"))
    /\ manager' = [manager EXCEPT !.waits = "Probe"]
    /\ UNCHANGED <<zyppVars, svc, product, config, selection, wanted, issues,
                   stage, calm, tasks>>

\* is_software_available.  It also looks for a task of the software in the
\* status of the progress service, where there is never one: the tasks are
\* only put in the status that the manager itself returns.
SoftwareAvailable == stage # "installing" /\ progress = NoProgress

\* GetSystem, GetExtendedConfig and GetProposal.
ManagerGetSystem ==
    /\ Request({"configuring", "installing", "failed", "finished"})
    /\ SoftwareAvailable
    /\ Post(Message("GetSystem"))
    /\ manager' = [manager EXCEPT !.waits = "GetSystem"]
    /\ UNCHANGED <<zyppVars, svc, product, config, selection, wanted, issues,
                   stage, calm, tasks>>

\* The checks of InstallAction, and the installation up to the software.
ManagerInstall ==
    /\ manager.waits = "no" /\ stage = "configuring"
    /\ ~manager.issue /\ issues = {} /\ progress = NoProgress
    /\ stage' = "installing"
    /\ calm' = (mailbox = <<>> /\ svc = Idle /\ tasks = {})
    /\ Post(Message("Install"))
    /\ UNCHANGED <<zyppVars, svc, product, config, selection, wanted, issues,
                   manager, tasks, requests>>

-----------------------------------------------------------------------------
Zypp == ZyppStep /\ UNCHANGED <<serviceVars, managerVars>>

User == ZyppUser /\ UNCHANGED <<serviceVars, managerVars>>

Service ==
    \/ HandleSetConfig \/ HandleProbe \/ HandleSetLocale \/ HandleSetResolvables
    \/ HandleGetSystem \/ HandleInstall \/ HandleFinish
    \/ WriteAnswered \/ ProposalAnswered \/ SystemAnswered
    \/ InstallAnswered \/ FinishAnswered

Task(t) ==
    \/ \E i \in Ids : \E asked \in Asked[i] : TaskSetResolvables(t, i, asked)
    \/ TaskSetConfig(t)

Clients ==
    \/ \E c \in Configs : ManagerSetConfig(c)
    \/ ManagerSetLocale \/ ManagerProbe \/ ManagerGetSystem \/ ManagerInstall

Next == Zypp \/ User \/ Service \/ (\E t \in tasks : Task(t)) \/ Clients

\* The thread, the service and the tasks go on; the user need not answer.
Fairness == WF_vars(Zypp) /\ WF_vars(Service) /\ WF_vars(\E t \in tasks : Task(t))

Spec == Init /\ [][Next]_vars /\ Fairness

-----------------------------------------------------------------------------
\* The types of the variables.
TypeOK ==
    /\ thread \in {"running", "stopped"}
    /\ job.op \in {"none", "write", "install", "finish", "proposal", "system"}
    /\ reply.type \in {"none", "waiting", "dropped", "error", "ok"}
    /\ registration.status \in {"none", "failed", "registered"}
    /\ trusted \subseteq Aliases
    /\ target.chosen \subseteq Resolvables /\ target.installed \subseteq Resolvables
    /\ target.product \in ProductIds \union {"none"}
    /\ progress = NoProgress \/ (progress[1] \in 1 .. progress[2] /\ progress[2] \in 2 .. 4)
    /\ asking \in BOOLEAN
    /\ svc.step \in {"idle", "writing", "proposal", "system", "installing", "finishing"}
    /\ product \in ProductIds \union {"none"}
    /\ stage \in {"configuring", "installing", "finished", "failed"}
    /\ requests \in 0 .. MaxRequests

\* Whatever the order of the steps that build it, the wanted state selects a
\* resolvable for the one with the highest priority: the product, then the
\* services of the installer, then the user (SoftwareStateBuilder::build).  When
\* two services ask for the same one, the hash map of their lists decides which
\* of them is heard, and nothing else.
WantedByPriority ==
    [][wanted' # wanted =>
          \A r \in Resolvables :
              wanted'.resolvables[r]
                  \in ByPriority(Specification(product'), config', selection, r)]_vars

\* When nothing is on the way and no issue of the software is shown, libzypp
\* holds what is wanted: the product, the repositories, what is trusted and
\* every resolvable that may not be missing (Service::update_proposal,
\* ZyppServer::write).  An issue can be the only trace of a failure.
NoIssuesInSync ==
    (/\ stage = "configuring" /\ mailbox = <<>> /\ svc = Idle
     /\ issues = {} /\ wanted # NoState)
    => /\ target.product = wanted.product
       /\ \A r \in Resolvables :
             wanted.resolvables[r] \in {"mandatory", "selected"} => r \in target.chosen
       /\ \A a \in Aliases :
             (target.repositories[a] = NoUrl) <=> (wanted.repositories[a] = NoUrl)
       /\ trusted = wanted.trusted
       /\ wanted.registration.wanted =>
             registration.status = "registered"
             /\ wanted.registration.addons \subseteq registration.addons
       /\ progress = NoProgress

\* What is installed is what the last configuration asked for, when nothing
\* was on the way as the installation started (InstallAction's checks do not
\* look at the tasks, so it may start with a configuration on the way).
InstalledIsWanted ==
    (stage = "finished" /\ calm)
    => \A r \in Resolvables :
          wanted.resolvables[r] \in {"mandatory", "selected"} => r \in target.installed

\* A handler of the service ends, unless the user leaves a question open:
\* every failure of the thread reaches the service (the answer is dropped
\* with the action).
ServiceReturns == (svc # Idle) ~> (svc = Idle \/ asking)
=============================================================================
