------------------------------ MODULE ZyppServer ------------------------------
(***************************************************************************)
(* The thread that owns libzypp, rust/agama-software/src/zypp_server.rs.   *)
(*                                                                         *)
(* It takes one action at a time from its channel and answers through a    *)
(* oneshot channel: an action whose handler leaves early drops that        *)
(* channel, and the caller gets an error.  libzypp, the registration       *)
(* server and the disk are outside: each call to them may fail.  A handler *)
(* is split where its progress, which everybody sees, or a question to the *)
(* user makes the steps visible.  A question is a step that waits: the     *)
(* user may never answer.                                                  *)
(*                                                                         *)
(* Left out: libzypp's own dependencies (what the solver adds), the keys   *)
(* that come with the live system, the locales, the package that stands    *)
(* for the product (find_release_package), and the choice between the      *)
(* configured keys and the questions that libzypp's callbacks ask.         *)
(***************************************************************************)
EXTENDS SoftwareState

CONSTANT MaxRetries         \* bound on how often a failed commit is tried again

ASSUME MaxRetriesAssumption == MaxRetries \in Nat

VARIABLES thread,           \* whether ZyppServer::run is in its loop
          job,              \* the action that the thread works on
          reply,            \* the oneshot channel of the caller
          registration,     \* ZyppServer.registration
          trusted,          \* ZyppServer.trusted_keys and unsigned_repos
          target,           \* what libzypp holds
          progress,         \* the progress of Scope::Software: <<step, steps>>
          asking            \* whether a question of the thread waits for the user

zyppVars == <<thread, job, reply, registration, trusted, target, progress, asking>>

NoJob == [op |-> "none"]
NoProgress == <<>>
NoReply == [type |-> "none"]
Waiting == [type |-> "waiting"]
Dropped == [type |-> "dropped"]
Failed == [type |-> "error"]
Answer(value) == [type |-> "ok", value |-> value]

NotRegistered == [status |-> "none", product |-> "none", addons |-> {}, services |-> {}]
RegistrationFailed == [NotRegistered EXCEPT !.status = "failed"]

ZyppInit ==
    /\ thread = "running"
    /\ job = NoJob
    /\ reply = NoReply
    /\ registration = NotRegistered
    /\ trusted = {}
    /\ target = [repositories |-> [a \in Aliases |-> NoUrl],
                 product |-> "none", chosen |-> {}, installed |-> {}]
    /\ progress = NoProgress
    /\ asking = FALSE

-----------------------------------------------------------------------------
\* The messages to the progress service.  They are cast, so an error of the
\* service (a second progress, no more steps, no progress) goes unnoticed.

StartWithSteps(steps) == progress' = IF progress = NoProgress THEN <<1, steps>> ELSE progress

\* A bug to try: the last step is not checked.
NextStepUnchecked ==
    progress' = IF progress # NoProgress THEN <<progress[1] + 1, progress[2]>> ELSE progress

NextStep ==
    progress' = IF progress # NoProgress /\ progress[1] < progress[2]
                THEN <<progress[1] + 1, progress[2]>>
                ELSE progress

FinishProgress == progress' = NoProgress

-----------------------------------------------------------------------------
\* An issue is told apart by its scope, "software" or "product".

\* A handler goes on with another step, answers, or leaves with an error.

Goto(step) == job' = [job EXCEPT !.step = step] /\ UNCHANGED reply

Reply(answer) == job' = NoJob /\ reply' = answer

At(op, step) == thread = "running" /\ job.op = op /\ job.step = step /\ ~asking

\* A bug to try: a channel without a receiver takes the action.
SendAnyway(action) == job' = action /\ reply' = Waiting

\* The caller puts its action in the channel.  When the thread is gone the
\* channel has no receiver.
Send(action) ==
    IF thread = "running" THEN job' = action /\ reply' = Waiting
    ELSE UNCHANGED job /\ reply' = Failed

\* A question of the thread: ask_software_question blocks it.
AskQuestion ==
    /\ ~asking
    /\ job.op \in {"write", "install"} /\ job.step \in {"register", "load", "commit"}
    /\ asking' = TRUE
    /\ UNCHANGED <<thread, job, reply, registration, trusted, target, progress>>

AnswerQuestion ==
    /\ asking /\ job.step # "retry"
    /\ asking' = FALSE
    /\ UNCHANGED <<thread, job, reply, registration, trusted, target, progress>>

-----------------------------------------------------------------------------
\* ZyppServer::write.

WriteAction(wanted) ==
    [op |-> "write", step |-> "start", wanted |-> wanted, issues |-> {}]

WriteStart ==
    /\ At("write", "start")
    /\ StartWithSteps(IF job.wanted.registration.wanted THEN 4 ELSE 3)
    /\ \/ Reply(Dropped)                    \* the repositories cannot be read
       \/ Goto(IF job.wanted.registration.wanted THEN "register" ELSE "repositories")
    /\ UNCHANGED <<thread, registration, trusted, target, asking>>

\* register_base_system: what was registered is not registered again, what
\* failed is.
RegisterBase ==
    IF registration.status = "registered" THEN {registration}
    ELSE {RegistrationFailed,
          [status |-> "registered", product |-> job.wanted.product,
           addons |-> {}, services |-> {"base"}]}

\* register_addons: an addon may fail before or after its service is added,
\* and one that is registered is skipped.
RegisterAddons(base) ==
    LET missing == job.wanted.registration.addons \ base.addons
        outcomes == {o \in [added : SUBSET missing, done : SUBSET missing] :
                        o.done \subseteq o.added}
    IN  IF base.status # "registered" THEN {base}
        ELSE {[base EXCEPT !.addons = @ \union o.done,
                           !.services = @ \union o.added] : o \in outcomes}

\* send_issues_and_finish.
SendIssues(issues) == FinishProgress /\ Reply(Answer(issues))

\* update_registration; any failure ends the handler.
WriteRegister ==
    /\ At("write", "register")
    /\ \E base \in RegisterBase : \E after \in RegisterAddons(base) :
          /\ registration' = after
          /\ IF after.status = "failed"
                \/ ~(job.wanted.registration.addons \subseteq after.addons)
             THEN SendIssues({"product"})
             ELSE NextStep /\ Goto("repositories")
    /\ UNCHANGED <<thread, trusted, target, asking>>

ToAdd(wanted) ==
    {a \in Aliases : wanted[a] # NoUrl /\ target.repositories[a] = NoUrl}
ToRemove(wanted) ==
    {a \in Aliases : wanted[a] = NoUrl /\ target.repositories[a] # NoUrl}

\* Repositories are told apart by their alias only.
WriteRepositories ==
    /\ At("write", "repositories")
    /\ trusted' = job.wanted.trusted
    /\ LET wanted == job.wanted.repositories
           toAdd == ToAdd(wanted)
           toRemove == ToRemove(wanted)
       IN  \E failed \in SUBSET (toAdd \union toRemove) :
             /\ target' = [target EXCEPT !.repositories =
                              [a \in Aliases |->
                                  IF a \in (toAdd \union toRemove) \ failed
                                  THEN wanted[a] ELSE @[a]]]
             /\ job' = [job EXCEPT !.step = "load",
                            !.issues = IF failed = {} THEN @ ELSE {"software"}]
    /\ NextStep
    /\ UNCHANGED <<thread, reply, registration, asking>>

WriteLoad ==
    /\ At("write", "load")
    /\ \E issues \in {{}, {"software"}} :
          job' = [job EXCEPT !.step = "select", !.issues = @ \union issues]
    /\ NextStep
    /\ UNCHANGED <<thread, reply, registration, trusted, target, asking>>

\* Everything is unselected before the product is looked for.  (The issue also
\* says whether the system should be registered.)
WriteMissingProduct ==
    /\ At("write", "select")
    /\ target' = [target EXCEPT !.product = "none", !.chosen = {}]
    /\ SendIssues({"software"})
    /\ UNCHANGED <<thread, registration, trusted, asking>>

SelectedIn(resolvables) ==
    {r \in Resolvables : resolvables[r] \in {"mandatory", "optional", "selected"}}

\* A bug to try: no resolvable that is missing is reported.
IssuesOfMissingAuto(resolvables, missing) ==
    IF \E r \in missing : resolvables[r] = "selected" THEN {"software"} ELSE {}

\* Only the optional resolvables may be missing without an issue.
IssuesOfMissing(resolvables, missing) ==
    IF \E r \in missing : resolvables[r] # "optional" THEN {"software"} ELSE {}

WriteSelect ==
    /\ At("write", "select")
    /\ LET selected == SelectedIn(job.wanted.resolvables)
       IN  \E missing \in SUBSET selected :
             /\ target' = [target EXCEPT !.product = job.wanted.product,
                                         !.chosen = selected \ missing]
             /\ job' = [job EXCEPT !.step = "solve",
                            !.issues = @ \union IssuesOfMissing(job.wanted.resolvables, missing)]
    /\ UNCHANGED <<thread, reply, registration, trusted, progress, asking>>

\* The products of the addons are selected again, and a failure leaves the
\* handler; a solver that cannot run leaves no issue.
WriteSolve ==
    /\ At("write", "solve")
    /\ \/ \E issues \in {{}, {"software"}} : SendIssues(job.issues \union issues)
       \/ /\ registration.services \ {"base"} # {}
          /\ Reply(Dropped)
          /\ UNCHANGED progress
    /\ UNCHANGED <<thread, registration, trusted, target, asking>>

-----------------------------------------------------------------------------
\* ZyppServer::install.

InstallAction == [op |-> "install", step |-> "switch", tries |-> 0]

InstallSwitchTarget ==
    /\ At("install", "switch")
    /\ \/ Reply(Failed) /\ UNCHANGED progress
       \/ Goto("commit") /\ progress' = <<1, 2>>
    /\ UNCHANGED <<thread, registration, trusted, target, asking>>

\* The packages are downloaded and installed; what an error leaves behind is
\* not cleaned up.
InstallCommit ==
    /\ At("install", "commit")
    /\ \/ /\ target' = [target EXCEPT !.installed = @ \union target.chosen]
          /\ FinishProgress
          /\ Reply(Answer(TRUE))
          /\ UNCHANGED asking
       \/ /\ \E part \in SUBSET target.chosen :
                target' = [target EXCEPT !.installed = @ \union part]
          /\ Goto("retry")
          /\ asking' = TRUE
          /\ UNCHANGED progress
       \/ Reply(Failed) /\ UNCHANGED <<target, progress, asking>>
    /\ UNCHANGED <<thread, registration, trusted>>

\* The user answers whether to try again; an error of the question is a no.
InstallRetry ==
    /\ job.op = "install" /\ job.step = "retry"
    /\ job.tries < MaxRetries
    /\ job' = [job EXCEPT !.step = "commit", !.tries = @ + 1]
    /\ progress' = <<1, 2>>
    /\ asking' = FALSE
    /\ UNCHANGED <<thread, reply, registration, trusted, target>>

InstallGiveUp ==
    /\ job.op = "install" /\ job.step = "retry"
    /\ FinishProgress
    /\ Reply(Answer(FALSE))
    /\ asking' = FALSE
    /\ UNCHANGED <<thread, registration, trusted, target>>

-----------------------------------------------------------------------------
\* ZyppServer::finish, and the end of the loop whatever it answered.  The
\* repositories of the installer are removed; one that cannot be is left.

FinishAction == [op |-> "finish", step |-> "finish"]

FinishSystem ==
    /\ At("finish", "finish")
    /\ \E stuck \in SUBSET {"agama-0"} :
          target' = [target EXCEPT !.repositories =
                        [a \in Aliases |->
                            IF a = "agama-0" /\ a \notin stuck THEN NoUrl ELSE @[a]]]
    /\ \E answer \in {Answer(TRUE), Failed} : Reply(answer)
    /\ thread' = "stopped"
    /\ UNCHANGED <<registration, trusted, progress, asking>>

-----------------------------------------------------------------------------
\* ZyppServer::proposal and ZyppServer::system_info.

ReadAction(op) == [op |-> op, step |-> "read"]

Read ==
    /\ At("proposal", "read") \/ At("system", "read")
    /\ \/ Reply(Answer({}))
       \/ Reply(Dropped)
    /\ UNCHANGED <<thread, registration, trusted, target, progress, asking>>

-----------------------------------------------------------------------------
ZyppWrite == WriteStart \/ WriteRegister \/ WriteRepositories \/ WriteLoad
                \/ WriteMissingProduct \/ WriteSelect \/ WriteSolve

\* What the thread does of its own accord, and what is up to the user.
ZyppStep == ZyppWrite \/ InstallSwitchTarget \/ InstallCommit \/ FinishSystem \/ Read

ZyppUser == AskQuestion \/ AnswerQuestion \/ InstallRetry \/ InstallGiveUp
=============================================================================
