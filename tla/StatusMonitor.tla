---------------------------- MODULE StatusMonitor ----------------------------
(***************************************************************************)
(* A client that follows the status of the installation: the monitor of    *)
(* rust/agama-lib/src/monitor.rs (the progress that the command line shows *)
(* while a configuration is loaded or a system is installed) or the wait   *)
(* before a command, wait_until_idle of rust/agama-cli/src/lib.rs.         *)
(*                                                                         *)
(* It extends the progress service with the task manager, which sends its  *)
(* events to the same channel, with the WebSocket handler of               *)
(* rust/agama-server/src/web/ws.rs and with the client.  The client        *)
(* connects, asks for the status with a request of its own and applies the *)
(* events from there on.  The handler subscribes to the channel in a task  *)
(* that runs once the connection is upgraded, before or after the request. *)
(***************************************************************************)
EXTENDS Progress, FiniteSets

CONSTANTS MaxTasks, MaxCallers,     \* bounds of TaskManager
          Capacity,                 \* EVENTS_CAPACITY, of the channel
          StopOnIdle                \* Monitor.stop_on_idle

ASSUME ChannelAssumption == Capacity \in Nat \ {0}
ASSUME MonitorAssumption ==
    /\ StopOnIdle \in BOOLEAN
    /\ MaxTasks \in Nat /\ MaxCallers \in Nat

\* The channel, events, holds what was sent and the client has not read.
VARIABLES
    next_id, succeeded, failed, metadata, deps, run_always, failed_deps, pc,
    reported,       \* how many events the progress service has sent
    subscribed,     \* whether handle_socket has subscribed to the channel
    closed,         \* whether its loop has ended
    client,         \* "monitor" or "waiter"
    at,             \* the point that the client has reached
    view,           \* Monitor.status.status, or the status of the waiter
    seen_busy,      \* Monitor.seen_busy
    early           \* history: subscribed when the request was handled

taskVars == <<next_id, succeeded, failed, metadata, deps, run_always,
              failed_deps, pc>>
progressVars == <<stage, progresses, reported>>
serverVars == <<taskVars, progressVars>>
socketVars == <<subscribed, closed>>
clientVars == <<client, at, view, seen_busy, early>>
monitorVars == <<serverVars, events, socketVars, clientVars>>

Tasks == INSTANCE TaskManager

Idle(status) == status.progresses = {} /\ status.tasks = {}
Status == [stage |-> stage, progresses |-> ToSet(progresses), tasks |-> metadata]

\* The points of the client.
\*   "away"       not connected yet
\*   "asking"     connected, about to ask for the status
\*   "answered"   the manager has read its tasks, not yet the progress
\*   "watching"   has the status, receives events
\*   "finished"   sent MonitorUpdate::Finished, or the wait is over
\*   "cut"        the connection was closed: Disconnected or an error
Over == {"finished", "cut"}
At == {"away", "asking", "answered", "watching"} \union Over

\* The socket and the client are always somewhere their code can be.
MonitorTypeOK ==
    /\ subscribed \in BOOLEAN /\ closed \in BOOLEAN
    /\ reported \in 0 .. MaxEvents
    /\ \A i \in DOMAIN events : events[i] \in Tasks!Event \union Event
    /\ client \in {"monitor", "waiter"}
    /\ at \in At
    /\ view.stage \in Stage /\ view.tasks \subseteq Tasks!TaskIds
    /\ \A p \in view.progresses : p \in ProgressType
    /\ seen_busy \in BOOLEAN /\ early \in BOOLEAN

MonitorInit ==
    /\ Tasks!Init
    /\ stage = "configuring" /\ reported = 0
    /\ progresses \in {<<>>} \union {<<NewProgress(s, MaxSize)>> : s \in Scopes}
    /\ subscribed = FALSE /\ closed = FALSE
    /\ client \in {"monitor", "waiter"}
    /\ at = "away" /\ view = Status
    /\ seen_busy = FALSE /\ early = FALSE

-----------------------------------------------------------------------------
(* The server.  The work of the tasks is abstract, so the progress is      *)
(* reported at any time: a client cannot tell who reports it.              *)

\* What the server does after the end of the client is left out, and an event
\* sent before the subscription is gone (Unheard) before the next one.
Followed == at \notin Over /\ (subscribed \/ events = <<>>)

TaskStep(A) ==
    Followed /\ A /\ UNCHANGED <<progressVars, socketVars, clientVars>>

\* The tasks are submitted with run: those of run_always send the same events
\* except that they are never cancelled.
Submit ==
    TaskStep(\E id \in Tasks!TaskIds :
                \/ \E ds \in SUBSET Tasks!TaskIds : Tasks!NextId(id, ds, FALSE)
                \/ Tasks!StoreMetadata(id)
                \/ Tasks!Spawn(id))

RunTask(id) == TaskStep(Tasks!TaskStep(id))

Report ==
    /\ Followed
    /\ reported < MaxEvents
    /\ reported' = reported + 1
    /\ \/ SetStage("installing")
       \/ \E scope \in Scopes :
             \/ Start(scope, MaxSize)
             \/ Advance(scope)
             \/ Finish(scope)
    /\ UNCHANGED <<taskVars, socketVars, clientVars>>

-----------------------------------------------------------------------------
(* handle_socket                                                           *)

Connected == at # "away"

\* The channel does not keep for a receiver what was sent before it existed.
Unheard ==
    /\ ~subscribed /\ events # <<>>
    /\ events' = <<>>
    /\ UNCHANGED <<serverVars, socketVars, clientVars>>

Subscribe ==
    /\ Connected /\ ~subscribed
    /\ subscribed' = TRUE
    /\ events' = <<>>
    /\ UNCHANGED <<serverVars, closed, clientVars>>

\* The handler writes what it receives to the socket, which keeps it for the
\* client.  When the events that the client has not read may be more than the
\* channel keeps, the receiver may have lagged: any error of it ends the loop
\* of the handler and drops the socket.
DropSocket ==
    /\ subscribed /\ ~closed
    /\ Len(events) > Capacity
    /\ closed' = TRUE
    /\ UNCHANGED <<serverVars, events, subscribed, clientVars>>

\* An event that the client may read.
Received == subscribed /\ ~closed /\ events # <<>>

-----------------------------------------------------------------------------
(* The client.                                                             *)

Connect ==
    /\ at = "away"
    /\ at' = "asking"
    /\ UNCHANGED <<serverVars, events, socketVars, client, view, seen_busy,
                   early>>

\* The manager handles GetStatus in two reads: the metadata of its tasks...
GetTasks ==
    /\ at = "asking"
    /\ at' = "answered"
    /\ view' = [view EXCEPT !.tasks = metadata]
    /\ early' = subscribed
    /\ UNCHANGED <<serverVars, events, socketVars, client, seen_busy>>

\* ... and then the status of the progress service.
GetProgress ==
    /\ at = "answered"
    /\ view' = [Status EXCEPT !.tasks = view.tasks]
    /\ IF client = "monitor"
       THEN /\ seen_busy' = ~Idle(view')
            /\ at' = "watching"
       ELSE /\ at' = IF Idle(view') THEN "finished" ELSE "watching"
            /\ UNCHANGED seen_busy
    /\ UNCHANGED <<serverVars, events, socketVars, client, early>>

\* A bug to try: what is not in the view is not added to it.
AppliedToKnown(v, e) ==
    CASE e.type = "StageChanged" -> [v EXCEPT !.stage = e.stage]
      [] e.type = "ProgressChanged" ->
            [v EXCEPT !.progresses =
                {IF p.scope = e.progress.scope THEN e.progress ELSE p : p \in @}]
      [] e.type = "ProgressFinished" ->
            [v EXCEPT !.progresses = {p \in @ : p.scope # e.scope}]
      [] e.type = "TaskFinished" -> [v EXCEPT !.tasks = @ \ {e.task}]
      [] OTHER -> v

\* A bug to try: the end of a progress does not remove it.
AppliedButFinish(v, e) ==
    CASE e.type = "StageChanged" -> [v EXCEPT !.stage = e.stage]
      [] e.type = "ProgressChanged" ->
            [v EXCEPT !.progresses =
                {p \in @ : p.scope # e.progress.scope} \union {e.progress}]
      [] e.type = "TaskStarted" -> [v EXCEPT !.tasks = @ \union {e.task}]
      [] e.type = "TaskFinished" -> [v EXCEPT !.tasks = @ \ {e.task}]
      [] OTHER -> v

\* A bug to try: the name of the event is taken for the stage.
AppliedName(v, e) ==
    IF e.type = "StageChanged" THEN [v EXCEPT !.stage = e.type] ELSE v

\* What handle_event does to the status.
Applied(v, e) ==
    CASE e.type = "StageChanged" -> [v EXCEPT !.stage = e.stage]
      [] e.type = "ProgressChanged" ->
            [v EXCEPT !.progresses =
                {p \in @ : p.scope # e.progress.scope} \union {e.progress}]
      [] e.type = "ProgressFinished" ->
            [v EXCEPT !.progresses = {p \in @ : p.scope # e.scope}]
      [] e.type = "TaskStarted" -> [v EXCEPT !.tasks = @ \union {e.task}]
      [] e.type = "TaskFinished" -> [v EXCEPT !.tasks = @ \ {e.task}]
      [] OTHER -> v

\* The events that handle_event leaves with an early return, after it has
\* taken note that it has seen some activity.
Ignored(e) == e.type = "TaskAdded"

HandleEvent ==
    /\ client = "monitor" /\ at = "watching"
    /\ Received
    /\ events' = Tail(events)
    /\ LET e == Head(events)
       IN /\ seen_busy' = TRUE
          /\ view' = Applied(view, e)
          /\ at' = IF ~Ignored(e) /\ StopOnIdle /\ seen_busy' /\ Idle(view')
                   THEN "finished" ELSE "watching"
    /\ UNCHANGED <<serverVars, socketVars, client, early>>

EndsWait(e) ==
    \/ e.type = "ProgressFinished"
    \/ e.type = "TaskFinished" /\ e.remaining = 0

\* The inner loop of wait_until_idle; when it ends, the status is asked again.
WaitForEvent ==
    /\ client = "waiter" /\ at = "watching"
    /\ Received
    /\ events' = Tail(events)
    /\ at' = IF EndsWait(Head(events)) THEN "asking" ELSE "watching"
    /\ UNCHANGED <<serverVars, socketVars, client, view, seen_busy, early>>

\* What was still in the socket is lost to the client: it could as well have
\* read it before the socket was dropped.
LoseConnection ==
    /\ at = "watching"
    /\ closed
    /\ at' = "cut"
    /\ UNCHANGED <<serverVars, events, socketVars, client, view, seen_busy,
                   early>>

-----------------------------------------------------------------------------
Server == Submit \/ (\E id \in Tasks!TaskIds : RunTask(id)) \/ Report
Socket == Unheard \/ Subscribe \/ DropSocket
Client ==
    \/ Connect
    \/ GetTasks \/ GetProgress
    \/ HandleEvent \/ WaitForEvent
    \/ LoseConnection

MonitorNext == Server \/ Socket \/ Client

\* The handler and the client are tasks of their runtimes, which poll them
\* when they are ready.  Nothing is assumed of the services.
MonitorSpec ==
    /\ MonitorInit /\ [][MonitorNext]_monitorVars
    /\ WF_monitorVars(Subscribe) /\ WF_monitorVars(Client)

-----------------------------------------------------------------------------
(* Properties.                                                             *)

CaughtUp == at = "watching" /\ early /\ ~closed /\ events = <<>>

\* A monitor that was subscribed when its request was handled and that has
\* read every event shows the stage and the progress of the server, and
\* among the tasks every one that runs and none that has ended.  The status
\* it asked for is older or newer than some of the events it applies.
ViewConverges ==
    CaughtUp /\ client = "monitor" =>
        /\ view.stage = stage
        /\ view.progresses = ToSet(progresses)
        /\ {id \in Tasks!TaskIds : pc[id] = "running"} \subseteq view.tasks
        /\ view.tasks \subseteq metadata

\* If the server ends up idle, a monitor that stops on idle and that has
\* shown some activity stops.
MonitorEnds ==
    <>[]Idle(Status) =>
        (client = "monitor" /\ StopOnIdle /\ at = "watching" /\ early /\ ~Idle(view)
            ~> at \in Over)

\* If the server ends up idle, the wait before a command ends.
WaitEnds ==
    <>[]Idle(Status) =>
        (client = "waiter" /\ at = "watching" /\ early ~> at \in Over)

\* Both kinds of clients stop when the server is idle.
ClientsEnd == MonitorEnds /\ WaitEnds
=============================================================================
