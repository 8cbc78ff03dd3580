------------------------------- MODULE Progress -------------------------------
(***************************************************************************)
(* The progress service, rust/agama-utils/src/progress/service.rs.         *)
(*                                                                         *)
(* It is an actor: it handles one message at a time, so each message is    *)
(* one action.  A message whose handler returns an error before changing   *)
(* anything (DuplicatedProgress, MissingProgress, MissingStep) is not an   *)
(* action.  Any service may send any message at any time: the tasks of an  *)
(* installation, the threads that report the progress of other programs.   *)
(* The channel of events is taken to have a receiver: when it has none, a  *)
(* handler changes the status and then fails.                              *)
(***************************************************************************)
EXTENDS ProgressList

CONSTANTS Scopes,       \* the scopes that report progress
          MaxSize,      \* bound on the number of steps of a progress
          MaxEvents     \* bound on the number of events sent

ASSUME BoundsAssumption == MaxSize \in Nat /\ MaxEvents \in Nat

VARIABLES stage,        \* Status.stage
          progresses,   \* Status.progresses
          events        \* the events sent, in order

vars == <<stage, progresses, events>>

Stage == {"configuring", "installing", "finished", "failed"}

ProgressType == [scope : Scopes, size : Nat, index : Nat]

StageChanged(s) == [type |-> "StageChanged", stage |-> s]
ProgressChanged(p) == [type |-> "ProgressChanged", progress |-> p]
ProgressFinished(scope) == [type |-> "ProgressFinished", scope |-> scope]

Event == [type : {"StageChanged"}, stage : Stage]
           \union [type : {"ProgressChanged"}, progress : ProgressType]
           \union [type : {"ProgressFinished"}, scope : Scopes]

TypeOK ==
    /\ stage \in Stage
    /\ progresses \in Seq(ProgressType)
    /\ events \in Seq(Event)

Init ==
    /\ stage = "configuring"
    /\ progresses = <<>>
    /\ events = <<>>

Send(e) == events' = Append(events, e)

-----------------------------------------------------------------------------
SetStage(s) ==
    /\ stage' = s
    /\ Send(StageChanged(s))
    /\ UNCHANGED progresses

\* Adds the progress, or replaces the one of its scope: what the monitors of
\* the D-Bus services do with the progress that those report.
SetProgress(p) ==
    /\ progresses' = IF HasProgress(progresses, p.scope)
                     THEN Replaced(progresses, p)
                     ELSE Added(progresses, p)
    /\ Send(ProgressChanged(p))
    /\ UNCHANGED stage

\* A bug to try: two services start a progress with the same scope.
StartDuplicated(scope, size) ==
    /\ progresses' = Added(progresses, NewProgress(scope, size))
    /\ Send(ProgressChanged(NewProgress(scope, size)))
    /\ UNCHANGED stage

\* Start and StartWithSteps.
Start(scope, size) ==
    /\ ~HasProgress(progresses, scope)
    /\ progresses' = Added(progresses, NewProgress(scope, size))
    /\ Send(ProgressChanged(NewProgress(scope, size)))
    /\ UNCHANGED stage

\* A bug to try: the last step is not the end.
NextBeyond(scope) ==
    /\ HasProgress(progresses, scope)
    /\ LET p == ProgressOf(progresses, scope)
       IN /\ p.index <= p.size
          /\ progresses' = Replaced(progresses, Advanced(p))
          /\ Send(ProgressChanged(Advanced(p)))
    /\ UNCHANGED stage

\* Next and NextWithStep.
Advance(scope) ==
    /\ HasProgress(progresses, scope)
    /\ LET p == ProgressOf(progresses, scope)
       IN /\ CanAdvance(p)
          /\ progresses' = Replaced(progresses, Advanced(p))
          /\ Send(ProgressChanged(Advanced(p)))
    /\ UNCHANGED stage

\* A bug to try: finishing one of them empties the status.
FinishForgettingStage(scope) ==
    /\ HasProgress(progresses, scope)
    /\ stage' = "idle"
    /\ progresses' = <<>>
    /\ Send(ProgressFinished(scope))

Finish(scope) ==
    /\ HasProgress(progresses, scope)
    /\ progresses' = Removed(progresses, scope)
    /\ Send(ProgressFinished(scope))
    /\ UNCHANGED stage

\* What another program may report: some step of some number of steps.
Reported == {p \in [scope : Scopes, size : 1 .. MaxSize, index : 1 .. MaxSize] :
                p.index <= p.size}

Next ==
    /\ Len(events) < MaxEvents
    /\ \/ \E s \in Stage : SetStage(s)
       \/ \E p \in Reported : SetProgress(p)
       \/ \E scope \in Scopes :
             \/ \E size \in 0 .. MaxSize : Start(scope, size)
             \/ Advance(scope)
             \/ Finish(scope)

Spec == Init /\ [][Next]_vars

-----------------------------------------------------------------------------
\* A scope has at most one progress, whoever reports it: the functions that
\* look for one take the first.
UniqueScopes ==
    \A i, j \in DOMAIN progresses :
        progresses[i].scope = progresses[j].scope => i = j

\* The current step exists, except that a progress without steps is at its
\* (missing) first step.
StepInRange ==
    \A i \in DOMAIN progresses :
        LET p == progresses[i]
        IN 1 <= p.index /\ (p.index <= p.size \/ (p.size = 0 /\ p.index = 1))
=============================================================================
