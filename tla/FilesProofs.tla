------------------------------ MODULE FilesProofs ------------------------------
(***************************************************************************)
(* Proofs about the files and scripts, for any configurations, any number  *)
(* of them, and any answer of the user.                                    *)
(*                                                                         *)
(* What the service is in the middle of belongs to a task that waits for   *)
(* it.  A task that gave its scripts to the service still has to ask for   *)
(* their execution and for their packages, so what it did not ask for yet  *)
(* will be, whatever other tasks do in between.                            *)
(***************************************************************************)
EXTENDS Files, FiniteSetTheorems, TLAPS

-----------------------------------------------------------------------------
(* The inductive invariant.                                                *)

\* No two scripts of a configuration have the same path.
DistinctPaths ==
    \A c \in Configs : \A i, j \in DOMAIN c.scripts :
        Path(c.scripts[i]) = Path(c.scripts[j]) => i = j

\* Every message is the call of a task that waits, and so is the work.
Waiting(t) == t \in DOMAIN tasks /\ tasks[t].waits /\ ~Ended(t)
OneCallEach ==
    /\ \A i \in DOMAIN mailbox : Waiting(mailbox[i])
    /\ \A i, j \in DOMAIN mailbox : mailbox[i] = mailbox[j] => i = j
    /\ work # Idle =>
          /\ Waiting(work.from)
          /\ \A i \in DOMAIN mailbox : mailbox[i] # work.from
          /\ CallOf(work.from).op = work.op
    /\ question.open /\ work.op = "Finish" => question.about \in work.todo

\* The installation comes last; unless it is early, the configurations ended.
InstallLast ==
    /\ tasks # <<>> => tasks[1].kind = "config"
    /\ OnlyConfigs => Len(tasks) <= MaxConfigs
    /\ (~OnlyConfigs /\ "early" \notin spoilt) =>
          \A t \in DOMAIN tasks : tasks[t].kind = "config" => Ended(t)

\* The list has scripts of the configuration that is being set, in its order.
ListFromConfig ==
    /\ work.op = "SetConfig" =>
          \A i \in DOMAIN scripts : \E k \in 1 .. (work.next - 1) : scripts[i] = ToAdd[k]
    /\ DistinctPaths =>
          \A i, j \in DOMAIN scripts : Path(scripts[i]) = Path(scripts[j]) => i = j

\* A script without a log did not run, nor did those that are still to run.
LogTellsRun ==
    /\ \A p \in AllPaths : p \notin logged => ran[p] = 0
    /\ work.op = "RunScripts" =>
          /\ work.todo \subseteq DOMAIN scripts
          /\ work.current \in DOMAIN scripts \union {0}
          /\ work.current \notin work.todo
          /\ DistinctPaths =>
                /\ \A i \in work.todo : Path(scripts[i]) \notin logged
                /\ (work.current # 0 /\ work.fresh) =>
                      Path(scripts[work.current]) \notin logged
    /\ DistinctPaths => \A p \in AllPaths : ran[p] <= 1

\* What the run of scripts has to clean up.
CleanUp ==
    /\ (target.link /\ spoilt \intersect {"deleted", "unlink"} = {}) =>
          work.op = "RunScripts" /\ work.linked
    /\ (progress # NoProgress /\ spoilt \intersect {"deleted", "link"} = {}) =>
          work.op = "RunScripts"

\* A task that began to set its configuration.
Began(t) ==
    /\ t \in DOMAIN tasks /\ tasks[t].kind = "config"
    /\ tasks[t].step > 1 \/ (work.op = "SetConfig" /\ work.from = t)

\* The package was asked for, or a task is going to.
PackageAsked ==
    /\ "deleted" \notin spoilt =>
          \/ asked <=> ByGroup("init") # {}
          \/ \E t \in DOMAIN tasks : Began(t) /\ ~Ended(t)
    /\ (target.service /\ spoilt \intersect {"early", "deleted"} = {}) =>
          asked /\ ~OnlyConfigs

\* The list is that of a configuration, and its first scripts ran or will.
ListSoFar ==
    work.op = "SetConfig" =>
        /\ Len(scripts) = work.next - 1 /\ work.next <= Len(ToAdd) + 1
        /\ \A i \in DOMAIN scripts : scripts[i] = ToAdd[i]
GroupRuns ==
    work.op = "RunScripts" =>
        \A i \in ByGroup(CallOf(work.from).group) :
            Path(scripts[i]) \in logged \/ i \in work.todo \/ i = work.current
Wrote(t) == t \in DOMAIN tasks /\ tasks[t].kind = "config" /\ tasks[t].step > 1
ToRun(t) == t \in DOMAIN tasks /\ tasks[t].kind = "config" /\ tasks[t].step = 2
ListStands ==
    work.op # "SetConfig" =>
        /\ (\E t \in DOMAIN tasks : Wrote(t)) =>
              \E c \in Configs : scripts = c.scripts /\ files = c.files
        /\ \/ \A i \in ByGroup("pre") : Path(scripts[i]) \in logged
           \/ \E t \in DOMAIN tasks : ToRun(t)
Settling == spoilt \subseteq {"early", "unlink"} => ListSoFar /\ GroupRuns /\ ListStands

IInv ==
    /\ TypeOK
    /\ OneCallEach /\ InstallLast /\ ListFromConfig /\ LogTellsRun
    /\ CleanUp /\ PackageAsked /\ Settling
-----------------------------------------------------------------------------
(* The calls of the tasks and the work of the service.                     *)

\* A task that did not end is at the call that its kind makes at its step.
LEMMA CallTells ==
    ASSUME TypeOK, NEW t \in DOMAIN tasks, ~Ended(t)
    PROVE  /\ tasks[t].kind = "config" =>
                \/ tasks[t].step = 1 /\ CallOf(t).op = "SetConfig" /\ CallOf(t).config \in Configs
                \/ tasks[t].step = 2 /\ CallOf(t) = RunScripts("pre")
                \/ tasks[t].step = 3 /\ CallOf(t) = GetResolvables
           /\ tasks[t].kind # "config" =>
                \/ CallOf(t) = RunScripts("postPartitioning")
                \/ CallOf(t) = Finish
                \/ CallOf(t) = RunScripts("post")
           /\ tasks[t].kind \in {"config", "install"}
           /\ tasks[t].step \in 1 .. 3
<1>1. tasks[t] \in TaskType /\ tasks[t].step \in 1 .. 3
  BY DEF TypeOK, Ended, TaskType
<1>2. CASE tasks[t].kind = "config"
  <2>1. PICK c \in Configs : tasks[t].calls = Configuration(c)
    BY <1>1, <1>2 DEF TaskType
  <2>2. CallOf(t) = Configuration(c)[tasks[t].step]
    BY <2>1 DEF CallOf
  <2>3. tasks[t].step = 1 => CallOf(t) = SetConfig(c)
    BY <2>2 DEF Configuration
  <2>4. tasks[t].step = 2 => CallOf(t) = RunScripts("pre")
    BY <2>2 DEF Configuration
  <2>5. tasks[t].step = 3 => CallOf(t) = GetResolvables
    BY <2>2 DEF Configuration
  <2>6. SetConfig(c).op = "SetConfig" /\ SetConfig(c).config \in Configs
    BY DEF SetConfig
  <2> QED
    BY <1>1, <1>2, <2>3, <2>4, <2>5, <2>6
<1>3. CASE tasks[t].kind # "config"
  <2>1. tasks[t].calls = Installation /\ tasks[t].kind = "install"
    BY <1>1, <1>3 DEF TaskType
  <2> QED
    BY <1>1, <1>3, <2>1 DEF CallOf, Installation
<1> QED
  BY <1>2, <1>3

\* The operation of a call tells the kind of the task and its step.
LEMMA OpTells ==
    ASSUME TypeOK, NEW t \in DOMAIN tasks, ~Ended(t)
    PROVE  /\ CallOf(t).op = "SetConfig" =>
                tasks[t].kind = "config" /\ tasks[t].step = 1 /\ CallOf(t).config \in Configs
           /\ CallOf(t).op = "RunScripts" =>
                \/ tasks[t].kind = "config" /\ tasks[t].step = 2 /\ CallOf(t).group = "pre"
                \/ tasks[t].kind = "install" /\ CallOf(t).group # "pre"
           /\ CallOf(t).op = "GetResolvables" => tasks[t].kind = "config" /\ tasks[t].step = 3
           /\ CallOf(t).op = "Finish" => tasks[t].kind = "install"
BY CallTells DEF RunScripts, Finish, GetResolvables

\* What the service is in the middle of.
LEMMA WorkTells ==
    ASSUME TypeOK
    PROVE  /\ work.op = "none" <=> work = Idle
           /\ work.op = "SetConfig" =>
                work \in [op : {"SetConfig"}, from : Nat, config : Configs, next : Nat \ {0}]
           /\ work.op = "RunScripts" =>
                work \in [op : {"RunScripts"}, from : Nat, todo : SUBSET Nat, current : Nat,
                          linked : BOOLEAN, fresh : BOOLEAN]
           /\ work.op = "Finish" =>
                work \in [op : {"Finish"}, from : Nat, todo : SUBSET AllFiles]
           /\ work.op \in {"none", "SetConfig", "RunScripts", "Finish"}
BY DEF TypeOK, Work, Idle

-----------------------------------------------------------------------------
(* How the tasks move.                                                     *)

\* Only the task t moves, and it stays in its kind.
OnlyMoves(t) ==
    /\ tasks' \in Seq(TaskType) /\ Len(tasks') = Len(tasks)
    /\ DOMAIN tasks' = DOMAIN tasks
    /\ \A u \in DOMAIN tasks : u # t => tasks'[u] = tasks[u]
    /\ tasks'[t].kind = tasks[t].kind /\ tasks'[t].calls = tasks[t].calls

\* A task that leaves its call keeps its kind.
Moved(task, step) == [task EXCEPT !.step = step, !.waits = FALSE]
LEMMA MovedTells ==
    ASSUME NEW task \in TaskType, NEW step \in 1 .. 4
    PROVE  /\ Moved(task, step) \in TaskType
           /\ Moved(task, step).kind = task.kind /\ Moved(task, step).calls = task.calls
           /\ Moved(task, step).step = step /\ Moved(task, step).waits = FALSE
<1> DEFINE q == [task EXCEPT !.step = step]
<1>1. ASSUME NEW K, NEW C, task \in [kind : K, calls : C, step : 1 .. 4, waits : BOOLEAN]
      PROVE  /\ Moved(task, step) \in [kind : K, calls : C, step : 1 .. 4, waits : BOOLEAN]
             /\ Moved(task, step).kind = task.kind /\ Moved(task, step).calls = task.calls
             /\ Moved(task, step).step = step /\ Moved(task, step).waits = FALSE
  <2>1. q \in [kind : K, calls : C, step : 1 .. 4, waits : BOOLEAN]
        /\ q.kind = task.kind /\ q.calls = task.calls /\ q.step = step
    BY <1>1
  <2>2. Moved(task, step) = [q EXCEPT !.waits = FALSE]
    BY <1>1 DEF Moved
  <2> HIDE DEF q
  <2> QED
    BY <2>1, <2>2
<1> QED
  BY <1>1 DEF TaskType

\* The task whose call is answered goes on with the next one.
LEMMA AnswerTells ==
    ASSUME TypeOK, NEW t \in DOMAIN tasks, ~Ended(t), Answer(t)
    PROVE  OnlyMoves(t) /\ tasks'[t].step = tasks[t].step + 1 /\ ~tasks'[t].waits
<1>1. tasks \in Seq(TaskType) /\ tasks[t] \in TaskType /\ tasks[t].step \in 1 .. 3
  BY DEF TypeOK, Ended, TaskType
<1>2. tasks' = [tasks EXCEPT ![t] = Moved(tasks[t], tasks[t].step + 1)]
  BY DEF Answer, Moved
<1>3. tasks[t].step + 1 \in 1 .. 4
  BY <1>1
<1> DEFINE r == Moved(tasks[t], tasks[t].step + 1)
<1>4. r \in TaskType /\ r.kind = tasks[t].kind /\ r.calls = tasks[t].calls
      /\ r.step = tasks[t].step + 1 /\ r.waits = FALSE
  BY <1>1, <1>3, MovedTells
<1> HIDE DEF r
<1>5. tasks' = [tasks EXCEPT ![t] = r]
  BY <1>2 DEF r
<1> QED
  BY <1>1, <1>4, <1>5 DEF OnlyMoves

\* The task whose call fails makes no more calls.
LEMMA DropTells ==
    ASSUME TypeOK, NEW t \in DOMAIN tasks, Drop(t)
    PROVE  OnlyMoves(t) /\ tasks'[t].step = 4 /\ ~tasks'[t].waits
<1>1. tasks \in Seq(TaskType) /\ tasks[t] \in TaskType
  BY DEF TypeOK
<1>2. tasks' = [tasks EXCEPT ![t] = Moved(tasks[t], 4)]
  BY DEF Drop, Moved
<1>3. 4 \in 1 .. 4
  BY <1>1
<1> DEFINE r == Moved(tasks[t], 4)
<1>4. r \in TaskType /\ r.kind = tasks[t].kind /\ r.calls = tasks[t].calls
      /\ r.step = 4 /\ r.waits = FALSE
  BY <1>1, <1>3, MovedTells
<1> HIDE DEF r
<1>5. tasks' = [tasks EXCEPT ![t] = r]
  BY <1>2 DEF r
<1> QED
  BY <1>1, <1>4, <1>5 DEF OnlyMoves

\* The task that sends its call stays at it.
LEMMA SendTells ==
    ASSUME TypeOK, NEW t \in DOMAIN tasks, SendCall(t)
    PROVE  OnlyMoves(t) /\ tasks'[t].step = tasks[t].step /\ tasks'[t].waits
<1>1. tasks \in Seq(TaskType) /\ tasks[t] \in TaskType
  BY DEF TypeOK
<1> DEFINE r == [tasks[t] EXCEPT !.waits = TRUE]
<1>2. tasks' = [tasks EXCEPT ![t] = r]
  BY DEF SendCall
<1>3. r \in TaskType /\ r.kind = tasks[t].kind /\ r.calls = tasks[t].calls
      /\ r.step = tasks[t].step /\ r.waits = TRUE
  BY <1>1 DEF TaskType
<1> HIDE DEF r
<1> QED
  BY <1>1, <1>2, <1>3 DEF OnlyMoves

\* Where a task is after the step.
EndedNext(t) == tasks'[t].step > 3
WaitingNext(t) == t \in DOMAIN tasks' /\ tasks'[t].waits /\ ~EndedNext(t)
CallNext(t) == tasks'[t].calls[tasks'[t].step]

\* A task that stays is where it was.
LEMMA StaysTells ==
    ASSUME NEW t \in DOMAIN tasks, t \in DOMAIN tasks', tasks'[t] = tasks[t]
    PROVE  /\ EndedNext(t) <=> Ended(t)
           /\ WaitingNext(t) <=> Waiting(t)
           /\ CallNext(t) = CallOf(t)
BY DEF Ended, Waiting, CallOf, EndedNext, WaitingNext, CallNext

\* The calls of the tasks when every message and the work have their task.
LEMMA NextCalls ==
    ASSUME \A i \in DOMAIN mailbox' : WaitingNext(mailbox'[i]),
           \A i, j \in DOMAIN mailbox' : mailbox'[i] = mailbox'[j] => i = j,
           work' # Idle =>
              /\ WaitingNext(work'.from)
              /\ \A i \in DOMAIN mailbox' : mailbox'[i] # work'.from
              /\ CallNext(work'.from).op = work'.op,
           question'.open /\ work'.op = "Finish" => question'.about \in work'.todo
    PROVE  OneCallEach'
BY DEF OneCallEach, Waiting, CallOf, Ended, WaitingNext, CallNext, EndedNext, Idle

\* The first message is the call of a task that waits, and of no other message.
LEMMA CallerTells ==
    ASSUME TypeOK, OneCallEach, mailbox # <<>>
    PROVE  /\ Caller \in DOMAIN tasks /\ Caller \in Nat /\ Waiting(Caller) /\ ~Ended(Caller)
           /\ Tail(mailbox) \in Seq(DOMAIN tasks)
           /\ \A i \in DOMAIN Tail(mailbox) :
                /\ i + 1 \in DOMAIN mailbox
                /\ Tail(mailbox)[i] = mailbox[i + 1]
                /\ Tail(mailbox)[i] # Caller
<1>1. mailbox \in Seq(DOMAIN tasks) /\ tasks \in Seq(TaskType)
  BY DEF TypeOK
<1>2. 1 \in DOMAIN mailbox /\ Caller = mailbox[1] /\ Len(mailbox) \in Nat
  BY <1>1 DEF Caller
<1>3. Waiting(Caller) /\ Caller \in DOMAIN tasks /\ ~Ended(Caller)
  BY <1>2 DEF OneCallEach, Waiting
<1>4. Caller \in Nat
  BY <1>1, <1>3
<1>5. Tail(mailbox) \in Seq(DOMAIN tasks) /\ Len(Tail(mailbox)) = Len(mailbox) - 1
  BY <1>1, <1>2
<1>6. ASSUME NEW i \in DOMAIN Tail(mailbox)
      PROVE  i + 1 \in DOMAIN mailbox /\ Tail(mailbox)[i] = mailbox[i + 1]
             /\ i + 1 # 1
  BY <1>1, <1>2, <1>5
<1>7. ASSUME NEW i \in DOMAIN Tail(mailbox)
      PROVE  Tail(mailbox)[i] # Caller
  BY <1>2, <1>6, <1>7 DEF OneCallEach
<1> QED
  BY <1>3, <1>4, <1>5, <1>6, <1>7

\* The work belongs to a task that waits for it.
LEMMA FromTells ==
    ASSUME TypeOK, OneCallEach, work # Idle
    PROVE  /\ work.from \in DOMAIN tasks /\ work.from \in Nat
           /\ Waiting(work.from) /\ ~Ended(work.from)
           /\ CallOf(work.from).op = work.op
BY DEF TypeOK, OneCallEach, Waiting

-----------------------------------------------------------------------------
(* What happens to the calls and to the order of the tasks.                *)

\* The service goes on with its work.
LEMMA WorkGoesOn ==
    ASSUME TypeOK, OneCallEach, InstallLast,
           tasks' = tasks, mailbox' = mailbox, spoilt \subseteq spoilt',
           work # Idle, work'.from = work.from, work'.op = work.op,
           question'.open /\ work'.op = "Finish" => question'.about \in work'.todo
    PROVE  OneCallEach' /\ InstallLast'
<1>1. \A t : (WaitingNext(t) <=> Waiting(t)) /\ CallNext(t) = CallOf(t) /\ (EndedNext(t) <=> Ended(t))
  BY DEF Waiting, CallOf, Ended, WaitingNext, CallNext, EndedNext
<1>2. OneCallEach'
  BY <1>1, NextCalls DEF OneCallEach
<1>3. InstallLast'
  BY <1>1 DEF InstallLast, OnlyConfigs, Ended, EndedNext
<1> QED
  BY <1>2, <1>3

\* The service takes a call.
LEMMA WorkBegins ==
    ASSUME TypeOK, OneCallEach, InstallLast,
           tasks' = tasks, spoilt \subseteq spoilt', question' = question,
           work = Idle, mailbox # <<>>, mailbox' = Tail(mailbox),
           work'.from = Caller, work'.op = Message.op
    PROVE  OneCallEach' /\ InstallLast'
<1>1. \A t : (WaitingNext(t) <=> Waiting(t)) /\ CallNext(t) = CallOf(t) /\ (EndedNext(t) <=> Ended(t))
  BY DEF Waiting, CallOf, Ended, WaitingNext, CallNext, EndedNext
<1>2. ~question.open
  BY DEF TypeOK
<1>3. \A i \in DOMAIN mailbox' : i + 1 \in DOMAIN mailbox /\ mailbox'[i] = mailbox[i + 1]
                                 /\ mailbox'[i] # Caller
  BY CallerTells
<1>4. \A i \in DOMAIN mailbox' : WaitingNext(mailbox'[i])
  BY <1>1, <1>3 DEF OneCallEach
<1>5. \A i, j \in DOMAIN mailbox' : mailbox'[i] = mailbox'[j] => i = j
  <2> SUFFICES ASSUME NEW i \in DOMAIN mailbox', NEW j \in DOMAIN mailbox',
                      mailbox'[i] = mailbox'[j]
               PROVE  i = j
    OBVIOUS
  <2>1. i + 1 = j + 1
    BY <1>3 DEF OneCallEach
  <2>2. i \in Nat /\ j \in Nat
    BY CallerTells
  <2> QED
    BY <2>1, <2>2
<1>6. WaitingNext(work'.from) /\ CallNext(work'.from) = Message
  BY <1>1, CallerTells DEF Message
<1>7. OneCallEach'
  BY <1>2, <1>3, <1>4, <1>5, <1>6, NextCalls
<1>8. InstallLast'
  BY <1>1 DEF InstallLast, OnlyConfigs, Ended, EndedNext
<1> QED
  BY <1>7, <1>8

\* The tasks keep their order, whichever moves.
LEMMA MovesKeepOrder ==
    ASSUME TypeOK, InstallLast, NEW t \in DOMAIN tasks, OnlyMoves(t),
           Ended(t) => EndedNext(t), spoilt \subseteq spoilt'
    PROVE  InstallLast' /\ (OnlyConfigs' <=> OnlyConfigs)
<1>1. DOMAIN tasks' = DOMAIN tasks /\ Len(tasks') = Len(tasks)
      /\ \A u \in DOMAIN tasks : tasks'[u].kind = tasks[u].kind
  BY DEF OnlyMoves
<1>2. \A u \in DOMAIN tasks : Ended(u) => EndedNext(u)
  BY StaysTells DEF OnlyMoves
<1>3. OnlyConfigs' <=> OnlyConfigs
  BY <1>1 DEF OnlyConfigs
<1>4. tasks # <<>> => 1 \in DOMAIN tasks
  BY DEF TypeOK
<1>5. tasks' # <<>> => tasks # <<>>
  BY <1>1 DEF TypeOK, OnlyMoves
<1> QED
  BY <1>1, <1>2, <1>3, <1>4, <1>5 DEF InstallLast, Ended, EndedNext

\* The task whose call it was goes on, or ends.
LEMMA WorkEnds ==
    ASSUME TypeOK, OneCallEach, InstallLast, spoilt \subseteq spoilt',
           work # Idle, Answer(work.from) \/ Drop(work.from),
           work' = Idle, question' = NoQuestion, mailbox' = mailbox
    PROVE  /\ OneCallEach' /\ InstallLast' /\ (OnlyConfigs' <=> OnlyConfigs)
           /\ OnlyMoves(work.from)
<1>1. work.from \in DOMAIN tasks /\ ~Ended(work.from)
  BY FromTells
<1>2. OnlyMoves(work.from)
  BY <1>1, AnswerTells, DropTells
<1>3. InstallLast' /\ (OnlyConfigs' <=> OnlyConfigs)
  BY <1>1, <1>2, MovesKeepOrder
<1>4. \A i \in DOMAIN mailbox : Waiting(mailbox[i]) /\ mailbox[i] # work.from
  BY DEF OneCallEach
<1>5. \A i \in DOMAIN mailbox : WaitingNext(mailbox[i])
  BY <1>2, <1>4, StaysTells DEF OnlyMoves, Waiting
<1>6. OneCallEach'
  BY <1>5, NextCalls DEF OneCallEach, NoQuestion
<1> QED
  BY <1>2, <1>3, <1>6

\* A call is answered, or fails, at once.
LEMMA CallEnds ==
    ASSUME TypeOK, OneCallEach, InstallLast, spoilt \subseteq spoilt', question' = question,
           work = Idle, work' = Idle, mailbox # <<>>, mailbox' = Tail(mailbox),
           Answer(Caller) \/ Drop(Caller)
    PROVE  /\ OneCallEach' /\ InstallLast' /\ (OnlyConfigs' <=> OnlyConfigs)
           /\ OnlyMoves(Caller)
<1>1. Caller \in DOMAIN tasks /\ ~Ended(Caller)
  BY CallerTells
<1>2. OnlyMoves(Caller)
  BY <1>1, AnswerTells, DropTells
<1>3. InstallLast' /\ (OnlyConfigs' <=> OnlyConfigs)
  BY <1>1, <1>2, MovesKeepOrder
<1>4. ~question.open
  BY DEF TypeOK
<1>5. \A i \in DOMAIN mailbox' : i + 1 \in DOMAIN mailbox /\ mailbox'[i] = mailbox[i + 1]
                                 /\ mailbox'[i] # Caller
  BY CallerTells
<1>6. \A i \in DOMAIN mailbox' : Waiting(mailbox'[i])
  BY <1>5 DEF OneCallEach
<1>7. \A i \in DOMAIN mailbox' : WaitingNext(mailbox'[i])
  BY <1>2, <1>5, <1>6, StaysTells DEF OnlyMoves, Waiting
<1>8. \A i, j \in DOMAIN mailbox' : mailbox'[i] = mailbox'[j] => i = j
  <2> SUFFICES ASSUME NEW i \in DOMAIN mailbox', NEW j \in DOMAIN mailbox',
                      mailbox'[i] = mailbox'[j]
               PROVE  i = j
    OBVIOUS
  <2>1. i + 1 = j + 1
    BY <1>5 DEF OneCallEach
  <2>2. i \in Nat /\ j \in Nat
    BY CallerTells
  <2> QED
    BY <2>1, <2>2
<1>9. OneCallEach'
  BY <1>4, <1>7, <1>8, NextCalls
<1> QED
  BY <1>2, <1>3, <1>9

-----------------------------------------------------------------------------
(* What the scripts and the packages keep.                                 *)

BeganNext(t) ==
    /\ t \in DOMAIN tasks' /\ tasks'[t].kind = "config"
    /\ tasks'[t].step > 1 \/ (work'.op = "SetConfig" /\ work'.from = t)
WroteNext(t) == t \in DOMAIN tasks' /\ tasks'[t].kind = "config" /\ tasks'[t].step > 1
ToRunNext(t) == t \in DOMAIN tasks' /\ tasks'[t].kind = "config" /\ tasks'[t].step = 2

\* What was asked for stays right when no task that began ends.
LEMMA AskedKept ==
    ASSUME PackageAsked, asked' = asked, scripts' = scripts,
           target'.service => target.service, spoilt \subseteq spoilt',
           "deleted" \notin spoilt' =>
               \A t \in DOMAIN tasks : Began(t) /\ ~Ended(t) => BeganNext(t) /\ ~EndedNext(t),
           OnlyConfigs' => OnlyConfigs
    PROVE  PackageAsked'
<1>1. ByGroup("init")' = ByGroup("init")
  BY DEF ByGroup
<1>2. ASSUME NEW t \in DOMAIN tasks, BeganNext(t), ~EndedNext(t)
      PROVE  \E u \in DOMAIN tasks' : tasks'[u].kind = "config"
                 /\ (tasks'[u].step > 1 \/ (work'.op = "SetConfig" /\ work'.from = u))
                 /\ ~(tasks'[u].step > 3)
  BY <1>2 DEF BeganNext, EndedNext
<1>3. "deleted" \notin spoilt' =>
          \/ asked' <=> ByGroup("init")' # {}
          \/ \E u \in DOMAIN tasks' : tasks'[u].kind = "config"
                 /\ (tasks'[u].step > 1 \/ (work'.op = "SetConfig" /\ work'.from = u))
                 /\ ~(tasks'[u].step > 3)
  BY <1>1, <1>2 DEF PackageAsked
<1>4. (target'.service /\ spoilt' \intersect {"early", "deleted"} = {}) =>
          asked' /\ ~OnlyConfigs'
  BY DEF PackageAsked
<1> QED
  BY <1>3, <1>4 DEF PackageAsked, Began, Ended

\* The list stays right when no script of it is still to run for its task.
LEMMA StandsKept ==
    ASSUME ListStands, scripts' = scripts, files' = files, logged \subseteq logged',
           work.op # "SetConfig",
           \A t \in DOMAIN tasks' : WroteNext(t) => \E u \in DOMAIN tasks : Wrote(u),
           \A t \in DOMAIN tasks : ToRun(t) => ToRunNext(t)
    PROVE  ListStands'
<1>1. ByGroup("pre")' = ByGroup("pre")
  BY DEF ByGroup
<1>2. (\E t \in DOMAIN tasks : ToRun(t)) => \E t \in DOMAIN tasks' : ToRunNext(t)
  BY DEF ToRunNext
<1>3. (\A i \in ByGroup("pre") : Path(scripts[i]) \in logged)
      \/ \E t \in DOMAIN tasks' : ToRunNext(t)
  BY <1>2 DEF ListStands
<1>4. (\A i \in ByGroup("pre") : Path(scripts'[i]) \in logged')
      \/ \E t \in DOMAIN tasks' : ToRunNext(t)
  BY <1>3
<1>5. (\E t \in DOMAIN tasks' : WroteNext(t)) =>
          \E c \in Configs : scripts' = c.scripts /\ files' = c.files
  BY DEF ListStands
<1> QED
  BY <1>1, <1>4, <1>5 DEF ListStands, Wrote, ToRun, WroteNext, ToRunNext, Path

\* The scripts of a run stay to be run.
LEMMA RunKept ==
    ASSUME GroupRuns, scripts' = scripts, logged \subseteq logged',
           work'.op = "RunScripts" =>
               /\ work.op = "RunScripts" /\ CallNext(work'.from) = CallOf(work.from)
               /\ work'.todo = work.todo /\ work'.current = work.current
    PROVE  GroupRuns'
<1>1. \A group : ByGroup(group)' = ByGroup(group)
  BY DEF ByGroup
<1> QED
  BY <1>1 DEF GroupRuns, CallOf, CallNext, Path, ByGroup

\* The repository and the target stay as they are.
RepositoryStays ==
    /\ scripts' = scripts /\ logged' = logged /\ ran' = ran
    /\ target'.link = target.link /\ progress' = progress

LEMMA RepositoryKept ==
    ASSUME ListFromConfig, LogTellsRun, CleanUp, RepositoryStays, spoilt \subseteq spoilt',
           \/ work' = work
           \/ /\ work.op \notin {"RunScripts", "SetConfig"}
              /\ work'.op \notin {"RunScripts", "SetConfig"}
    PROVE  ListFromConfig' /\ LogTellsRun' /\ CleanUp'
<1>1. ListFromConfig'
  BY DEF ListFromConfig, RepositoryStays, DistinctPaths, Path, ToAdd
<1>2. LogTellsRun'
  BY DEF LogTellsRun, RepositoryStays, DistinctPaths, Path, AllPaths, AllScripts
<1>3. CleanUp'
  BY DEF CleanUp, RepositoryStays, NoProgress
<1> QED
  BY <1>1, <1>2, <1>3

-----------------------------------------------------------------------------
(* The tasks and the clients.                                              *)

\* A new task is the last one.
LEMMA AppendTells ==
    ASSUME TypeOK, NEW task \in TaskType, tasks' = Append(tasks, task)
    PROVE  /\ tasks' \in Seq(TaskType) /\ Len(tasks') = Len(tasks) + 1
           /\ DOMAIN tasks' = DOMAIN tasks \union {Len(tasks) + 1}
           /\ \A t \in DOMAIN tasks : t \in DOMAIN tasks' /\ tasks'[t] = tasks[t]
           /\ Len(tasks) + 1 \notin DOMAIN tasks /\ tasks'[Len(tasks) + 1] = task
BY DEF TypeOK

\* The calls of the others stay.
LEMMA AppendKeeps ==
    ASSUME IInv, NEW task \in TaskType, task.step = 1, tasks' = Append(tasks, task),
           UNCHANGED <<serviceVars, mailbox, work, question, asked, ran>>,
           spoilt \subseteq spoilt'
    PROVE  /\ mailbox' \in Seq(DOMAIN tasks') /\ tasks' \in Seq(TaskType)
           /\ OneCallEach' /\ ListFromConfig' /\ LogTellsRun' /\ CleanUp'
           /\ PackageAsked' /\ Settling'
<1> USE DEF serviceVars
<1>1. TypeOK /\ OneCallEach /\ ListFromConfig /\ LogTellsRun /\ CleanUp
      /\ PackageAsked /\ Settling
  BY DEF IInv
<1>2. /\ tasks' \in Seq(TaskType)
      /\ DOMAIN tasks' = DOMAIN tasks \union {Len(tasks) + 1}
      /\ \A t \in DOMAIN tasks : t \in DOMAIN tasks' /\ tasks'[t] = tasks[t]
      /\ Len(tasks) + 1 \notin DOMAIN tasks /\ tasks'[Len(tasks) + 1] = task
  BY <1>1, AppendTells
<1>3. mailbox' \in Seq(DOMAIN tasks')
  BY <1>1, <1>2 DEF TypeOK
<1>4. \A t \in DOMAIN tasks : /\ EndedNext(t) <=> Ended(t)
                              /\ WaitingNext(t) <=> Waiting(t)
                              /\ CallNext(t) = CallOf(t)
  BY <1>2, StaysTells
<1>5. OneCallEach'
  <2>1. \A i \in DOMAIN mailbox : WaitingNext(mailbox[i])
    BY <1>1, <1>4 DEF OneCallEach, Waiting
  <2>2. work # Idle => WaitingNext(work.from) /\ CallNext(work.from).op = work.op
    BY <1>1, <1>4 DEF OneCallEach, Waiting
  <2> QED
    BY <1>1, <2>1, <2>2, NextCalls DEF OneCallEach
<1>6. ListFromConfig' /\ LogTellsRun' /\ CleanUp'
  BY <1>1, RepositoryKept DEF RepositoryStays
<1>7. PackageAsked'
  <2>1. \A t \in DOMAIN tasks : Began(t) /\ ~Ended(t) => BeganNext(t) /\ ~EndedNext(t)
    BY <1>2, <1>4 DEF Began, BeganNext
  <2>2. OnlyConfigs' => OnlyConfigs
    BY <1>2 DEF OnlyConfigs
  <2> QED
    BY <1>1, <2>1, <2>2, AskedKept
<1>8. Settling'
  <2>1. \A t \in DOMAIN tasks' : WroteNext(t) => \E u \in DOMAIN tasks : Wrote(u)
    BY <1>2 DEF Wrote, WroteNext
  <2>2. \A t \in DOMAIN tasks : ToRun(t) => ToRunNext(t)
    BY <1>2 DEF ToRun, ToRunNext
  <2>3. ListStands => ListStands'
    <3>1. CASE work.op # "SetConfig"
      BY <2>1, <2>2, <3>1, StandsKept
    <3>2. CASE work.op = "SetConfig"
      BY <3>2 DEF ListStands
    <3> QED
      BY <3>1, <3>2
  <2>4. work.op = "RunScripts" => CallNext(work'.from) = CallOf(work.from)
    BY <1>1, <1>4, FromTells, WorkTells DEF Idle
  <2>5. GroupRuns => GroupRuns'
    BY <2>4, RunKept
  <2>6. ListSoFar => ListSoFar'
    BY DEF ListSoFar, ToAdd
  <2> QED
    BY <1>1, <2>3, <2>5, <2>6 DEF Settling
<1> QED
  BY <1>2, <1>3, <1>5, <1>6, <1>7, <1>8

LEMMA WriteConfigKeeps == ASSUME IInv, NEW config \in Configs, WriteConfig(config) PROVE IInv'
<1> DEFINE task == Task("config", Configuration(config))
<1>1. TypeOK /\ InstallLast
  BY DEF IInv
<1>2. task \in TaskType /\ task.step = 1 /\ task.kind = "config"
  BY DEF Task, TaskType
<1>3. tasks' = Append(tasks, task) /\ Len(tasks) < MaxConfigs /\ OnlyConfigs
      /\ UNCHANGED <<serviceVars, mailbox, work, question, asked, ran, spoilt>>
  BY DEF WriteConfig
<1> HIDE DEF task
<1>4. /\ mailbox' \in Seq(DOMAIN tasks') /\ tasks' \in Seq(TaskType)
      /\ OneCallEach' /\ ListFromConfig' /\ LogTellsRun' /\ CleanUp'
      /\ PackageAsked' /\ Settling'
  BY <1>2, <1>3, AppendKeeps
<1>5. /\ Len(tasks') = Len(tasks) + 1
      /\ DOMAIN tasks' = DOMAIN tasks \union {Len(tasks) + 1}
      /\ \A t \in DOMAIN tasks : t \in DOMAIN tasks' /\ tasks'[t] = tasks[t]
      /\ tasks'[Len(tasks) + 1] = task
  BY <1>1, <1>2, <1>3, AppendTells
<1>6. Len(tasks') <= MaxConfigs
  BY <1>1, <1>3, <1>5, FilesAssumption DEF TypeOK
<1>7. TypeOK'
  BY <1>1, <1>3, <1>4, <1>6, FilesAssumption DEF TypeOK, serviceVars
<1>8. InstallLast'
  <2>1. \A t \in DOMAIN tasks' : tasks'[t].kind = "config"
    BY <1>2, <1>3, <1>5 DEF OnlyConfigs
  <2>2. 1 \in DOMAIN tasks'
    BY <1>1, <1>5 DEF TypeOK
  <2> QED
    BY <1>6, <2>1, <2>2 DEF InstallLast, OnlyConfigs
<1> QED
  BY <1>4, <1>7, <1>8 DEF IInv

LEMMA InstallKeeps == ASSUME IInv, Install PROVE IInv'
<1> DEFINE task == Task("install", Installation)
<1>1. TypeOK /\ InstallLast
  BY DEF IInv
<1>2. task \in TaskType /\ task.step = 1 /\ task.kind = "install"
  BY DEF Task, TaskType
<1>3. /\ tasks' = Append(tasks, task) /\ tasks # <<>> /\ OnlyConfigs
      /\ UNCHANGED <<serviceVars, mailbox, work, question, asked, ran>>
      /\ spoilt \subseteq spoilt'
      /\ (\A t \in DOMAIN tasks : Ended(t)) \/ "early" \in spoilt'
  BY DEF Install
<1> HIDE DEF task
<1>4. /\ mailbox' \in Seq(DOMAIN tasks') /\ tasks' \in Seq(TaskType)
      /\ OneCallEach' /\ ListFromConfig' /\ LogTellsRun' /\ CleanUp'
      /\ PackageAsked' /\ Settling'
  BY <1>2, <1>3, AppendKeeps
<1>5. /\ Len(tasks') = Len(tasks) + 1
      /\ DOMAIN tasks' = DOMAIN tasks \union {Len(tasks) + 1}
      /\ \A t \in DOMAIN tasks : t \in DOMAIN tasks' /\ tasks'[t] = tasks[t]
      /\ tasks'[Len(tasks) + 1] = task
  BY <1>1, <1>2, <1>3, AppendTells
<1>6. Len(tasks) <= MaxConfigs
  BY <1>1, <1>3 DEF InstallLast
<1>7. TypeOK'
  BY <1>1, <1>3, <1>4, <1>5, <1>6, FilesAssumption DEF TypeOK, serviceVars
<1>8. InstallLast'
  <2>1. tasks'[1].kind = "config"
    BY <1>1, <1>3, <1>5 DEF TypeOK, InstallLast
  <2>2. ~OnlyConfigs'
    BY <1>2, <1>5 DEF OnlyConfigs
  <2>3. "early" \notin spoilt' => \A t \in DOMAIN tasks' : tasks'[t].kind = "config" => EndedNext(t)
    BY <1>2, <1>3, <1>5 DEF Ended, EndedNext
  <2> QED
    BY <2>1, <2>2, <2>3 DEF InstallLast, Ended, EndedNext
<1> QED
  BY <1>4, <1>7, <1>8 DEF IInv

LEMMA SendCallKeeps == ASSUME IInv, NEW t \in DOMAIN tasks, SendCall(t) PROVE IInv'
<1> USE DEF serviceVars
<1>1. /\ TypeOK /\ OneCallEach /\ InstallLast /\ ListFromConfig /\ LogTellsRun /\ CleanUp
      /\ PackageAsked /\ Settling
  BY DEF IInv
<1>2. /\ ~Ended(t) /\ ~tasks[t].waits /\ mailbox' = Append(mailbox, t)
      /\ UNCHANGED <<serviceVars, work, question, asked, ran, spoilt>>
  BY DEF SendCall
<1>3. OnlyMoves(t) /\ tasks'[t].step = tasks[t].step /\ tasks'[t].waits
  BY <1>1, SendTells
<1>4. tasks' \in Seq(TaskType) /\ Len(tasks') = Len(tasks) /\ DOMAIN tasks' = DOMAIN tasks
      /\ mailbox' \in Seq(DOMAIN tasks')
  BY <1>1, <1>2, <1>3 DEF OnlyMoves, TypeOK
<1>5. TypeOK'
  BY <1>1, <1>2, <1>4 DEF TypeOK
<1>6. \A u \in DOMAIN tasks : /\ EndedNext(u) <=> Ended(u)
                              /\ Waiting(u) => WaitingNext(u)
                              /\ CallNext(u) = CallOf(u)
                              /\ tasks'[u].kind = tasks[u].kind /\ tasks'[u].step = tasks[u].step
  BY <1>2, <1>3, StaysTells DEF OnlyMoves, Ended, EndedNext, Waiting, WaitingNext, CallOf, CallNext
<1>7. OneCallEach'
  <2>1. ~Waiting(t) /\ WaitingNext(t)
    BY <1>2, <1>3, <1>4, <1>6 DEF Waiting, WaitingNext
  <2>2. /\ DOMAIN mailbox' = DOMAIN mailbox \union {Len(mailbox) + 1}
        /\ mailbox'[Len(mailbox) + 1] = t
        /\ \A i \in DOMAIN mailbox : mailbox'[i] = mailbox[i]
    BY <1>1, <1>2 DEF TypeOK
  <2>3. \A i \in DOMAIN mailbox : mailbox'[i] # t /\ WaitingNext(mailbox'[i])
    BY <1>1, <1>6, <2>1, <2>2 DEF OneCallEach, Waiting
  <2>4. \A i \in DOMAIN mailbox' : WaitingNext(mailbox'[i])
    BY <2>1, <2>2, <2>3
  <2>5. \A i, j \in DOMAIN mailbox' : mailbox'[i] = mailbox'[j] => i = j
    BY <1>1, <2>2, <2>3 DEF OneCallEach
  <2>6. work' # Idle =>
              /\ WaitingNext(work'.from)
              /\ \A i \in DOMAIN mailbox' : mailbox'[i] # work'.from
              /\ CallNext(work'.from).op = work'.op
    BY <1>1, <1>2, <1>6, <2>1, <2>2 DEF OneCallEach, Waiting
  <2> QED
    BY <1>1, <1>2, <2>4, <2>5, <2>6, NextCalls DEF OneCallEach
<1>8. InstallLast'
  BY <1>1, <1>2, <1>3, <1>6, MovesKeepOrder
<1>9. ListFromConfig' /\ LogTellsRun' /\ CleanUp'
  BY <1>1, <1>2, RepositoryKept DEF RepositoryStays
<1>10. PackageAsked'
  <2>1. \A u \in DOMAIN tasks : Began(u) /\ ~Ended(u) => BeganNext(u) /\ ~EndedNext(u)
    BY <1>2, <1>4, <1>6 DEF Began, BeganNext
  <2>2. OnlyConfigs' => OnlyConfigs
    BY <1>4, <1>6 DEF OnlyConfigs
  <2> QED
    BY <1>1, <1>2, <2>1, <2>2, AskedKept
<1>11. Settling'
  <2>1. \A u \in DOMAIN tasks' : WroteNext(u) => \E v \in DOMAIN tasks : Wrote(v)
    BY <1>4, <1>6 DEF Wrote, WroteNext
  <2>2. \A u \in DOMAIN tasks : ToRun(u) => ToRunNext(u)
    BY <1>4, <1>6 DEF ToRun, ToRunNext
  <2>3. ListStands => ListStands'
    <3>1. CASE work.op # "SetConfig"
      BY <1>2, <2>1, <2>2, <3>1, StandsKept
    <3>2. CASE work.op = "SetConfig"
      BY <1>2, <3>2 DEF ListStands
    <3> QED
      BY <3>1, <3>2
  <2>4. work.op = "RunScripts" => CallNext(work'.from) = CallOf(work.from)
    BY <1>1, <1>2, <1>6, FromTells, WorkTells DEF Idle
  <2>5. GroupRuns => GroupRuns'
    BY <1>2, <2>4, RunKept
  <2>6. ListSoFar => ListSoFar'
    BY <1>2 DEF ListSoFar, ToAdd
  <2> QED
    BY <1>1, <1>2, <2>3, <2>5, <2>6 DEF Settling
<1> QED
  BY <1>1, <1>5, <1>7, <1>8, <1>9, <1>10, <1>11 DEF IInv

-----------------------------------------------------------------------------
(* SetConfig.                                                              *)

\* What a handler finds when it starts.
LEMMA HandleTells ==
    ASSUME IInv, NEW op, Handle(op)
    PROVE  /\ work = Idle /\ work.op = "none" /\ ~question.open /\ mailbox # <<>>
           /\ mailbox' = Tail(mailbox) /\ mailbox' \in Seq(DOMAIN tasks)
           /\ Caller \in DOMAIN tasks /\ Caller \in Nat /\ ~Ended(Caller)
           /\ CallOf(Caller).op = op
<1>1. TypeOK /\ OneCallEach
  BY DEF IInv
<1> QED
  BY <1>1, CallerTells DEF Handle, Message, TypeOK, Idle

\* The paths in some logs no longer count.
LEMMA RemoveTells ==
    ASSUME TypeOK, LogTellsRun, NEW logs \in SUBSET OtherLogs, Remove(logs)
    PROVE  /\ logged' \subseteq AllPaths /\ ran' \in [AllPaths -> Nat]
           /\ \A p \in AllPaths : p \notin logged' => ran'[p] = 0
           /\ DistinctPaths => \A p \in AllPaths : ran'[p] <= 1
<1>1. logged' = logged \ logs /\ logged \subseteq AllPaths
      /\ ran' = [p \in AllPaths |-> IF p \in logs THEN 0 ELSE ran[p]]
      /\ ran \in [AllPaths -> Nat]
  BY DEF Remove, TypeOK
<1>2. \A p \in AllPaths : p \notin logged => ran[p] = 0
  BY DEF LogTellsRun
<1>3. DistinctPaths => \A p \in AllPaths : ran[p] <= 1
  BY DEF LogTellsRun
<1> QED
  BY <1>1, <1>2, <1>3

LEMMA HandleSetConfigKeeps == ASSUME IInv, HandleSetConfig PROVE IInv'
<1>1. /\ TypeOK /\ OneCallEach /\ InstallLast /\ ListFromConfig /\ LogTellsRun /\ CleanUp
      /\ PackageAsked /\ Settling
  BY DEF IInv
<1>2. /\ Handle("SetConfig")
      /\ UNCHANGED <<files, target, progress, question, asked>>
  BY DEF HandleSetConfig
<1>3. /\ work = Idle /\ work.op = "none" /\ ~question.open /\ mailbox # <<>>
      /\ mailbox' = Tail(mailbox) /\ mailbox' \in Seq(DOMAIN tasks)
      /\ Caller \in DOMAIN tasks /\ Caller \in Nat /\ ~Ended(Caller)
      /\ CallOf(Caller).op = "SetConfig"
  BY <1>2, HandleTells
<1>4. tasks[Caller].kind = "config" /\ tasks[Caller].step = 1
      /\ CallOf(Caller).config \in Configs
  BY <1>1, <1>3, OpTells
<1>5. CASE /\ Clear /\ UNCHANGED <<tasks, spoilt>>
           /\ work' = [op |-> "SetConfig", from |-> Caller, config |-> Message.config,
                       next |-> 1]
  <2>1. Remove(OtherLogs) /\ scripts' = <<>>
    BY <1>5 DEF Clear
  <2>2. /\ logged' \subseteq AllPaths /\ ran' \in [AllPaths -> Nat]
        /\ \A p \in AllPaths : p \notin logged' => ran'[p] = 0
        /\ DistinctPaths => \A p \in AllPaths : ran'[p] <= 1
    BY <1>1, <2>1, RemoveTells
  <2>3. work' \in Work /\ work'.op = "SetConfig" /\ work'.from = Caller /\ work'.next = 1
        /\ work'.config \in Configs
    BY <1>3, <1>4, <1>5 DEF Work, Message
  <2>4. TypeOK'
    BY <1>1, <1>2, <1>3, <1>5, <2>1, <2>2, <2>3 DEF TypeOK
  <2>5. OneCallEach' /\ InstallLast'
    BY <1>1, <1>2, <1>3, <1>5, <2>3, WorkBegins DEF Message
  <2>6. ListFromConfig'
    BY <2>1, <2>3 DEF ListFromConfig
  <2>7. LogTellsRun'
    BY <2>2, <2>3 DEF LogTellsRun, DistinctPaths, Path, AllPaths, AllScripts
  <2>8. CleanUp'
    BY <1>1, <1>2, <1>3, <1>5, <2>3 DEF CleanUp, NoProgress
  <2>9. PackageAsked'
    <3>1. Caller \in DOMAIN tasks' /\ tasks'[Caller].kind = "config" /\ ~(tasks'[Caller].step > 3)
      BY <1>3, <1>4, <1>5
    <3>2. \E t \in DOMAIN tasks' :
              /\ tasks'[t].kind = "config" /\ ~(tasks'[t].step > 3)
              /\ tasks'[t].step > 1 \/ (work'.op = "SetConfig" /\ work'.from = t)
      BY <2>3, <3>1
    <3> QED
      BY <1>1, <1>2, <1>5, <3>2 DEF PackageAsked, Began, Ended, OnlyConfigs
  <2>10. Settling'
    <3>1. work'.config.scripts \in Seq(AllScripts)
      BY <2>3, ConfigsAssumption
    <3>2. work'.next <= Len(work'.config.scripts) + 1
      BY <2>3, <3>1
    <3>3. ListSoFar'
      BY <2>1, <2>3, <3>2 DEF ListSoFar, ToAdd
    <3> QED
      BY <2>3, <3>3 DEF Settling, GroupRuns, ListStands
  <2> QED
    BY <2>4, <2>5, <2>6, <2>7, <2>8, <2>9, <2>10 DEF IInv
<1>6. CASE /\ ClearFails /\ Drop(Caller) /\ spoilt' = spoilt \union {"clear"}
           /\ UNCHANGED work
  <2>1. PICK logs \in SUBSET OtherLogs : Remove(logs) /\ scripts' = scripts
    BY <1>6 DEF ClearFails
  <2>2. /\ logged' \subseteq AllPaths /\ ran' \in [AllPaths -> Nat]
        /\ \A p \in AllPaths : p \notin logged' => ran'[p] = 0
        /\ DistinctPaths => \A p \in AllPaths : ran'[p] <= 1
    BY <1>1, <2>1, RemoveTells
  <2>3. OneCallEach' /\ InstallLast' /\ (OnlyConfigs' <=> OnlyConfigs) /\ OnlyMoves(Caller)
    BY <1>1, <1>2, <1>3, <1>6, CallEnds
  <2>4. TypeOK'
    BY <1>1, <1>2, <1>3, <1>6, <2>1, <2>2, <2>3 DEF TypeOK, OnlyMoves
  <2>5. ListFromConfig'
    BY <1>1, <1>3, <1>6, <2>1 DEF ListFromConfig, DistinctPaths, Path
  <2>6. LogTellsRun'
    BY <1>3, <1>6, <2>2 DEF LogTellsRun, DistinctPaths, Path, AllPaths, AllScripts
  <2>7. CleanUp'
    BY <1>1, <1>2, <1>3, <1>6 DEF CleanUp, NoProgress
  <2>8. PackageAsked'
    <3>1. ~Began(Caller)
      BY <1>3, <1>4 DEF Began
    <3>2. \A t \in DOMAIN tasks : Began(t) /\ ~Ended(t) => BeganNext(t) /\ ~EndedNext(t)
      BY <1>3, <1>6, <2>3, <3>1 DEF OnlyMoves, Began, BeganNext, Ended, EndedNext
    <3> QED
      BY <1>1, <1>2, <1>6, <2>1, <2>3, <3>2, AskedKept
  <2>9. Settling'
    BY <1>6 DEF Settling
  <2> QED
    BY <2>3, <2>4, <2>5, <2>6, <2>7, <2>8, <2>9 DEF IInv
<1> QED
  BY <1>5, <1>6 DEF HandleSetConfig

\* The service stays in its handler: what the calls and the packages keep.
LEMMA StillAtIt ==
    ASSUME IInv, work # Idle, work'.op = work.op, work'.from = work.from,
           UNCHANGED <<mailbox, tasks, asked>>, spoilt \subseteq spoilt',
           question'.open /\ work'.op = "Finish" => question'.about \in work'.todo
    PROVE  /\ OneCallEach' /\ InstallLast'
           /\ scripts' = scripts /\ target'.service = target.service => PackageAsked'
           /\ (scripts' = scripts /\ files' = files /\ logged \subseteq logged'
                  /\ work.op # "SetConfig" /\ ListStands) => ListStands'
<1>1. TypeOK /\ OneCallEach /\ InstallLast /\ PackageAsked
  BY DEF IInv
<1>2. \A t : /\ Began(t) <=> BeganNext(t)
             /\ Ended(t) <=> EndedNext(t)
             /\ Wrote(t) <=> WroteNext(t)
             /\ ToRun(t) <=> ToRunNext(t)
  BY DEF Began, BeganNext, Ended, EndedNext, Wrote, WroteNext, ToRun, ToRunNext
<1>3. OnlyConfigs' <=> OnlyConfigs
  BY DEF OnlyConfigs
<1>4. OneCallEach' /\ InstallLast'
  BY <1>1, WorkGoesOn
<1>5. ASSUME scripts' = scripts, target'.service = target.service
      PROVE  PackageAsked'
  BY <1>1, <1>2, <1>3, <1>5, AskedKept
<1>6. ASSUME scripts' = scripts, files' = files, logged \subseteq logged',
             work.op # "SetConfig", ListStands
      PROVE  ListStands'
  BY <1>2, <1>6, StandsKept
<1> QED
  BY <1>4, <1>5, <1>6

\* The work that adds scripts.
LEMMA AddTells ==
    ASSUME IInv, work.op = "SetConfig"
    PROVE  /\ work # Idle /\ work.config \in Configs /\ ToAdd \in Seq(AllScripts)
           /\ work.next \in Nat \ {0} /\ work.from \in DOMAIN tasks /\ work.from \in Nat
           /\ ~Ended(work.from)
           /\ tasks[work.from].kind = "config" /\ tasks[work.from].step = 1
           /\ Began(work.from)
<1>1. TypeOK /\ OneCallEach
  BY DEF IInv
<1>2. work # Idle /\ work.config \in Configs /\ work.next \in Nat \ {0}
  BY <1>1, WorkTells DEF Idle
<1>3. ToAdd \in Seq(AllScripts)
  BY <1>2, ConfigsAssumption DEF ToAdd
<1>4. work.from \in DOMAIN tasks /\ work.from \in Nat /\ ~Ended(work.from)
      /\ CallOf(work.from).op = "SetConfig"
  BY <1>1, <1>2, FromTells
<1>5. tasks[work.from].kind = "config" /\ tasks[work.from].step = 1
  BY <1>1, <1>4, OpTells
<1> QED
  BY <1>2, <1>3, <1>4, <1>5 DEF Began

\* The next script is the one to add.
LEMMA NextToAddTells ==
    ASSUME IInv, work.op = "SetConfig", NextToAdd
    PROVE  /\ work' \in Work /\ work'.op = "SetConfig" /\ work'.from = work.from
           /\ work'.config = work.config /\ work'.next = work.next + 1
BY WorkTells DEF NextToAdd, Work, IInv

LEMMA AddScriptKeeps == ASSUME IInv, AddScript PROVE IInv'
<1>1. /\ TypeOK /\ OneCallEach /\ InstallLast /\ ListFromConfig /\ LogTellsRun /\ CleanUp
      /\ PackageAsked /\ Settling
  BY DEF IInv
<1>2. /\ work.op = "SetConfig" /\ work.next <= Len(ToAdd) /\ ~question.open
      /\ UNCHANGED <<logged, files, target, progress, mailbox, tasks, asked, ran, spoilt>>
  BY DEF AddScript
<1>3. /\ work # Idle /\ work.config \in Configs /\ ToAdd \in Seq(AllScripts)
      /\ work.next \in Nat \ {0} /\ work.from \in DOMAIN tasks /\ ~Ended(work.from)
      /\ tasks[work.from].kind = "config" /\ Began(work.from)
  BY <1>2, AddTells
<1>4. CASE scripts' = Append(scripts, ToAdd[work.next]) /\ NextToAdd /\ UNCHANGED question
  <2>1. /\ work' \in Work /\ work'.op = "SetConfig" /\ work'.from = work.from
        /\ work'.config = work.config /\ work'.next = work.next + 1
    BY <1>2, <1>4, NextToAddTells
  <2>2. ToAdd[work.next] \in AllScripts
    BY <1>2, <1>3
  <2>3. /\ scripts' \in Seq(AllScripts) /\ Len(scripts') = Len(scripts) + 1
        /\ Len(scripts) \in Nat
        /\ DOMAIN scripts' = DOMAIN scripts \union {Len(scripts) + 1}
        /\ scripts'[Len(scripts) + 1] = ToAdd[work.next]
        /\ \A i \in DOMAIN scripts : scripts'[i] = scripts[i]
    BY <1>1, <1>4, <2>2 DEF TypeOK
  <2>4. work' # Idle
    BY <2>1 DEF Idle
  <2>5. TypeOK'
    BY <1>1, <1>2, <1>4, <2>1, <2>3, <2>4 DEF TypeOK
  <2>6. OneCallEach' /\ InstallLast'
    BY <1>2, <1>3, <1>4, <2>1, StillAtIt
  <2>7. ListFromConfig'
    <3>1. ToAdd' = ToAdd
      BY <2>1 DEF ToAdd
    <3>2. \A i \in DOMAIN scripts : \E k \in 1 .. (work.next - 1) : scripts[i] = ToAdd[k]
      BY <1>1, <1>2 DEF ListFromConfig
    <3>3. \A i \in DOMAIN scripts' : \E k \in 1 .. (work'.next - 1) : scripts'[i] = ToAdd[k]
      BY <1>3, <2>1, <2>3, <3>2
    <3>4. ASSUME DistinctPaths, NEW i \in DOMAIN scripts
          PROVE  Path(scripts[i]) # Path(ToAdd[work.next])
      <4>1. PICK k \in 1 .. (work.next - 1) : scripts[i] = ToAdd[k]
        BY <3>2, <3>4
      <4>2. k \in DOMAIN ToAdd /\ work.next \in DOMAIN ToAdd /\ k # work.next
        BY <1>2, <1>3, <4>1
      <4> QED
        BY <1>3, <3>4, <4>1, <4>2 DEF DistinctPaths, ToAdd
    <3>5. DistinctPaths => \A i, j \in DOMAIN scripts : Path(scripts[i]) = Path(scripts[j]) => i = j
      BY <1>1 DEF ListFromConfig
    <3>6. DistinctPaths => \A i, j \in DOMAIN scripts' : Path(scripts'[i]) = Path(scripts'[j]) => i = j
      BY <2>3, <3>4, <3>5
    <3>7. DistinctPaths' <=> DistinctPaths
      BY DEF DistinctPaths, Path
    <3> QED
      BY <2>1, <3>1, <3>3, <3>6, <3>7 DEF ListFromConfig, Path
  <2>8. LogTellsRun'
    BY <1>1, <1>2, <2>1 DEF LogTellsRun, DistinctPaths, Path, AllPaths, AllScripts
  <2>9. CleanUp'
    BY <1>1, <1>2, <2>1 DEF CleanUp, NoProgress
  <2>10. PackageAsked'
    <3>1. \E t \in DOMAIN tasks' :
              /\ tasks'[t].kind = "config" /\ ~(tasks'[t].step > 3)
              /\ tasks'[t].step > 1 \/ (work'.op = "SetConfig" /\ work'.from = t)
      BY <1>2, <1>3, <2>1 DEF Ended
    <3> QED
      BY <1>1, <1>2, <3>1 DEF PackageAsked, Began, Ended, OnlyConfigs
  <2>11. Settling'
    <3>1. ListSoFar => ListSoFar'
      <4> SUFFICES ASSUME ListSoFar PROVE ListSoFar'
        OBVIOUS
      <4>1. Len(scripts) = work.next - 1 /\ \A i \in DOMAIN scripts : scripts[i] = ToAdd[i]
        BY <1>2 DEF ListSoFar
      <4>2. Len(scripts') = work'.next - 1 /\ work'.next <= Len(ToAdd) + 1
        BY <1>2, <1>3, <2>1, <2>3, <4>1
      <4>3. ToAdd' = ToAdd /\ Len(scripts) + 1 = work.next
        BY <1>3, <2>1, <2>3, <4>1 DEF ToAdd
      <4>4. \A i \in DOMAIN scripts' : scripts'[i] = ToAdd[i]
        BY <2>3, <4>1, <4>3
      <4> QED
        BY <4>2, <4>3, <4>4 DEF ListSoFar
    <3> QED
      BY <1>1, <1>2, <2>1, <3>1 DEF Settling, GroupRuns, ListStands
  <2> QED
    BY <2>5, <2>6, <2>7, <2>8, <2>9, <2>10, <2>11 DEF IInv
<1>5. CASE Ask("add", 1) /\ UNCHANGED <<scripts, work>>
  <2>1. question'.attempt = 1 /\ work'.op = "SetConfig"
    BY <1>2, <1>5 DEF Ask
  <2>2. TypeOK'
    BY <1>1, <1>2, <1>3, <1>5, <2>1, FilesAssumption DEF TypeOK
  <2>3. OneCallEach' /\ InstallLast' /\ PackageAsked'
    BY <1>2, <1>3, <1>5, <2>1, StillAtIt
  <2>4. ListFromConfig' /\ LogTellsRun' /\ CleanUp'
    BY <1>1, <1>2, <1>5, RepositoryKept DEF RepositoryStays
  <2>5. Settling'
    BY <1>1, <1>2, <1>5 DEF Settling, ListSoFar, GroupRuns, ListStands, ToAdd
  <2> QED
    BY <2>2, <2>3, <2>4, <2>5 DEF IInv
<1> QED
  BY <1>4, <1>5 DEF AddScript

LEMMA AskToAddAgainKeeps == ASSUME IInv, AskToAddAgain PROVE IInv'
<1>1. /\ TypeOK /\ ListFromConfig /\ LogTellsRun /\ CleanUp /\ Settling
  BY DEF IInv
<1>2. /\ work.op = "SetConfig" /\ question.open /\ question.attempt <= MaxAttempts
      /\ Ask("add", question.attempt + 1)
      /\ UNCHANGED <<serviceVars, mailbox, work, tasks, asked, ran, spoilt>>
  BY DEF AskToAddAgain, Answered, TryAgain
<1>3. question'.attempt = question.attempt + 1 /\ work # Idle
  BY <1>2, AddTells DEF Ask
<1>4. question'.attempt \in 1 .. (MaxAttempts + 1)
  BY <1>1, <1>2, <1>3, FilesAssumption DEF TypeOK
<1>5. TypeOK'
  BY <1>1, <1>2, <1>3, <1>4 DEF TypeOK, serviceVars
<1>6. OneCallEach' /\ InstallLast' /\ PackageAsked'
  BY <1>2, <1>3, StillAtIt DEF serviceVars
<1>7. ListFromConfig' /\ LogTellsRun' /\ CleanUp'
  BY <1>1, <1>2, RepositoryKept DEF RepositoryStays, serviceVars
<1>8. Settling'
  BY <1>1, <1>2 DEF Settling, ListSoFar, GroupRuns, ListStands, ToAdd, serviceVars
<1> QED
  BY <1>5, <1>6, <1>7, <1>8 DEF IInv

LEMMA SkipScriptKeeps == ASSUME IInv, SkipScript PROVE IInv'
<1>1. /\ TypeOK /\ ListFromConfig /\ LogTellsRun /\ CleanUp /\ Settling
  BY DEF IInv
<1>2. /\ work.op = "SetConfig" /\ NextToAdd /\ question' = NoQuestion
      /\ spoilt' = spoilt \union {"declined"}
      /\ UNCHANGED <<serviceVars, mailbox, tasks, asked, ran>>
  BY DEF SkipScript, Answered
<1>3. /\ work' \in Work /\ work'.op = "SetConfig" /\ work'.from = work.from
      /\ work'.config = work.config /\ work'.next = work.next + 1
  BY <1>2, NextToAddTells
<1>4. work # Idle /\ work.next \in Nat \ {0} /\ ToAdd \in Seq(AllScripts)
  BY <1>2, AddTells
<1>5. TypeOK'
  BY <1>1, <1>2, <1>3 DEF TypeOK, serviceVars, NoQuestion
<1>6. OneCallEach' /\ InstallLast' /\ PackageAsked'
  BY <1>2, <1>3, <1>4, StillAtIt DEF serviceVars
<1>7. ListFromConfig'
  <2>1. ToAdd' = ToAdd
    BY <1>3 DEF ToAdd
  <2> QED
    BY <1>1, <1>2, <1>3, <1>4, <2>1 DEF ListFromConfig, DistinctPaths, Path, serviceVars
<1>8. LogTellsRun'
  BY <1>1, <1>2, <1>3 DEF LogTellsRun, DistinctPaths, Path, AllPaths, AllScripts, serviceVars
<1>9. CleanUp'
  BY <1>1, <1>2, <1>3 DEF CleanUp, NoProgress, serviceVars
<1>10. Settling'
  BY <1>2 DEF Settling
<1> QED
  BY <1>5, <1>6, <1>7, <1>8, <1>9, <1>10 DEF IInv

LEMMA SetConfigAbortedKeeps == ASSUME IInv, SetConfigAborted PROVE IInv'
<1>1. /\ TypeOK /\ OneCallEach /\ InstallLast /\ ListFromConfig /\ LogTellsRun /\ CleanUp
      /\ PackageAsked
  BY DEF IInv
<1>2. /\ work.op = "SetConfig" /\ work' = Idle /\ question' = NoQuestion /\ Drop(work.from)
      /\ spoilt' = spoilt \union {"deleted"}
      /\ UNCHANGED <<serviceVars, mailbox, asked, ran>>
  BY DEF SetConfigAborted, Answered, ReturnError
<1>3. work # Idle
  BY <1>2, AddTells
<1>4. /\ OneCallEach' /\ InstallLast' /\ OnlyMoves(work.from)
  BY <1>1, <1>2, <1>3, WorkEnds
<1>5. TypeOK'
  BY <1>1, <1>2, <1>4 DEF TypeOK, serviceVars, NoQuestion, OnlyMoves, Work
<1>6. ListFromConfig'
  BY <1>1, <1>2 DEF ListFromConfig, DistinctPaths, Path, serviceVars, Idle
<1>7. LogTellsRun'
  BY <1>1, <1>2 DEF LogTellsRun, DistinctPaths, Path, AllPaths, AllScripts, serviceVars, Idle
<1>8. CleanUp' /\ PackageAsked' /\ Settling'
  BY <1>2 DEF CleanUp, PackageAsked, Settling
<1> QED
  BY <1>4, <1>5, <1>6, <1>7, <1>8 DEF IInv

LEMMA SetFilesKeeps == ASSUME IInv, SetFiles PROVE IInv'
<1> DEFINE t == work.from
<1>1. /\ TypeOK /\ OneCallEach /\ InstallLast /\ ListFromConfig /\ LogTellsRun /\ CleanUp
      /\ PackageAsked /\ Settling
  BY DEF IInv
<1>2. /\ work.op = "SetConfig" /\ work.next > Len(ToAdd) /\ files' = work.config.files
      /\ work' = Idle /\ question' = NoQuestion /\ Answer(t)
      /\ UNCHANGED <<scripts, logged, target, progress, mailbox, asked, ran, spoilt>>
  BY DEF SetFiles, Return
<1>3. /\ work # Idle /\ work.config \in Configs /\ ToAdd \in Seq(AllScripts)
      /\ work.next \in Nat \ {0} /\ t \in DOMAIN tasks /\ ~Ended(t)
      /\ tasks[t].kind = "config" /\ tasks[t].step = 1
  BY <1>2, AddTells
<1>4. /\ OneCallEach' /\ InstallLast' /\ OnlyMoves(t) /\ (OnlyConfigs' <=> OnlyConfigs)
  BY <1>1, <1>2, <1>3, WorkEnds
<1>5. tasks'[t].step = 2 /\ tasks'[t].kind = "config" /\ DOMAIN tasks' = DOMAIN tasks
  BY <1>1, <1>2, <1>3, <1>4, AnswerTells DEF OnlyMoves
<1>6. files' \subseteq AllFiles
  BY <1>2, <1>3 DEF AllFiles
<1>7. TypeOK'
  BY <1>1, <1>2, <1>4, <1>6 DEF TypeOK, NoQuestion, OnlyMoves, Work
<1>8. ListFromConfig'
  BY <1>1, <1>2 DEF ListFromConfig, DistinctPaths, Path, Idle
<1>9. LogTellsRun'
  BY <1>1, <1>2 DEF LogTellsRun, DistinctPaths, Path, AllPaths, AllScripts, Idle
<1>10. CleanUp'
  BY <1>1, <1>2 DEF CleanUp, NoProgress, Idle
<1> HIDE DEF t
<1>11. PackageAsked'
  <2>1. \A u \in DOMAIN tasks : Began(u) /\ ~Ended(u) => BeganNext(u) /\ ~EndedNext(u)
    <3> SUFFICES ASSUME NEW u \in DOMAIN tasks, Began(u), ~Ended(u)
                 PROVE  BeganNext(u) /\ ~EndedNext(u)
      OBVIOUS
    <3>1. CASE u = t
      BY <1>3, <1>5, <3>1 DEF BeganNext, EndedNext
    <3>2. CASE u # t
      BY <1>4, <1>5, <3>2 DEF t, OnlyMoves, Began, BeganNext, Ended, EndedNext
    <3> QED
      BY <3>1, <3>2
  <2> QED
    BY <1>1, <1>2, <1>4, <2>1, AskedKept
<1>12. Settling'
  <2> SUFFICES ASSUME spoilt \subseteq {"early", "unlink"}
               PROVE  ListSoFar' /\ GroupRuns' /\ ListStands'
    BY <1>2 DEF Settling
  <2>1. /\ Len(scripts) = work.next - 1 /\ work.next <= Len(ToAdd) + 1
        /\ \A i \in DOMAIN scripts : scripts[i] = ToAdd[i]
    BY <1>1, <1>2 DEF Settling, ListSoFar
  <2>2. Len(scripts) = Len(ToAdd)
    BY <1>2, <1>3, <2>1
  <2>3. scripts = ToAdd
    BY <1>1, <1>3, <2>1, <2>2 DEF TypeOK
  <2>4. scripts' = work.config.scripts /\ files' = work.config.files
    BY <1>2, <2>3 DEF ToAdd
  <2>5. ToRunNext(t)
    BY <1>3, <1>5 DEF ToRunNext
  <2>6. ListStands'
    BY <1>3, <2>4, <2>5 DEF ListStands, ToRun, ToRunNext
  <2>7. ListSoFar' /\ GroupRuns'
    BY <1>2 DEF ListSoFar, GroupRuns, Idle
  <2> QED
    BY <2>6, <2>7
<1> QED
  BY <1>4, <1>7, <1>8, <1>9, <1>10, <1>11, <1>12 DEF IInv

-----------------------------------------------------------------------------
(* RunScripts.                                                             *)

\* A task that began stays on its way when another task, or the
\* installation, or a configuration that is not at its last call, moves.
LEMMA BeganKept ==
    ASSUME NEW t \in DOMAIN tasks, OnlyMoves(t), work.op # "SetConfig",
           tasks[t].kind # "config" \/ tasks'[t].step \in 2 .. 3
    PROVE  \A u \in DOMAIN tasks : Began(u) /\ ~Ended(u) => BeganNext(u) /\ ~EndedNext(u)
<1> SUFFICES ASSUME NEW u \in DOMAIN tasks, Began(u), ~Ended(u)
             PROVE  BeganNext(u) /\ ~EndedNext(u)
  OBVIOUS
<1>1. CASE u = t
  BY <1>1 DEF OnlyMoves, Began, BeganNext, EndedNext
<1>2. CASE u # t
  BY <1>2 DEF OnlyMoves, Began, BeganNext, Ended, EndedNext
<1> QED
  BY <1>1, <1>2

\* No configuration is set because the installation moves.
LEMMA WroteKept ==
    ASSUME NEW t \in DOMAIN tasks, OnlyMoves(t), tasks[t].kind # "config" \/ tasks[t].step > 1
    PROVE  /\ \A u \in DOMAIN tasks' : WroteNext(u) => \E v \in DOMAIN tasks : Wrote(v)
           /\ (tasks[t].kind # "config" \/ tasks[t].step # 2)
                  => \A u \in DOMAIN tasks : ToRun(u) => ToRunNext(u)
BY DEF OnlyMoves, Wrote, WroteNext, ToRun, ToRunNext

\* The service takes a call for scripts or for the end of the installation.
LEMMA TakesTells ==
    ASSUME IInv, NEW op \in {"RunScripts", "Finish"}, Handle(op),
           work'.op = op, work'.from = Caller,
           UNCHANGED <<question, tasks, asked, scripts, files, logged, spoilt>>,
           target'.service = target.service
    PROVE  /\ OneCallEach' /\ InstallLast' /\ PackageAsked'
           /\ ListStands => ListStands'
<1>1. TypeOK /\ OneCallEach /\ InstallLast /\ PackageAsked
  BY DEF IInv
<1>2. /\ work = Idle /\ work.op = "none" /\ mailbox # <<>> /\ mailbox' = Tail(mailbox)
      /\ CallOf(Caller).op = op
  BY HandleTells
<1>3. OneCallEach' /\ InstallLast'
  BY <1>1, <1>2, WorkBegins DEF Message
<1>4. \A t : /\ Began(t) => BeganNext(t)
             /\ Ended(t) <=> EndedNext(t)
             /\ WroteNext(t) => Wrote(t)
             /\ ToRun(t) => ToRunNext(t)
  BY <1>2 DEF Began, BeganNext, Ended, EndedNext, Wrote, WroteNext, ToRun, ToRunNext
<1>5. OnlyConfigs' => OnlyConfigs
  BY DEF OnlyConfigs
<1>6. PackageAsked'
  BY <1>1, <1>4, <1>5, AskedKept
<1>7. ListStands => ListStands'
  BY <1>2, <1>4, StandsKept
<1> QED
  BY <1>3, <1>6, <1>7

\* The scripts to run are places in the list, of scripts without a log.
LEMMA FindTells ==
    ASSUME TypeOK, NEW group
    PROVE  /\ FindScriptsToRun(group) \subseteq ByGroup(group)
           /\ ByGroup(group) \subseteq DOMAIN scripts
           /\ DOMAIN scripts \subseteq Nat \ {0}
           /\ Cardinality(FindScriptsToRun(group)) \in Nat
           /\ \A i \in FindScriptsToRun(group) : Path(scripts[i]) \notin logged
           /\ \A i \in ByGroup(group) :
                Path(scripts[i]) \in logged \/ i \in FindScriptsToRun(group)
<1>1. FindScriptsToRun(group) \subseteq ByGroup(group) /\ ByGroup(group) \subseteq DOMAIN scripts
  BY DEF FindScriptsToRun, ByGroup
<1>2. DOMAIN scripts = 1 .. Len(scripts) /\ Len(scripts) \in Nat
  BY DEF TypeOK
<1>3. IsFiniteSet(1 .. Len(scripts))
  BY <1>2, FS_Interval
<1>4. Cardinality(FindScriptsToRun(group)) \in Nat
  BY <1>1, <1>2, <1>3, FS_Subset, FS_CardinalityType
<1> QED
  BY <1>1, <1>2, <1>4 DEF FindScriptsToRun

LEMMA HandleRunScriptsKeeps == ASSUME IInv, HandleRunScripts PROVE IInv'
<1> DEFINE group == Message.group
           todo == FindScriptsToRun(group)
<1>1. /\ TypeOK /\ OneCallEach /\ InstallLast /\ ListFromConfig /\ LogTellsRun /\ CleanUp
      /\ PackageAsked /\ Settling
  BY DEF IInv
<1>2. /\ Handle("RunScripts") /\ StartProgress(Cardinality(todo)) /\ LinkResolv(todo)
      /\ UNCHANGED <<scripts, logged, files, question, tasks, asked, ran, spoilt>>
  BY DEF HandleRunScripts
<1>3. /\ work = Idle /\ work.op = "none" /\ ~question.open
      /\ mailbox' = Tail(mailbox) /\ mailbox' \in Seq(DOMAIN tasks)
      /\ Caller \in DOMAIN tasks /\ Caller \in Nat /\ ~Ended(Caller)
  BY <1>2, HandleTells
<1>4. /\ todo \subseteq ByGroup(group) /\ todo \subseteq DOMAIN scripts
      /\ DOMAIN scripts \subseteq Nat \ {0} /\ Cardinality(todo) \in Nat
      /\ \A i \in todo : Path(scripts[i]) \notin logged
      /\ \A i \in ByGroup(group) : Path(scripts[i]) \in logged \/ i \in todo
  BY <1>1, FindTells
<1> HIDE DEF group, todo
<1>5. PICK linked \in BOOLEAN :
         /\ work' = [op |-> "RunScripts", from |-> Caller, todo |-> todo, current |-> 0,
                     linked |-> linked, fresh |-> TRUE]
         /\ \/ linked /\ target' = [target EXCEPT !.link = TRUE]
            \/ target' = target
  BY <1>2 DEF LinkResolv, Run
<1>6. /\ work' \in Work /\ work'.op = "RunScripts" /\ work'.from = Caller
      /\ work'.todo = todo /\ work'.current = 0 /\ work'.linked = linked
  BY <1>3, <1>4, <1>5 DEF Work
<1>7. /\ target' \in [files : SUBSET AllFiles, link : BOOLEAN, service : BOOLEAN]
      /\ target'.service = target.service /\ (target'.link => linked \/ target.link)
  BY <1>1, <1>5 DEF TypeOK
<1>8. progress' = progress \/ progress' = <<1, Cardinality(todo)>>
  BY <1>2 DEF StartProgress
<1>9. TypeOK'
  <2>1. \/ progress' = NoProgress
        \/ progress' \in Nat \X Nat /\ (progress'[1] = 1 \/ progress'[1] \in 2 .. progress'[2])
    BY <1>1, <1>4, <1>8 DEF TypeOK
  <2> QED
    BY <1>1, <1>2, <1>3, <1>6, <1>7, <2>1 DEF TypeOK
<1>10. /\ OneCallEach' /\ InstallLast' /\ PackageAsked' /\ (ListStands => ListStands')
  BY <1>2, <1>6, <1>7, TakesTells
<1>11. ListFromConfig'
  BY <1>1, <1>2, <1>6 DEF ListFromConfig, DistinctPaths, Path
<1>12. LogTellsRun'
  BY <1>1, <1>2, <1>4, <1>6 DEF LogTellsRun, DistinctPaths, Path, AllPaths, AllScripts
<1>13. CleanUp'
  BY <1>1, <1>2, <1>3, <1>6, <1>7 DEF CleanUp
<1>14. Settling'
  <2>1. CallNext(Caller).group = group
    BY <1>2 DEF CallNext, CallOf, Message, group
  <2>2. GroupRuns'
    BY <1>2, <1>4, <1>6, <2>1 DEF GroupRuns, CallOf, CallNext, ByGroup, Path
  <2>3. ListSoFar'
    BY <1>6 DEF ListSoFar
  <2> QED
    BY <1>1, <1>2, <1>10, <2>2, <2>3 DEF Settling
<1> QED
  BY <1>9, <1>10, <1>11, <1>12, <1>13, <1>14 DEF IInv

LEMMA LinkFailsKeeps == ASSUME IInv, LinkFails PROVE IInv'
<1>1. /\ TypeOK /\ OneCallEach /\ InstallLast /\ ListFromConfig /\ LogTellsRun
      /\ CleanUp /\ PackageAsked
  BY DEF IInv
<1>2. /\ Handle("RunScripts") /\ StartProgress(Cardinality(FindScriptsToRun(Message.group)))
      /\ Answer(Caller) /\ spoilt' = spoilt \union {"link"}
      /\ UNCHANGED <<scripts, logged, files, target, work, question, asked, ran>>
  BY DEF LinkFails
<1>3. /\ work = Idle /\ work.op = "none" /\ ~question.open /\ mailbox # <<>>
      /\ mailbox' = Tail(mailbox) /\ mailbox' \in Seq(DOMAIN tasks)
      /\ Caller \in DOMAIN tasks /\ ~Ended(Caller) /\ CallOf(Caller).op = "RunScripts"
  BY <1>2, HandleTells
<1>4. OneCallEach' /\ InstallLast' /\ (OnlyConfigs' <=> OnlyConfigs) /\ OnlyMoves(Caller)
  BY <1>1, <1>2, <1>3, CallEnds
<1>5. tasks[Caller].kind # "config" \/ tasks'[Caller].step = 3
  BY <1>1, <1>2, <1>3, OpTells, AnswerTells
<1>6. TypeOK'
  <2>1. Cardinality(FindScriptsToRun(Message.group)) \in Nat
    BY <1>1, FindTells
  <2>2. \/ progress' = NoProgress
        \/ progress' \in Nat \X Nat /\ (progress'[1] = 1 \/ progress'[1] \in 2 .. progress'[2])
    BY <1>1, <1>2, <2>1 DEF TypeOK, StartProgress
  <2> QED
    BY <1>1, <1>2, <1>3, <1>4, <2>2 DEF TypeOK, OnlyMoves
<1>7. ListFromConfig'
  BY <1>1, <1>2 DEF ListFromConfig, DistinctPaths, Path, ToAdd
<1>8. LogTellsRun'
  BY <1>1, <1>2 DEF LogTellsRun, DistinctPaths, Path, AllPaths, AllScripts
<1>9. CleanUp' /\ Settling'
  BY <1>1, <1>2 DEF CleanUp, Settling
<1>10. PackageAsked'
  <2>1. \A u \in DOMAIN tasks : Began(u) /\ ~Ended(u) => BeganNext(u) /\ ~EndedNext(u)
    BY <1>3, <1>4, <1>5, BeganKept
  <2> QED
    BY <1>1, <1>2, <1>4, <2>1, AskedKept
<1> QED
  BY <1>4, <1>6, <1>7, <1>8, <1>9, <1>10 DEF IInv

LEMMA HandleNoScriptsKeeps == ASSUME IInv, HandleNoScripts PROVE IInv'
<1>1. /\ TypeOK /\ OneCallEach /\ InstallLast /\ ListFromConfig /\ LogTellsRun /\ CleanUp
      /\ PackageAsked /\ Settling
  BY DEF IInv
<1>2. /\ Handle("RunScripts") /\ ByGroup(Message.group) = {} /\ Answer(Caller)
      /\ UNCHANGED <<serviceVars, work, question, asked, ran, spoilt>>
  BY DEF HandleNoScripts
<1>3. /\ work = Idle /\ work.op = "none" /\ ~question.open /\ mailbox # <<>>
      /\ mailbox' = Tail(mailbox) /\ mailbox' \in Seq(DOMAIN tasks)
      /\ Caller \in DOMAIN tasks /\ ~Ended(Caller) /\ CallOf(Caller).op = "RunScripts"
  BY <1>2, HandleTells
<1>4. OneCallEach' /\ InstallLast' /\ (OnlyConfigs' <=> OnlyConfigs) /\ OnlyMoves(Caller)
  BY <1>1, <1>2, <1>3, CallEnds
<1>5. \/ tasks[Caller].kind = "config" /\ tasks[Caller].step = 2 /\ Message.group = "pre"
      \/ tasks[Caller].kind # "config"
  BY <1>1, <1>3, OpTells DEF Message
<1>6. tasks[Caller].kind # "config" \/ tasks'[Caller].step = 3
  BY <1>1, <1>2, <1>3, <1>5, AnswerTells
<1>7. TypeOK'
  BY <1>1, <1>2, <1>3, <1>4 DEF TypeOK, OnlyMoves, serviceVars
<1>8. ListFromConfig' /\ LogTellsRun' /\ CleanUp'
  BY <1>1, <1>2, RepositoryKept DEF RepositoryStays, serviceVars
<1>9. PackageAsked'
  <2>1. \A u \in DOMAIN tasks : Began(u) /\ ~Ended(u) => BeganNext(u) /\ ~EndedNext(u)
    BY <1>3, <1>4, <1>6, BeganKept
  <2> QED
    BY <1>1, <1>2, <1>4, <2>1, AskedKept DEF serviceVars
<1>10. Settling'
  <2>1. /\ \A u \in DOMAIN tasks' : WroteNext(u) => \E v \in DOMAIN tasks : Wrote(v)
        /\ (tasks[Caller].kind # "config" \/ tasks[Caller].step # 2)
                  => \A u \in DOMAIN tasks : ToRun(u) => ToRunNext(u)
    BY <1>3, <1>4, <1>5, WroteKept
  <2>2. ASSUME ListStands PROVE ListStands'
    <3>1. CASE tasks[Caller].kind # "config"
      BY <1>2, <1>3, <2>1, <2>2, <3>1, StandsKept DEF serviceVars
    <3>2. CASE Message.group = "pre"
      <4>1. ByGroup("pre")' = {}
        BY <1>2, <3>2 DEF ByGroup, serviceVars
      <4>2. (\E u \in DOMAIN tasks' : WroteNext(u)) =>
                \E c \in Configs : scripts' = c.scripts /\ files' = c.files
        BY <1>2, <1>3, <2>1, <2>2 DEF ListStands, serviceVars
      <4> QED
        BY <4>1, <4>2 DEF ListStands, Wrote, WroteNext
    <3> QED
      BY <1>5, <3>1, <3>2
  <2>3. ListSoFar' /\ GroupRuns'
    BY <1>2, <1>3 DEF ListSoFar, GroupRuns
  <2> QED
    BY <1>1, <1>2, <2>2, <2>3 DEF Settling
<1> QED
  BY <1>4, <1>7, <1>8, <1>9, <1>10 DEF IInv

\* The work that runs scripts.
RunWork ==
    [op : {"RunScripts"}, from : Nat, todo : SUBSET Nat, current : Nat,
     linked : BOOLEAN, fresh : BOOLEAN]
LEMMA RunTells ==
    ASSUME IInv, work.op = "RunScripts"
    PROVE  /\ work # Idle /\ work \in RunWork
           /\ work.from \in DOMAIN tasks /\ ~Ended(work.from)
           /\ \/ tasks[work.from].kind = "config" /\ tasks[work.from].step = 2
                 /\ CallOf(work.from).group = "pre"
              \/ tasks[work.from].kind # "config" /\ CallOf(work.from).group # "pre"
           /\ work.todo \subseteq DOMAIN scripts
           /\ work.current \in DOMAIN scripts \union {0} /\ work.current \notin work.todo
<1>1. TypeOK /\ OneCallEach /\ LogTellsRun
  BY DEF IInv
<1>2. work # Idle /\ work \in RunWork
  BY <1>1, WorkTells DEF Idle, RunWork
<1>3. work.from \in DOMAIN tasks /\ ~Ended(work.from) /\ CallOf(work.from).op = "RunScripts"
  BY <1>1, <1>2, FromTells
<1>4. \/ tasks[work.from].kind = "config" /\ tasks[work.from].step = 2
         /\ CallOf(work.from).group = "pre"
      \/ tasks[work.from].kind # "config" /\ CallOf(work.from).group # "pre"
  BY <1>1, <1>3, OpTells
<1> QED
  BY <1>1, <1>2, <1>3, <1>4 DEF LogTellsRun

\* Work in its set is work of the service.
LEMMA RunWorkIsWork ==
    ASSUME NEW w \in RunWork
    PROVE  w \in Work /\ w # Idle /\ w.op = "RunScripts"
BY DEF RunWork, Work, Idle

LEMMA NextScriptKeeps == ASSUME IInv, NextScript PROVE IInv'
<1>1. /\ TypeOK /\ ListFromConfig /\ LogTellsRun /\ CleanUp /\ Settling
  BY DEF IInv
<1>2. /\ work.op = "RunScripts" /\ work.current = 0 /\ NextStep
      /\ UNCHANGED <<scripts, logged, files, target, mailbox, question, tasks, asked,
                     ran, spoilt>>
  BY DEF NextScript
<1>3. PICK i \in work.todo :
         work' = [work EXCEPT !.current = i, !.todo = @ \ {i}, !.fresh = TRUE]
  BY DEF NextScript
<1>4. /\ work # Idle /\ work \in RunWork /\ i \in Nat
      /\ work.todo \subseteq DOMAIN scripts
  BY <1>2, RunTells DEF RunWork
<1>5. /\ work' \in RunWork /\ work'.op = "RunScripts" /\ work'.from = work.from
      /\ work'.current = i /\ work'.todo = work.todo \ {i} /\ work'.linked = work.linked
  BY <1>3, <1>4 DEF RunWork
<1>6. work' \in Work /\ work' # Idle
  BY <1>5, RunWorkIsWork
<1>7. TypeOK'
  <2>1. \/ progress' = NoProgress
        \/ progress' \in Nat \X Nat /\ (progress'[1] = 1 \/ progress'[1] \in 2 .. progress'[2])
    BY <1>1, <1>2 DEF TypeOK, NextStep
  <2> QED
    BY <1>1, <1>2, <1>6, <2>1 DEF TypeOK
<1>8. OneCallEach' /\ InstallLast' /\ PackageAsked' /\ (ListStands => ListStands')
  BY <1>2, <1>4, <1>5, StillAtIt
<1>9. ListFromConfig'
  BY <1>1, <1>2, <1>5 DEF ListFromConfig, DistinctPaths, Path
<1>10. LogTellsRun'
  BY <1>1, <1>2, <1>3, <1>4, <1>5 DEF LogTellsRun, DistinctPaths, Path, AllPaths, AllScripts
<1>11. CleanUp'
  BY <1>1, <1>2, <1>5 DEF CleanUp
<1>12. Settling'
  <2>1. CallNext(work'.from) = CallOf(work.from)
    BY <1>2, <1>5 DEF CallNext, CallOf
  <2>2. GroupRuns => GroupRuns'
    <3>1. ASSUME GroupRuns, NEW j \in ByGroup(CallOf(work.from).group)
          PROVE  Path(scripts[j]) \in logged \/ j \in work'.todo \/ j = work'.current
      <4>1. j # 0
        BY <1>1, <3>1 DEF ByGroup, TypeOK
      <4> QED
        BY <1>2, <1>5, <3>1, <4>1 DEF GroupRuns
    <3> QED
      BY <1>2, <2>1, <3>1 DEF GroupRuns, CallNext, CallOf, ByGroup, Path
  <2>3. ListSoFar'
    BY <1>5 DEF ListSoFar
  <2> QED
    BY <1>1, <1>2, <1>8, <2>2, <2>3 DEF Settling
<1> QED
  BY <1>7, <1>8, <1>9, <1>10, <1>11, <1>12 DEF IInv

\* What the log and the count of executions are after an attempt.
LEMMA AttemptTells ==
    ASSUME IInv, work.op = "RunScripts", work.current # 0, NEW path,
           path = Path(scripts[work.current]),
           logged' = logged \union {path},
           ran' = IF work.fresh THEN [ran EXCEPT ![path] = @ + 1] ELSE ran
    PROVE  /\ path \in AllPaths /\ logged' \subseteq AllPaths /\ ran' \in [AllPaths -> Nat]
           /\ \A p \in AllPaths : p \notin logged' => ran'[p] = 0
           /\ DistinctPaths => /\ \A p \in AllPaths : ran'[p] <= 1
                               /\ \A i \in work.todo : Path(scripts[i]) \notin logged'
<1>1. TypeOK /\ LogTellsRun /\ ListFromConfig
  BY DEF IInv
<1>2. /\ work.todo \subseteq DOMAIN scripts /\ work.current \in DOMAIN scripts
      /\ work.current \notin work.todo /\ work.fresh \in BOOLEAN
  BY RunTells DEF RunWork
<1>3. path \in AllPaths
  BY <1>1, <1>2 DEF TypeOK, AllPaths
<1>4. logged' \subseteq AllPaths /\ ran' \in [AllPaths -> Nat]
  BY <1>1, <1>3 DEF TypeOK
<1>5. \A p \in AllPaths : p # path => ran'[p] = ran[p]
  BY <1>1, <1>3 DEF TypeOK
<1>6. \A p \in AllPaths : p \notin logged' => ran'[p] = 0
  BY <1>1, <1>5 DEF LogTellsRun
<1>7. ASSUME DistinctPaths
      PROVE  /\ \A p \in AllPaths : ran'[p] <= 1
             /\ \A i \in work.todo : Path(scripts[i]) \notin logged'
  <2>1. \A p \in AllPaths : ran[p] <= 1
    BY <1>1, <1>7 DEF LogTellsRun
  <2>2. work.fresh => ran[path] = 0
    BY <1>1, <1>3, <1>7 DEF LogTellsRun
  <2>3. ran'[path] <= 1
    BY <1>1, <1>2, <1>3, <2>1, <2>2 DEF TypeOK
  <2>4. \A i \in work.todo : Path(scripts[i]) # path /\ Path(scripts[i]) \notin logged
    BY <1>1, <1>2, <1>7 DEF LogTellsRun, ListFromConfig
  <2> QED
    BY <1>5, <2>1, <2>3, <2>4
<1> QED
  BY <1>3, <1>4, <1>6, <1>7

LEMMA RunCommandKeeps == ASSUME IInv, RunCommand PROVE IInv'
<1> DEFINE path == Path(scripts[work.current])
<1>1. /\ TypeOK /\ ListFromConfig /\ LogTellsRun /\ CleanUp /\ Settling
  BY DEF IInv
<1>2. /\ work.op = "RunScripts" /\ work.current # 0 /\ ~question.open
      /\ UNCHANGED <<scripts, files, target, progress, mailbox, tasks, asked, spoilt>>
  BY DEF RunCommand
<1>3. /\ work # Idle /\ work \in RunWork /\ work.todo \subseteq DOMAIN scripts
      /\ work.current \in DOMAIN scripts /\ work.current \notin work.todo
  BY <1>2, RunTells
<1>4. CASE Ask("run", 1) /\ UNCHANGED <<logged, ran, work>>
  <2>1. TypeOK'
    BY <1>1, <1>2, <1>3, <1>4, FilesAssumption DEF TypeOK, Ask
  <2>2. OneCallEach' /\ InstallLast' /\ PackageAsked' /\ (ListStands => ListStands')
    BY <1>2, <1>3, <1>4, StillAtIt
  <2>3. ListFromConfig' /\ LogTellsRun' /\ CleanUp'
    BY <1>1, <1>2, <1>4, RepositoryKept DEF RepositoryStays
  <2>4. GroupRuns => GroupRuns'
    BY <1>2, <1>4 DEF GroupRuns, CallOf, ByGroup, Path
  <2>5. ListSoFar'
    BY <1>2, <1>4 DEF ListSoFar
  <2>6. Settling'
    BY <1>1, <1>2, <2>2, <2>4, <2>5 DEF Settling
  <2> QED
    BY <2>1, <2>2, <2>3, <2>6 DEF IInv
<1>5. CASE /\ logged' = logged \union {path}
           /\ ran' = IF work.fresh THEN [ran EXCEPT ![path] = @ + 1] ELSE ran
           /\ \/ work' = [work EXCEPT !.current = 0] /\ UNCHANGED question
              \/ work' = [work EXCEPT !.fresh = FALSE] /\ Ask("run", 1)
  <2>1. /\ logged' \subseteq AllPaths /\ ran' \in [AllPaths -> Nat]
        /\ \A p \in AllPaths : p \notin logged' => ran'[p] = 0
        /\ DistinctPaths => /\ \A p \in AllPaths : ran'[p] <= 1
                            /\ \A i \in work.todo : Path(scripts[i]) \notin logged'
    BY <1>2, <1>5, AttemptTells
  <2>2. /\ work' \in RunWork /\ work'.op = "RunScripts" /\ work'.from = work.from
        /\ work'.todo = work.todo /\ work'.linked = work.linked
        /\ work'.current = 0 \/ (work'.current = work.current /\ work'.fresh = FALSE)
    <3>1. CASE work' = [work EXCEPT !.current = 0]
      BY <1>3, <3>1 DEF RunWork
    <3>2. CASE work' = [work EXCEPT !.fresh = FALSE]
      BY <1>3, <3>2 DEF RunWork
    <3> QED
      BY <1>5, <3>1, <3>2
  <2>3. work' \in Work /\ work' # Idle
    BY <2>2, RunWorkIsWork
  <2>4. question'.open => question'.attempt = 1
    BY <1>2, <1>5 DEF Ask
  <2>5. TypeOK'
    BY <1>1, <1>2, <2>1, <2>3, <2>4, FilesAssumption DEF TypeOK
  <2>6. OneCallEach' /\ InstallLast' /\ PackageAsked' /\ (ListStands => ListStands')
    BY <1>2, <1>3, <1>5, <2>2, StillAtIt
  <2>7. ListFromConfig'
    BY <1>1, <1>2, <2>2 DEF ListFromConfig, DistinctPaths, Path
  <2>8. LogTellsRun'
    <3>1. work'.todo \subseteq DOMAIN scripts' /\ work'.current \in DOMAIN scripts' \union {0}
          /\ work'.current \notin work'.todo
      <4>1. 0 \notin DOMAIN scripts
        BY <1>1 DEF TypeOK
      <4> QED
        BY <1>2, <1>3, <2>2, <4>1
    <3>2. ~(work'.current # 0 /\ work'.fresh)
      BY <2>2
    <3>3. DistinctPaths' => DistinctPaths
      BY DEF DistinctPaths, Path
    <3>4. AllPaths' = AllPaths
      BY DEF AllPaths, AllScripts, Path
    <3>5. DistinctPaths' => \A i \in work'.todo : Path(scripts'[i]) \notin logged'
      BY <1>2, <2>1, <2>2, <3>3
    <3> QED
      BY <2>1, <3>1, <3>2, <3>3, <3>4, <3>5 DEF LogTellsRun, Path
  <2>9. CleanUp'
    BY <1>1, <1>2, <2>2 DEF CleanUp
  <2>10. Settling'
    <3>1. CallNext(work'.from) = CallOf(work.from)
      BY <1>2, <2>2 DEF CallNext, CallOf
    <3>2. GroupRuns => GroupRuns'
      BY <1>2, <1>5, <2>2, <3>1 DEF GroupRuns, CallNext, CallOf, ByGroup, Path
    <3>3. ListSoFar'
      BY <2>2 DEF ListSoFar
    <3> QED
      BY <1>1, <1>2, <2>6, <3>2, <3>3 DEF Settling
  <2> QED
    BY <2>5, <2>6, <2>7, <2>8, <2>9, <2>10 DEF IInv
<1> QED
  BY <1>4, <1>5 DEF RunCommand

LEMMA RunAgainKeeps == ASSUME IInv, RunAgain PROVE IInv'
<1>1. /\ TypeOK /\ ListFromConfig /\ LogTellsRun /\ CleanUp /\ Settling
  BY DEF IInv
<1>2. /\ work.op = "RunScripts" /\ question' = NoQuestion
      /\ UNCHANGED <<serviceVars, mailbox, work, tasks, asked, ran, spoilt>>
  BY DEF RunAgain, Answered
<1>3. work # Idle
  BY <1>2, RunTells
<1>4. TypeOK'
  BY <1>1, <1>2 DEF TypeOK, NoQuestion, serviceVars
<1>5. OneCallEach' /\ InstallLast' /\ PackageAsked' /\ (ListStands => ListStands')
  BY <1>2, <1>3, StillAtIt DEF serviceVars
<1>6. ListFromConfig' /\ LogTellsRun' /\ CleanUp'
  BY <1>1, <1>2, RepositoryKept DEF RepositoryStays, serviceVars
<1>7. GroupRuns => GroupRuns'
  BY <1>2 DEF GroupRuns, CallOf, ByGroup, Path, serviceVars
<1>8. ListSoFar'
  BY <1>2 DEF ListSoFar
<1>9. Settling'
  BY <1>1, <1>2, <1>5, <1>7, <1>8 DEF Settling
<1> QED
  BY <1>4, <1>5, <1>6, <1>9 DEF IInv

LEMMA GiveUpScriptKeeps == ASSUME IInv, GiveUpScript PROVE IInv'
<1>1. /\ TypeOK /\ ListFromConfig /\ LogTellsRun /\ CleanUp
  BY DEF IInv
<1>2. /\ work.op = "RunScripts" /\ question' = NoQuestion
      /\ work' = [work EXCEPT !.current = 0] /\ spoilt' = spoilt \union {"declined"}
      /\ UNCHANGED <<serviceVars, mailbox, tasks, asked, ran>>
  BY DEF GiveUpScript, Answered
<1>3. work # Idle /\ work \in RunWork /\ work.todo \subseteq DOMAIN scripts
  BY <1>2, RunTells
<1>4. /\ work' \in RunWork /\ work'.op = "RunScripts" /\ work'.from = work.from
      /\ work'.todo = work.todo /\ work'.linked = work.linked /\ work'.current = 0
  BY <1>2, <1>3 DEF RunWork
<1>5. work' \in Work
  BY <1>4, RunWorkIsWork
<1>6. 0 \notin work.todo
  BY <1>1, <1>3 DEF TypeOK
<1>7. TypeOK'
  BY <1>1, <1>2, <1>5 DEF TypeOK, NoQuestion, serviceVars
<1>8. OneCallEach' /\ InstallLast' /\ PackageAsked'
  BY <1>2, <1>3, <1>4, StillAtIt DEF serviceVars
<1>9. ListFromConfig'
  BY <1>1, <1>2, <1>4 DEF ListFromConfig, DistinctPaths, Path, serviceVars
<1>10. LogTellsRun'
  BY <1>1, <1>2, <1>4, <1>6 DEF LogTellsRun, DistinctPaths, Path, AllPaths, AllScripts, serviceVars
<1>11. CleanUp'
  BY <1>1, <1>2, <1>4 DEF CleanUp, serviceVars
<1>12. Settling'
  BY <1>2 DEF Settling
<1> QED
  BY <1>7, <1>8, <1>9, <1>10, <1>11, <1>12 DEF IInv

LEMMA RunAbortedKeeps == ASSUME IInv, RunAborted PROVE IInv'
<1>1. /\ TypeOK /\ OneCallEach /\ InstallLast /\ ListFromConfig /\ LogTellsRun
  BY DEF IInv
<1>2. /\ work.op = "RunScripts" /\ work' = Idle /\ question' = NoQuestion
      /\ Answer(work.from) /\ spoilt' = spoilt \union {"deleted"}
      /\ UNCHANGED <<serviceVars, mailbox, asked, ran>>
  BY DEF RunAborted, Answered, Return
<1>3. work # Idle
  BY <1>2, RunTells
<1>4. OneCallEach' /\ InstallLast' /\ OnlyMoves(work.from)
  BY <1>1, <1>2, <1>3, WorkEnds
<1>5. TypeOK'
  BY <1>1, <1>2, <1>4 DEF TypeOK, serviceVars, NoQuestion, OnlyMoves, Work
<1>6. ListFromConfig'
  BY <1>1, <1>2 DEF ListFromConfig, DistinctPaths, Path, serviceVars, Idle
<1>7. LogTellsRun'
  BY <1>1, <1>2 DEF LogTellsRun, DistinctPaths, Path, AllPaths, AllScripts, serviceVars, Idle
<1>8. CleanUp' /\ PackageAsked' /\ Settling'
  BY <1>2 DEF CleanUp, PackageAsked, Settling
<1> QED
  BY <1>4, <1>5, <1>6, <1>7, <1>8 DEF IInv

LEMMA EndScriptsKeeps == ASSUME IInv, EndScripts PROVE IInv'
<1> DEFINE t == work.from
<1>1. /\ TypeOK /\ OneCallEach /\ InstallLast /\ ListFromConfig /\ LogTellsRun /\ CleanUp
      /\ PackageAsked /\ Settling
  BY DEF IInv
<1>2. /\ work.op = "RunScripts" /\ work.current = 0 /\ work.todo = {}
      /\ UnlinkResolv /\ progress' = NoProgress
      /\ work' = Idle /\ question' = NoQuestion /\ Answer(t)
      /\ UNCHANGED <<scripts, logged, files, mailbox, asked, ran>>
  BY DEF EndScripts, Return
<1>3. /\ work # Idle /\ t \in DOMAIN tasks /\ ~Ended(t)
      /\ \/ tasks[t].kind = "config" /\ tasks[t].step = 2 /\ CallOf(t).group = "pre"
         \/ tasks[t].kind # "config" /\ CallOf(t).group # "pre"
  BY <1>2, RunTells
<1>4. spoilt \subseteq spoilt' /\ spoilt' \subseteq spoilt \union {"unlink"}
  BY <1>2 DEF UnlinkResolv
<1>5. OneCallEach' /\ InstallLast' /\ OnlyMoves(t) /\ (OnlyConfigs' <=> OnlyConfigs)
  BY <1>1, <1>2, <1>3, <1>4, WorkEnds
<1>6. tasks[t].kind # "config" \/ tasks'[t].step = 3
  BY <1>1, <1>2, <1>3, AnswerTells
<1>7. /\ target' \in [files : SUBSET AllFiles, link : BOOLEAN, service : BOOLEAN]
      /\ target'.service = target.service
      /\ target'.link => target.link
      /\ (target'.link /\ work.linked) => "unlink" \in spoilt'
  BY <1>1, <1>2 DEF TypeOK, UnlinkResolv
<1>8. TypeOK'
  BY <1>1, <1>2, <1>5, <1>7 DEF TypeOK, NoQuestion, OnlyMoves, Work
<1>9. ListFromConfig'
  BY <1>1, <1>2 DEF ListFromConfig, DistinctPaths, Path, Idle
<1>10. LogTellsRun'
  BY <1>1, <1>2 DEF LogTellsRun, DistinctPaths, Path, AllPaths, AllScripts, Idle
<1>11. CleanUp'
  BY <1>1, <1>2, <1>7, <1>4 DEF CleanUp, Idle
<1> HIDE DEF t
<1>12. PackageAsked'
  <2>1. \A u \in DOMAIN tasks : Began(u) /\ ~Ended(u) => BeganNext(u) /\ ~EndedNext(u)
    BY <1>2, <1>3, <1>5, <1>6, BeganKept
  <2> QED
    BY <1>1, <1>2, <1>5, <1>7, <1>4, <2>1, AskedKept
<1>13. Settling'
  <2>1. /\ \A u \in DOMAIN tasks' : WroteNext(u) => \E v \in DOMAIN tasks : Wrote(v)
        /\ (tasks[t].kind # "config" \/ tasks[t].step # 2)
                  => \A u \in DOMAIN tasks : ToRun(u) => ToRunNext(u)
    BY <1>3, <1>5, WroteKept
  <2>2. ASSUME ListStands, GroupRuns PROVE ListStands'
    <3>1. CASE tasks[t].kind # "config"
      BY <1>2, <2>1, <2>2, <3>1, StandsKept
    <3>2. CASE CallOf(t).group = "pre"
      <4>1. \A i \in ByGroup("pre") : Path(scripts[i]) \in logged
        <5>1. \A i \in ByGroup("pre") : i # 0
          BY <1>1 DEF ByGroup, TypeOK
        <5> QED
          BY <1>2, <2>2, <3>2, <5>1 DEF GroupRuns, t
      <4>2. (\E u \in DOMAIN tasks' : WroteNext(u)) =>
                \E c \in Configs : scripts' = c.scripts /\ files' = c.files
        BY <1>2, <2>1, <2>2 DEF ListStands
      <4> QED
        BY <1>2, <4>1, <4>2 DEF ListStands, Wrote, WroteNext, ByGroup, Path
    <3> QED
      BY <1>3, <3>1, <3>2
  <2>3. ListSoFar' /\ GroupRuns'
    BY <1>2 DEF ListSoFar, GroupRuns, Idle
  <2> QED
    BY <1>1, <1>4, <2>2, <2>3 DEF Settling
<1> QED
  BY <1>5, <1>8, <1>9, <1>10, <1>11, <1>12, <1>13 DEF IInv

-----------------------------------------------------------------------------
(* Finish and GetResolvables.                                              *)

\* The work that writes files.
FinishWork == [op : {"Finish"}, from : Nat, todo : SUBSET AllFiles]
LEMMA FinishTells ==
    ASSUME IInv, work.op = "Finish"
    PROVE  /\ work # Idle /\ work \in FinishWork
           /\ work.from \in DOMAIN tasks /\ ~Ended(work.from)
           /\ tasks[work.from].kind # "config"
           /\ question.open => question.about \in work.todo
<1>1. TypeOK /\ OneCallEach
  BY DEF IInv
<1>2. work # Idle /\ work \in FinishWork
  BY <1>1, WorkTells DEF Idle, FinishWork
<1>3. work.from \in DOMAIN tasks /\ ~Ended(work.from) /\ CallOf(work.from).op = "Finish"
  BY <1>1, <1>2, FromTells
<1>4. tasks[work.from].kind = "install"
  BY <1>1, <1>3, OpTells
<1> QED
  BY <1>1, <1>2, <1>3, <1>4 DEF OneCallEach

LEMMA FinishWorkIsWork ==
    ASSUME NEW w \in FinishWork
    PROVE  w \in Work /\ w # Idle /\ w.op = "Finish"
BY DEF FinishWork, Work, Idle

\* The repository and the list do not change while the files are written.
LEMMA WritingKeeps ==
    ASSUME IInv, work.op = "Finish",
           work' \in FinishWork, work'.from = work.from,
           target' \in [files : SUBSET AllFiles, link : BOOLEAN, service : BOOLEAN],
           target'.link = target.link, target'.service = target.service,
           UNCHANGED <<scripts, logged, files, progress, mailbox, tasks, asked, ran, spoilt>>,
           question'.open => /\ question'.attempt \in 1 .. (MaxAttempts + 1)
                             /\ question'.about \in work'.todo
    PROVE  IInv'
<1>1. /\ TypeOK /\ ListFromConfig /\ LogTellsRun /\ CleanUp /\ Settling
  BY DEF IInv
<1>2. work # Idle
  BY FinishTells
<1>3. work' \in Work /\ work' # Idle /\ work'.op = "Finish"
  BY FinishWorkIsWork
<1>4. TypeOK'
  BY <1>1, <1>3 DEF TypeOK
<1>5. OneCallEach' /\ InstallLast' /\ PackageAsked' /\ (ListStands => ListStands')
  BY <1>2, <1>3, StillAtIt
<1>6. ListFromConfig' /\ LogTellsRun' /\ CleanUp'
  BY <1>1, <1>3, RepositoryKept DEF RepositoryStays
<1>7. GroupRuns' /\ ListSoFar'
  BY <1>3 DEF GroupRuns, ListSoFar
<1>8. Settling'
  BY <1>1, <1>5, <1>7 DEF Settling
<1> QED
  BY <1>4, <1>5, <1>6, <1>8 DEF IInv

LEMMA HandleFinishKeeps == ASSUME IInv, HandleFinish PROVE IInv'
<1>1. /\ TypeOK /\ ListFromConfig /\ LogTellsRun /\ CleanUp /\ Settling
  BY DEF IInv
<1>2. /\ Handle("Finish")
      /\ work' = [op |-> "Finish", from |-> Caller, todo |-> files]
      /\ UNCHANGED <<serviceVars, question, tasks, asked, ran, spoilt>>
  BY DEF HandleFinish
<1>3. /\ work = Idle /\ work.op = "none" /\ ~question.open
      /\ mailbox' = Tail(mailbox) /\ mailbox' \in Seq(DOMAIN tasks) /\ Caller \in Nat
  BY <1>2, HandleTells
<1>4. work' \in FinishWork /\ work'.op = "Finish" /\ work'.from = Caller
  BY <1>1, <1>2, <1>3 DEF FinishWork, TypeOK
<1>5. work' \in Work
  BY <1>4, FinishWorkIsWork
<1>6. TypeOK'
  BY <1>1, <1>2, <1>3, <1>5 DEF TypeOK, serviceVars
<1>7. OneCallEach' /\ InstallLast' /\ PackageAsked' /\ (ListStands => ListStands')
  BY <1>2, <1>4, TakesTells DEF serviceVars
<1>8. ListFromConfig' /\ LogTellsRun' /\ CleanUp'
  BY <1>1, <1>2, <1>3, <1>4, RepositoryKept DEF RepositoryStays, serviceVars
<1>9. GroupRuns' /\ ListSoFar'
  BY <1>4 DEF GroupRuns, ListSoFar
<1>10. Settling'
  BY <1>1, <1>2, <1>3, <1>7, <1>9 DEF Settling
<1> QED
  BY <1>6, <1>7, <1>8, <1>10 DEF IInv

\* A file that is written is one more in the target.
LEMMA WrittenTells ==
    ASSUME TypeOK, NEW f \in AllFiles, target' = [target EXCEPT !.files = @ \union {f}]
    PROVE  /\ target' \in [files : SUBSET AllFiles, link : BOOLEAN, service : BOOLEAN]
           /\ target'.link = target.link /\ target'.service = target.service
<1> DEFINE written == target.files \union {f}
<1>1. target \in [files : SUBSET AllFiles, link : BOOLEAN, service : BOOLEAN]
  BY DEF TypeOK
<1>2. written \in SUBSET AllFiles
  BY <1>1
<1>3. target' = [target EXCEPT !.files = written]
  OBVIOUS
<1> HIDE DEF written
<1> QED
  BY <1>1, <1>2, <1>3

LEMMA WriteFileKeeps == ASSUME IInv, WriteFile PROVE IInv'
<1>1. TypeOK
  BY DEF IInv
<1>2. /\ work.op = "Finish" /\ ~question.open
      /\ UNCHANGED <<scripts, logged, files, progress, mailbox, tasks, asked, ran, spoilt>>
  BY DEF WriteFile
<1>3. PICK f \in work.todo :
         \/ /\ target' = [target EXCEPT !.files = @ \union {f}]
            /\ work' = [work EXCEPT !.todo = @ \ {f}]
            /\ UNCHANGED question
         \/ Ask(f, 1) /\ UNCHANGED <<target, work>>
  BY DEF WriteFile
<1>4. work \in FinishWork /\ f \in AllFiles
  BY <1>2, FinishTells DEF FinishWork
<1>5. work' \in FinishWork /\ work'.from = work.from
  BY <1>3, <1>4 DEF FinishWork
<1>6. /\ target' \in [files : SUBSET AllFiles, link : BOOLEAN, service : BOOLEAN]
      /\ target'.link = target.link /\ target'.service = target.service
  BY <1>1, <1>3, <1>4, WrittenTells DEF TypeOK
<1>7. question'.open => /\ question'.attempt \in 1 .. (MaxAttempts + 1)
                        /\ question'.about \in work'.todo
  BY <1>2, <1>3, FilesAssumption DEF Ask
<1> QED
  BY <1>2, <1>5, <1>6, <1>7, WritingKeeps

LEMMA WriteAgainKeeps == ASSUME IInv, WriteAgain PROVE IInv'
<1> DEFINE f == question.about
<1>1. TypeOK
  BY DEF IInv
<1>2. /\ work.op = "Finish" /\ question.open /\ question.attempt <= MaxAttempts
      /\ UNCHANGED <<scripts, logged, files, progress, mailbox, tasks, asked, ran, spoilt>>
      /\ \/ /\ target' = [target EXCEPT !.files = @ \union {f}]
            /\ work' = [work EXCEPT !.todo = @ \ {f}]
            /\ question' = NoQuestion
         \/ Ask(f, question.attempt + 1) /\ UNCHANGED <<target, work>>
  BY DEF WriteAgain, TryAgain
<1>3. work \in FinishWork /\ f \in work.todo /\ f \in AllFiles
  BY <1>2, FinishTells DEF FinishWork
<1> HIDE DEF f
<1>4. work' \in FinishWork /\ work'.from = work.from
  BY <1>2, <1>3 DEF FinishWork
<1>5. /\ target' \in [files : SUBSET AllFiles, link : BOOLEAN, service : BOOLEAN]
      /\ target'.link = target.link /\ target'.service = target.service
  BY <1>1, <1>2, <1>3, WrittenTells DEF TypeOK
<1>6. question.attempt + 1 \in 1 .. (MaxAttempts + 1)
  BY <1>1, <1>2, FilesAssumption DEF TypeOK
<1>7. question'.open => /\ question'.attempt \in 1 .. (MaxAttempts + 1)
                        /\ question'.about \in work'.todo
  BY <1>2, <1>3, <1>6 DEF Ask, NoQuestion
<1> QED
  BY <1>2, <1>4, <1>5, <1>7, WritingKeeps

LEMMA SkipFileKeeps == ASSUME IInv, SkipFile PROVE IInv'
<1>1. TypeOK
  BY DEF IInv
<1>2. /\ work.op = "Finish" /\ work' = [work EXCEPT !.todo = @ \ {question.about}]
      /\ question' = NoQuestion
      /\ UNCHANGED <<serviceVars, mailbox, tasks, asked, ran, spoilt>>
  BY DEF SkipFile
<1>3. work \in FinishWork
  BY <1>2, FinishTells
<1>4. work' \in FinishWork /\ work'.from = work.from
  BY <1>2, <1>3 DEF FinishWork
<1>5. ~question'.open
  BY <1>2 DEF NoQuestion
<1>6. target' \in [files : SUBSET AllFiles, link : BOOLEAN, service : BOOLEAN]
  BY <1>1, <1>2 DEF TypeOK, serviceVars
<1> QED
  BY <1>2, <1>4, <1>5, <1>6, WritingKeeps DEF serviceVars

\* The call of the installation ends, and the list stays.
LEMMA InstallMovesKeeps ==
    ASSUME IInv, work.op = "Finish", work' = Idle, question' = NoQuestion,
           Answer(work.from) \/ Drop(work.from),
           target' \in [files : SUBSET AllFiles, link : BOOLEAN, service : BOOLEAN],
           target'.link = target.link,
           UNCHANGED <<scripts, logged, files, progress, mailbox, asked, ran, spoilt>>
    PROVE  /\ TypeOK' /\ OneCallEach' /\ InstallLast' /\ ListFromConfig' /\ LogTellsRun'
           /\ CleanUp' /\ Settling' /\ (OnlyConfigs' <=> OnlyConfigs)
           /\ \A u \in DOMAIN tasks : Began(u) /\ ~Ended(u) => BeganNext(u) /\ ~EndedNext(u)
<1>1. /\ TypeOK /\ OneCallEach /\ InstallLast /\ ListFromConfig /\ LogTellsRun /\ CleanUp
      /\ Settling
  BY DEF IInv
<1>2. /\ work # Idle /\ work.from \in DOMAIN tasks /\ ~Ended(work.from)
      /\ tasks[work.from].kind # "config"
  BY FinishTells
<1>3. OneCallEach' /\ InstallLast' /\ OnlyMoves(work.from) /\ (OnlyConfigs' <=> OnlyConfigs)
  BY <1>1, <1>2, WorkEnds
<1>4. TypeOK'
  BY <1>1, <1>3 DEF TypeOK, NoQuestion, OnlyMoves, Work
<1>5. Idle.op = "none"
  BY DEF Idle
<1>6. ListFromConfig' /\ LogTellsRun' /\ CleanUp'
  BY <1>1, <1>5, RepositoryKept DEF RepositoryStays
<1>7. \A u \in DOMAIN tasks : Began(u) /\ ~Ended(u) => BeganNext(u) /\ ~EndedNext(u)
  BY <1>2, <1>3, BeganKept
<1>8. Settling'
  <2>1. /\ \A u \in DOMAIN tasks' : WroteNext(u) => \E v \in DOMAIN tasks : Wrote(v)
        /\ \A u \in DOMAIN tasks : ToRun(u) => ToRunNext(u)
    BY <1>2, <1>3, WroteKept
  <2>2. ListStands => ListStands'
    BY <2>1, StandsKept
  <2>3. ListSoFar' /\ GroupRuns'
    BY <1>5 DEF ListSoFar, GroupRuns
  <2> QED
    BY <1>1, <2>2, <2>3 DEF Settling
<1> QED
  BY <1>3, <1>4, <1>6, <1>7, <1>8

LEMMA FinishAbortedKeeps == ASSUME IInv, FinishAborted PROVE IInv'
<1>1. TypeOK /\ PackageAsked
  BY DEF IInv
<1>2. /\ work.op = "Finish" /\ work' = Idle /\ question' = NoQuestion /\ Drop(work.from)
      /\ UNCHANGED <<serviceVars, mailbox, asked, ran, spoilt>>
  BY DEF FinishAborted, ReturnError
<1>3. target' \in [files : SUBSET AllFiles, link : BOOLEAN, service : BOOLEAN]
  BY <1>1, <1>2 DEF TypeOK, serviceVars
<1>4. /\ TypeOK' /\ OneCallEach' /\ InstallLast' /\ ListFromConfig' /\ LogTellsRun'
      /\ CleanUp' /\ Settling' /\ (OnlyConfigs' <=> OnlyConfigs)
      /\ \A u \in DOMAIN tasks : Began(u) /\ ~Ended(u) => BeganNext(u) /\ ~EndedNext(u)
  BY <1>2, <1>3, InstallMovesKeeps DEF serviceVars
<1>5. PackageAsked'
  BY <1>1, <1>2, <1>4, AskedKept DEF serviceVars
<1> QED
  BY <1>4, <1>5 DEF IInv

\* Unless it is early, no configuration is on its way during the installation.
LEMMA InstallAfterAll ==
    ASSUME IInv, ~OnlyConfigs, "early" \notin spoilt
    PROVE  \A t \in DOMAIN tasks : ~(Began(t) /\ ~Ended(t))
BY DEF IInv, InstallLast, Began

LEMMA EnableServiceKeeps == ASSUME IInv, EnableService PROVE IInv'
<1>1. TypeOK /\ PackageAsked
  BY DEF IInv
<1>2. /\ work.op = "Finish" /\ work' = Idle /\ question' = NoQuestion /\ Answer(work.from)
      /\ target' = [target EXCEPT !.service = ByGroup("init") # {}]
      /\ UNCHANGED <<scripts, logged, files, progress, mailbox, asked, ran, spoilt>>
  BY DEF EnableService, Return
<1>3. /\ target' \in [files : SUBSET AllFiles, link : BOOLEAN, service : BOOLEAN]
      /\ target'.link = target.link
      /\ target'.service = (ByGroup("init") # {})
  BY <1>1, <1>2 DEF TypeOK
<1>4. /\ TypeOK' /\ OneCallEach' /\ InstallLast' /\ ListFromConfig' /\ LogTellsRun'
      /\ CleanUp' /\ Settling' /\ (OnlyConfigs' <=> OnlyConfigs)
      /\ \A u \in DOMAIN tasks : Began(u) /\ ~Ended(u) => BeganNext(u) /\ ~EndedNext(u)
  BY <1>2, <1>3, InstallMovesKeeps
<1>5. ~OnlyConfigs
  BY <1>2, FinishTells DEF OnlyConfigs
<1>6. PackageAsked'
  <2>1. spoilt \intersect {"early", "deleted"} = {} => (asked <=> ByGroup("init") # {})
    BY <1>1, <1>5, InstallAfterAll DEF PackageAsked
  <2>2. (target'.service /\ spoilt' \intersect {"early", "deleted"} = {}) =>
            asked' /\ ~OnlyConfigs'
    BY <1>2, <1>3, <1>4, <1>5, <2>1
  <2>3. "deleted" \notin spoilt' =>
          \/ asked' <=> ByGroup("init")' # {}
          \/ \E u \in DOMAIN tasks' : BeganNext(u) /\ ~EndedNext(u)
    BY <1>1, <1>2, <1>4 DEF PackageAsked, ByGroup, BeganNext
  <2> QED
    BY <2>2, <2>3 DEF PackageAsked, Began, Ended, BeganNext, EndedNext
<1> QED
  BY <1>4, <1>6 DEF IInv

LEMMA HandleGetResolvablesKeeps == ASSUME IInv, HandleGetResolvables PROVE IInv'
<1>1. /\ TypeOK /\ OneCallEach /\ InstallLast /\ ListFromConfig /\ LogTellsRun /\ CleanUp
      /\ PackageAsked /\ Settling
  BY DEF IInv
<1>2. /\ Handle("GetResolvables") /\ asked' = (ByGroup("init") # {}) /\ Answer(Caller)
      /\ UNCHANGED <<serviceVars, work, question, ran, spoilt>>
  BY DEF HandleGetResolvables, HasInitScripts
<1>3. /\ work = Idle /\ work.op = "none" /\ ~question.open /\ mailbox # <<>>
      /\ mailbox' = Tail(mailbox) /\ mailbox' \in Seq(DOMAIN tasks)
      /\ Caller \in DOMAIN tasks /\ ~Ended(Caller) /\ CallOf(Caller).op = "GetResolvables"
  BY <1>2, HandleTells
<1>4. OneCallEach' /\ InstallLast' /\ (OnlyConfigs' <=> OnlyConfigs) /\ OnlyMoves(Caller)
  BY <1>1, <1>2, <1>3, CallEnds
<1>5. tasks[Caller].kind = "config" /\ tasks[Caller].step = 3
  BY <1>1, <1>3, OpTells
<1>6. TypeOK'
  BY <1>1, <1>2, <1>3, <1>4 DEF TypeOK, OnlyMoves, serviceVars
<1>7. ListFromConfig' /\ LogTellsRun' /\ CleanUp'
  BY <1>1, <1>2, RepositoryKept DEF RepositoryStays, serviceVars
<1>8. PackageAsked'
  <2>1. asked' <=> ByGroup("init")' # {}
    BY <1>2 DEF ByGroup, serviceVars
  <2>2. Began(Caller)
    BY <1>3, <1>5 DEF Began
  <2>3. ~OnlyConfigs => "early" \in spoilt
    BY <1>3, <2>2, InstallAfterAll
  <2>4. ~(target.service /\ spoilt \intersect {"early", "deleted"} = {})
    BY <1>1, <2>3 DEF PackageAsked
  <2> QED
    BY <1>2, <2>1, <2>4 DEF PackageAsked, serviceVars
<1>9. Settling'
  <2>1. /\ \A u \in DOMAIN tasks' : WroteNext(u) => \E v \in DOMAIN tasks : Wrote(v)
        /\ \A u \in DOMAIN tasks : ToRun(u) => ToRunNext(u)
    BY <1>3, <1>4, <1>5, WroteKept
  <2>2. ListStands => ListStands'
    BY <1>2, <1>3, <2>1, StandsKept DEF serviceVars
  <2>3. ListSoFar' /\ GroupRuns'
    BY <1>2, <1>3 DEF ListSoFar, GroupRuns
  <2> QED
    BY <1>1, <1>2, <2>2, <2>3 DEF Settling
<1> QED
  BY <1>4, <1>6, <1>7, <1>8, <1>9 DEF IInv

-----------------------------------------------------------------------------
(* Every step keeps the invariant.                                         *)

LEMMA InitIInv == Init => IInv
<1> SUFFICES ASSUME Init PROVE IInv
  OBVIOUS
<1>1. /\ scripts = <<>> /\ logged = {} /\ files = {} /\ progress = NoProgress
      /\ target = [files |-> {}, link |-> FALSE, service |-> FALSE]
      /\ mailbox = <<>> /\ work = Idle /\ work.op = "none" /\ ~question.open
      /\ tasks = <<>> /\ asked = FALSE /\ spoilt = {}
      /\ ran = [p \in AllPaths |-> 0]
  BY DEF Init, Idle, NoQuestion
<1>2. TypeOK
  <2>1. scripts \in Seq(AllScripts) /\ tasks \in Seq(TaskType) /\ mailbox \in Seq(DOMAIN tasks)
    BY <1>1
  <2>2. Len(tasks) <= MaxConfigs + 1
    BY <1>1, FilesAssumption
  <2>3. target \in [files : SUBSET AllFiles, link : BOOLEAN, service : BOOLEAN]
    BY <1>1
  <2>4. ran \in [AllPaths -> Nat] /\ work \in Work
    BY <1>1 DEF Work
  <2> QED
    BY <1>1, <2>1, <2>2, <2>3, <2>4 DEF TypeOK
<1>3. OneCallEach
  BY <1>1 DEF OneCallEach
<1>4. InstallLast
  BY <1>1, FilesAssumption DEF InstallLast, OnlyConfigs
<1>5. ListFromConfig
  BY <1>1 DEF ListFromConfig
<1>6. LogTellsRun
  BY <1>1 DEF LogTellsRun
<1>7. CleanUp
  BY <1>1 DEF CleanUp
<1>8. PackageAsked
  BY <1>1 DEF PackageAsked, ByGroup
<1>9. Settling
  BY <1>1 DEF Settling, ListSoFar, GroupRuns, ListStands, ByGroup
<1> QED
  BY <1>2, <1>3, <1>4, <1>5, <1>6, <1>7, <1>8, <1>9 DEF IInv

LEMMA StutterKeeps == ASSUME IInv, UNCHANGED vars PROVE IInv'
<1> USE DEF vars, serviceVars
<1>1. TypeOK'
  BY DEF IInv, TypeOK
<1>2. OneCallEach' /\ InstallLast'
  BY DEF IInv, OneCallEach, InstallLast, Waiting, Ended, CallOf, OnlyConfigs
<1>3. ListFromConfig' /\ LogTellsRun' /\ CleanUp'
  BY RepositoryKept DEF IInv, RepositoryStays
<1>4. PackageAsked'
  BY DEF IInv, PackageAsked, Began, Ended, OnlyConfigs, ByGroup
<1>5. ListSoFar' <=> ListSoFar
  BY DEF ListSoFar, ToAdd
<1>6. GroupRuns' <=> GroupRuns
  BY DEF GroupRuns, CallOf, ByGroup, Path
<1>7. ListStands' <=> ListStands
  BY DEF ListStands, Wrote, ToRun, ByGroup, Path
<1>8. Settling'
  BY <1>5, <1>6, <1>7 DEF IInv, Settling
<1> QED
  BY <1>1, <1>2, <1>3, <1>4, <1>8 DEF IInv

LEMMA StepKeepsIInv == IInv /\ [Next]_vars => IInv'
<1> SUFFICES ASSUME IInv, [Next]_vars PROVE IInv'
  OBVIOUS
<1>1. CASE Service
  BY <1>1, HandleSetConfigKeeps, AddScriptKeeps, SetFilesKeeps, HandleRunScriptsKeeps,
     LinkFailsKeeps, HandleNoScriptsKeeps, NextScriptKeeps, RunCommandKeeps, EndScriptsKeeps,
     HandleFinishKeeps, WriteFileKeeps, EnableServiceKeeps, HandleGetResolvablesKeeps
     DEF Service
<1>2. CASE User
  BY <1>2, AskToAddAgainKeeps, SkipScriptKeeps, SetConfigAbortedKeeps, RunAgainKeeps,
     GiveUpScriptKeeps, RunAbortedKeeps, WriteAgainKeeps, SkipFileKeeps, FinishAbortedKeeps
     DEF User
<1>3. CASE Calls
  BY <1>3, SendCallKeeps DEF Calls
<1>4. CASE Clients
  BY <1>4, WriteConfigKeeps, InstallKeeps DEF Clients
<1>5. CASE UNCHANGED vars
  BY <1>5, StutterKeeps
<1> QED
  BY <1>1, <1>2, <1>3, <1>4, <1>5 DEF Next

LEMMA IInvAlways == Spec => []IInv
<1>1. Init => IInv
  BY InitIInv
<1>2. IInv /\ [Next]_vars => IInv'
  BY StepKeepsIInv
<1> QED
  BY <1>1, <1>2, PTL DEF Spec

-----------------------------------------------------------------------------
(* What follows from it.                                                   *)

\* The variables of the files service and of the tasks keep their types: what
\* the service is in the middle of, the place of every task in its calls, and
\* a progress that does not pass its last step.
THEOREM FilesTypeCorrect == Spec => []TypeOK
<1>1. IInv => TypeOK
  BY DEF IInv
<1> QED
  BY <1>1, IInvAlways, PTL

\* When no two scripts of a configuration have the same group and name, a
\* script runs for one call only, whatever tasks ask for its group and
\* whatever is tried again (find_scripts_to_run looks for its log).
THEOREM RanOnceAlways == ASSUME DistinctPaths PROVE Spec => []RanOnce
<1>1. IInv => RanOnce
  BY DEF IInv, LogTellsRun, RanOnce
<1> QED
  BY <1>1, IInvAlways, PTL

\* Between two calls the target has a link to resolv.conf only if a question
\* was deleted or the link could not be removed, and a progress is open only if
\* a question was deleted or the link could not be made (ScriptsRunner::run).
THEOREM TidyAlways == Spec => []Tidy
<1>1. IInv => Tidy
  BY DEF IInv, CleanUp, Tidy, Idle
<1> QED
  BY <1>1, IInvAlways, PTL

\* When all tasks ended and nothing failed, the scripts and the files are
\* those of one configuration and its first scripts have run, in whatever
\* order the calls of the configurations came (clear_scripts, add_scripts).
THEOREM ScriptsSettleAlways == Spec => []ScriptsSettle
<1>1. IInv => ScriptsSettle
  <2> SUFFICES ASSUME IInv, Quiet, tasks # <<>>, spoilt \subseteq {"early", "unlink"}
               PROVE  /\ \E c \in Configs : scripts = c.scripts /\ files = c.files
                      /\ \A i \in ByGroup("pre") : Path(scripts[i]) \in logged
    BY DEF ScriptsSettle
  <2>1. TypeOK /\ InstallLast /\ Settling
    BY DEF IInv
  <2>2. ListStands /\ work.op # "SetConfig"
    BY <2>1 DEF Settling, Quiet, Idle
  <2>3. \A t \in DOMAIN tasks : tasks[t].step > 3 /\ tasks[t].step # 2
    BY <2>1 DEF Quiet, Ended, TypeOK, TaskType
  <2>4. 1 \in DOMAIN tasks /\ tasks[1].kind = "config" /\ tasks[1].step > 1
    <3>1. 1 \in DOMAIN tasks /\ tasks[1].kind = "config"
      BY <2>1 DEF TypeOK, InstallLast
    <3>2. tasks[1] \in TaskType /\ tasks[1].step > 3
      BY <2>1, <2>3, <3>1 DEF TypeOK
    <3> QED
      BY <3>1, <3>2 DEF TaskType
  <2> QED
    BY <2>2, <2>3, <2>4 DEF ListStands, Wrote, ToRun
<1> QED
  BY <1>1, IInvAlways, PTL

\* The service of the first boot is enabled only when its package was asked
\* for, unless the installation was early or a question was deleted (Finish,
\* GetResolvables).
THEOREM ServiceHasPackageAlways == Spec => []ServiceHasPackage
<1>1. IInv => ServiceHasPackage
  BY DEF IInv, PackageAsked, ServiceHasPackage
<1> QED
  BY <1>1, IInvAlways, PTL

=============================================================================
