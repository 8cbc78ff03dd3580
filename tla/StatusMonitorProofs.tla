-------------------------- MODULE StatusMonitorProofs --------------------------
(***************************************************************************)
(* Proofs about the progress service and about the client that follows the *)
(* status, for any set of scopes, any tasks and any number of steps and    *)
(* messages.                                                               *)
(*                                                                         *)
(* The functions that look for a progress return the first one of the      *)
(* scope; what they find is the only one because scopes are unique, and    *)
(* scopes stay unique because of what they find.                           *)
(*                                                                         *)
(* For the client no event has to be followed through: of the events that  *)
(* it has not read only the last one about each thing matters, and that    *)
(* one says what there is.                                                 *)
(***************************************************************************)
EXTENDS StatusMonitor, SequenceTheorems, FiniteSetTheorems, TLAPS

-----------------------------------------------------------------------------
(* The list of progresses.                                                 *)

\* The list holds at most one progress per scope, at a step that exists.
ListOK == progresses \in Seq(ProgressType) /\ UniqueScopes /\ StepInRange

\* The progresses of a scope: one at most.
OfScope(s) == {p \in ToSet(progresses) : p.scope = s}

IInv == TypeOK /\ ListOK

\* With unique scopes, the first progress of a scope is the progress of it.
LEMMA PositionIsThere ==
    ASSUME ListOK, NEW scope \in Scopes, HasProgress(progresses, scope)
    PROVE  /\ PositionOf(progresses, scope) \in 1 .. Len(progresses)
           /\ progresses[PositionOf(progresses, scope)].scope = scope
           /\ \A i \in DOMAIN progresses :
                 progresses[i].scope = scope => i = PositionOf(progresses, scope)
<1> DEFINE First(i) == /\ progresses[i].scope = scope
                       /\ \A j \in 1 .. (i - 1) : progresses[j].scope # scope
<1>1. DOMAIN progresses = 1 .. Len(progresses) /\ Len(progresses) \in Nat
  BY DEF ListOK
<1>2. PICK i \in DOMAIN progresses : progresses[i].scope = scope
  BY DEF HasProgress
<1>3. ASSUME NEW j \in 1 .. (i - 1)
      PROVE  progresses[j].scope # scope
  <2>1. j \in DOMAIN progresses /\ j # i
    BY <1>1, <1>2
  <2>2. QED
    BY <2>1, <1>2 DEF ListOK, UniqueScopes
<1>4. First(i)
  BY <1>2, <1>3
<1>5. PositionOf(progresses, scope) = CHOOSE k \in DOMAIN progresses : First(k)
  BY DEF PositionOf
<1>6. PositionOf(progresses, scope) \in DOMAIN progresses
      /\ First(PositionOf(progresses, scope))
  BY <1>2, <1>4, <1>5
<1>7. QED
  BY <1>1, <1>6 DEF ListOK, UniqueScopes

\* A progress is of a scope when some position of the list holds it.
LEMMA InOfScope ==
    /\ \A s, p : p \in OfScope(s) <=>
          \E i \in DOMAIN progresses : progresses[i] = p /\ p.scope = s
    /\ \A s, p : p \in OfScope(s)' <=>
          \E i \in DOMAIN progresses' : progresses'[i] = p /\ p.scope = s
BY DEF OfScope, ToSet

\* Adding a progress whose scope is new keeps the list in order.
LEMMA AddedKeeps ==
    ASSUME ListOK, NEW p \in ProgressType, ~HasProgress(progresses, p.scope),
           1 <= p.index, p.index <= p.size \/ (p.size = 0 /\ p.index = 1),
           progresses' = Added(progresses, p)
    PROVE  ListOK' /\ \A s : OfScope(s)' = IF s = p.scope THEN {p} ELSE OfScope(s)
<1>1. /\ progresses' \in Seq(ProgressType)
      /\ Len(progresses') = Len(progresses) + 1
      /\ Len(progresses) \in Nat
      /\ DOMAIN progresses = 1 .. Len(progresses)
      /\ DOMAIN progresses' = 1 .. (Len(progresses) + 1)
      /\ \A i \in DOMAIN progresses : progresses'[i] = progresses[i]
      /\ progresses'[Len(progresses) + 1] = p
  BY DEF ListOK, Added
<1>2. \A i \in DOMAIN progresses : progresses[i].scope # p.scope
  BY DEF HasProgress
<1>3. \A i \in DOMAIN progresses' : i \in DOMAIN progresses \/ i = Len(progresses) + 1
  BY <1>1
<1>4. UniqueScopes'
  BY <1>1, <1>2, <1>3 DEF ListOK, UniqueScopes
<1>5. StepInRange'
  BY <1>1, <1>3 DEF ListOK, StepInRange
<1>6. ASSUME NEW s
      PROVE  OfScope(s)' = IF s = p.scope THEN {p} ELSE OfScope(s)
  <2>1. \A q : q \in OfScope(s)' <=> (q \in OfScope(s) \/ (q = p /\ p.scope = s))
    BY <1>1, <1>3, InOfScope
  <2>2. s = p.scope => OfScope(s) = {}
    BY <1>2, InOfScope
  <2>3. QED
    BY <2>1, <2>2
<1>7. QED
  BY <1>1, <1>4, <1>5, <1>6 DEF ListOK

\* So does replacing the progress of a scope by another of that scope.
LEMMA ReplacedKeeps ==
    ASSUME ListOK, NEW p \in ProgressType, HasProgress(progresses, p.scope),
           1 <= p.index, p.index <= p.size \/ (p.size = 0 /\ p.index = 1),
           progresses' = Replaced(progresses, p)
    PROVE  ListOK' /\ \A s : OfScope(s)' = IF s = p.scope THEN {p} ELSE OfScope(s)
<1> DEFINE k == PositionOf(progresses, p.scope)
<1>0. p.scope \in Scopes
  BY DEF ProgressType
<1>1. k \in 1 .. Len(progresses) /\ progresses[k].scope = p.scope
  BY <1>0, PositionIsThere DEF ListOK
<1>2. progresses' = [progresses EXCEPT ![k] = p]
  BY DEF Replaced
<1> HIDE DEF k
<1>3. /\ progresses' \in Seq(ProgressType)
      /\ DOMAIN progresses' = DOMAIN progresses
      /\ DOMAIN progresses = 1 .. Len(progresses)
      /\ \A i \in DOMAIN progresses : i # k => progresses'[i] = progresses[i]
      /\ progresses'[k] = p
  BY <1>1, <1>2 DEF ListOK
<1>4. \A i \in DOMAIN progresses : progresses'[i].scope = progresses[i].scope
  BY <1>1, <1>3
<1>5. UniqueScopes'
  BY <1>3, <1>4 DEF ListOK, UniqueScopes
<1>6. StepInRange'
  BY <1>3 DEF ListOK, StepInRange
<1>7. ASSUME NEW s
      PROVE  OfScope(s)' = IF s = p.scope THEN {p} ELSE OfScope(s)
  <2>1. \A i \in DOMAIN progresses : progresses[i].scope = p.scope => i = k
    BY <1>1, <1>3 DEF ListOK, UniqueScopes
  <2>2. CASE s = p.scope
    <3>1. \A i \in DOMAIN progresses' : progresses'[i].scope = s => progresses'[i] = p
      BY <2>1, <2>2, <1>3, <1>4
    <3>2. \A q : q \in OfScope(s)' <=> q = p
      BY <3>1, <2>2, <1>1, <1>3, InOfScope
    <3>3. QED
      BY <3>2, <2>2
  <2>3. CASE s # p.scope
    <3>1. \A q : q \in OfScope(s)' <=> q \in OfScope(s)
      BY <2>3, <1>1, <1>3, <1>4, InOfScope
    <3>2. QED
      BY <3>1, <2>3
  <2>4. QED
    BY <2>2, <2>3
<1>8. QED
  BY <1>3, <1>5, <1>6, <1>7 DEF ListOK

\* And so does removing the progress of a scope.
LEMMA RemovedKeeps ==
    ASSUME ListOK, NEW scope \in Scopes, HasProgress(progresses, scope),
           progresses' = Removed(progresses, scope)
    PROVE  ListOK' /\ \A s : OfScope(s)' = IF s = scope THEN {} ELSE OfScope(s)
<1> DEFINE k == PositionOf(progresses, scope)
           Old(i) == IF i < k THEN i ELSE i + 1
<1>1. k \in 1 .. Len(progresses)
  BY PositionIsThere DEF ListOK
<1>2. progresses' = SubSeq(progresses, 1, k - 1) \o SubSeq(progresses, k + 1, Len(progresses))
  BY DEF Removed, RemoveAt
<1> HIDE DEF k
<1>3. progresses \in Seq(ProgressType) /\ Len(progresses) \in Nat
      /\ DOMAIN progresses = 1 .. Len(progresses)
  BY DEF ListOK
<1> DEFINE front == SubSeq(progresses, 1, k - 1)
           back == SubSeq(progresses, k + 1, Len(progresses))
<1>4. /\ front \in Seq(ProgressType) /\ Len(front) = k - 1
      /\ \A i \in 1 .. (k - 1) : front[i] = progresses[i]
      /\ back \in Seq(ProgressType) /\ Len(back) = Len(progresses) - k
      /\ \A i \in 1 .. (Len(progresses) - k) : back[i] = progresses[k + i]
  <2>1. \A i \in 1 .. Len(progresses) : progresses[i] \in ProgressType
    BY <1>3
  <2>2. /\ k \in Int /\ k - 1 \in Int /\ k + 1 \in Int /\ 1 \in Int
        /\ 1 <= k /\ k <= Len(progresses)
    BY <1>1, <1>3
  <2>3. /\ front \in Seq(ProgressType) /\ Len(front) = IF 1 <= k - 1 THEN k - 1 - 1 + 1 ELSE 0
        /\ \A i \in 1 .. (k - 1 - 1 + 1) : front[i] = progresses[1 + i - 1]
    BY <2>1, <2>2, <1>3, SubSeqProperties
  <2>4. /\ back \in Seq(ProgressType)
        /\ Len(back) = IF k + 1 <= Len(progresses) THEN Len(progresses) - (k + 1) + 1 ELSE 0
        /\ \A i \in 1 .. (Len(progresses) - (k + 1) + 1) : back[i] = progresses[k + 1 + i - 1]
    BY <2>1, <2>2, <1>3, SubSeqProperties
  <2> HIDE DEF front, back
  <2>5. ASSUME NEW i \in 1 .. (k - 1)
        PROVE  front[i] = progresses[i]
    <3>1. i \in 1 .. (k - 1 - 1 + 1) /\ 1 + i - 1 = i
      BY <2>2
    <3>2. QED
      BY <3>1, <2>3
  <2>6. ASSUME NEW i \in 1 .. (Len(progresses) - k)
        PROVE  back[i] = progresses[k + i]
    <3>1. i \in 1 .. (Len(progresses) - (k + 1) + 1) /\ k + 1 + i - 1 = k + i
      BY <2>2, <1>3
    <3>2. QED
      BY <3>1, <2>4
  <2>7. Len(front) = k - 1 /\ Len(back) = Len(progresses) - k
    <3>1. Len(front) = IF 1 <= k - 1 THEN k - 1 - 1 + 1 ELSE 0
      BY <2>3
    <3>2. Len(back) = IF k + 1 <= Len(progresses) THEN Len(progresses) - (k + 1) + 1 ELSE 0
      BY <2>4
    <3>3. Len(progresses) \in Nat
      BY <1>3
    <3>4. Len(front) = k - 1
      BY <3>1, <2>2
    <3>5. Len(back) = Len(progresses) - k
      BY <3>2, <3>3, <2>2
    <3>6. QED
      BY <3>4, <3>5
  <2>8. QED
    BY <2>3, <2>4, <2>5, <2>6, <2>7
<1>5. progresses' = front \o back
  BY <1>2
<1> HIDE DEF front, back
<1>6. /\ progresses' \in Seq(ProgressType)
      /\ DOMAIN progresses' = 1 .. (Len(progresses) - 1)
      /\ \A i \in DOMAIN progresses' :
            Old(i) \in DOMAIN progresses /\ progresses'[i] = progresses[Old(i)]
  <2>1. /\ front \o back \in Seq(ProgressType)
        /\ Len(front \o back) = Len(front) + Len(back)
        /\ \A i \in 1 .. (Len(front) + Len(back)) :
              (front \o back)[i] = IF i <= Len(front) THEN front[i] ELSE back[i - Len(front)]
    BY <1>4, ConcatProperties
  <2>2. progresses' \in Seq(ProgressType) /\ DOMAIN progresses' = 1 .. (Len(progresses) - 1)
    <3>1. Len(front) + Len(back) = Len(progresses) - 1
      BY <1>1, <1>3, <1>4
    <3>2. QED
      BY <3>1, <2>1, <1>5
  <2>3. ASSUME NEW i \in DOMAIN progresses'
        PROVE  Old(i) \in DOMAIN progresses /\ progresses'[i] = progresses[Old(i)]
    <3>0. i \in 1 .. (Len(front) + Len(back)) /\ Len(front) = k - 1
      BY <2>2, <1>1, <1>3, <1>4
    <3>1. progresses'[i] = IF i <= k - 1 THEN front[i] ELSE back[i - (k - 1)]
      BY <3>0, <2>1, <1>5
    <3>2. CASE i < k
      BY <3>1, <3>2, <2>2, <1>1, <1>3, <1>4
    <3>3. CASE i >= k
      <4>1. i - (k - 1) \in 1 .. (Len(progresses) - k) /\ k + (i - (k - 1)) = i + 1
        BY <3>3, <2>2, <1>1, <1>3
      <4>2. progresses'[i] = progresses[i + 1]
        <5>1. progresses'[i] = back[i - (k - 1)]
          BY <3>1, <3>3, <2>2, <1>1, <1>3
        <5>2. back[i - (k - 1)] = progresses[k + (i - (k - 1))]
          BY <4>1, <1>4
        <5>3. QED
          BY <5>1, <5>2, <4>1
      <4>3. QED
        BY <3>3, <4>2, <2>2, <1>1, <1>3
    <3>4. QED
      BY <3>2, <3>3, <2>2, <1>1, <1>3
  <2>4. QED
    BY <2>2, <2>3
<1>7. \A i, j \in DOMAIN progresses' : Old(i) = Old(j) => i = j
  BY <1>1, <1>3, <1>6
<1> HIDE DEF Old
<1>8. UniqueScopes'
  <2> SUFFICES ASSUME NEW i \in DOMAIN progresses', NEW j \in DOMAIN progresses',
                      progresses'[i].scope = progresses'[j].scope
               PROVE  i = j
    BY DEF UniqueScopes
  <2>1. Old(i) = Old(j)
    BY <1>6 DEF ListOK, UniqueScopes
  <2>2. QED
    BY <1>7, <2>1
<1>9. StepInRange'
  <2> SUFFICES ASSUME NEW i \in DOMAIN progresses'
               PROVE  LET p == progresses'[i]
                      IN 1 <= p.index /\ (p.index <= p.size \/ (p.size = 0 /\ p.index = 1))
    BY DEF StepInRange
  <2>1. Old(i) \in DOMAIN progresses /\ progresses'[i] = progresses[Old(i)]
    BY <1>6
  <2>2. QED
    BY <2>1 DEF ListOK, StepInRange
<1>10. \A i \in DOMAIN progresses : i # k => \E j \in DOMAIN progresses' : Old(j) = i
  <2> SUFFICES ASSUME NEW i \in DOMAIN progresses, i # k
               PROVE  \E j \in DOMAIN progresses' : Old(j) = i
    OBVIOUS
  <2>1. CASE i < k
    BY <2>1, <1>1, <1>3, <1>6 DEF Old
  <2>2. CASE i > k
    <3>1. i - 1 \in DOMAIN progresses' /\ Old(i - 1) = i
      BY <2>2, <1>1, <1>3, <1>6 DEF Old
    <3>2. QED
      BY <3>1
  <2>3. QED
    BY <2>1, <2>2, <1>1, <1>3
<1>11. \A j \in DOMAIN progresses' : Old(j) # k
  BY <1>1, <1>3, <1>6 DEF Old
<1>12. progresses[k].scope = scope /\ \A i \in DOMAIN progresses : progresses[i].scope = scope => i = k
  BY PositionIsThere DEF k
<1>13. ASSUME NEW s
       PROVE  OfScope(s)' = IF s = scope THEN {} ELSE OfScope(s)
  <2>1. CASE s = scope
    <3>1. \A q : q \notin OfScope(s)'
      BY <2>1, <1>6, <1>11, <1>12, InOfScope
    <3>2. QED
      BY <3>1, <2>1
  <2>2. CASE s # scope
    <3>1. \A q : q \in OfScope(s)' => q \in OfScope(s)
      BY <1>6, InOfScope
    <3>2. \A q : q \in OfScope(s) => q \in OfScope(s)'
      BY <2>2, <1>6, <1>10, <1>12, InOfScope
    <3>3. QED
      BY <3>1, <3>2, <2>2
  <2>3. QED
    BY <2>1, <2>2
<1>14. QED
  BY <1>6, <1>8, <1>9, <1>13 DEF ListOK

-----------------------------------------------------------------------------
\* A progress that is there has the type, and its next step exists when it
\* can advance.
LEMMA ProgressThere ==
    ASSUME ListOK, NEW scope \in Scopes, HasProgress(progresses, scope)
    PROVE  LET p == ProgressOf(progresses, scope)
           IN  /\ p \in ProgressType /\ p.scope = scope /\ 1 <= p.index
               /\ Advanced(p) \in ProgressType /\ Advanced(p).scope = scope
               /\ CanAdvance(p) => 1 <= Advanced(p).index /\ Advanced(p).index <= Advanced(p).size
<1> DEFINE k == PositionOf(progresses, scope)
<1>1. k \in 1 .. Len(progresses) /\ progresses[k].scope = scope
  BY PositionIsThere DEF ListOK
<1>2. ProgressOf(progresses, scope) = progresses[k]
  BY DEF ProgressOf
<1> HIDE DEF k
<1>3. progresses[k] \in ProgressType /\ k \in DOMAIN progresses
  BY <1>1 DEF ListOK
<1>4. 1 <= progresses[k].index
  BY <1>3 DEF ListOK, StepInRange
<1>5. QED
  BY <1>1, <1>2, <1>3, <1>4 DEF Advanced, CanAdvance, ProgressType

\* The messages of who reports leave one progress of the scope, the one they announce.
LEMMA Announced ==
    ASSUME ListOK, NEW scope \in Scopes,
           (\E size \in 0 .. MaxSize : Start(scope, size)) \/ Advance(scope)
    PROVE  \E p \in ProgressType :
              /\ p.scope = scope /\ ListOK'
              /\ \A s : OfScope(s)' = IF s = scope THEN {p} ELSE OfScope(s)
              /\ Send(ProgressChanged(p)) /\ UNCHANGED stage
<1>1. ASSUME NEW size \in 0 .. MaxSize, Start(scope, size)
      PROVE  \E p \in ProgressType :
                /\ p.scope = scope /\ ListOK'
                /\ \A s : OfScope(s)' = IF s = scope THEN {p} ELSE OfScope(s)
                /\ Send(ProgressChanged(p)) /\ UNCHANGED stage
  <2> DEFINE p == NewProgress(scope, size)
  <2>1. /\ p \in ProgressType /\ p.scope = scope /\ 1 <= p.index
        /\ p.index <= p.size \/ (p.size = 0 /\ p.index = 1)
    BY BoundsAssumption DEF NewProgress, ProgressType
  <2>2. /\ ~HasProgress(progresses, scope) /\ progresses' = Added(progresses, p)
        /\ Send(ProgressChanged(p)) /\ UNCHANGED stage
    BY <1>1 DEF Start
  <2> HIDE DEF p
  <2>3. ListOK' /\ \A s : OfScope(s)' = IF s = p.scope THEN {p} ELSE OfScope(s)
    BY <2>1, <2>2, AddedKeeps
  <2>4. QED
    BY <2>1, <2>2, <2>3
<1>2. ASSUME Advance(scope)
      PROVE  \E p \in ProgressType :
                /\ p.scope = scope /\ ListOK'
                /\ \A s : OfScope(s)' = IF s = scope THEN {p} ELSE OfScope(s)
                /\ Send(ProgressChanged(p)) /\ UNCHANGED stage
  <2> DEFINE p == ProgressOf(progresses, scope)
             q == Advanced(p)
  <2>1. /\ HasProgress(progresses, scope) /\ CanAdvance(p)
        /\ progresses' = Replaced(progresses, q)
        /\ Send(ProgressChanged(q)) /\ UNCHANGED stage
    BY <1>2 DEF Advance
  <2>2. /\ q \in ProgressType /\ q.scope = scope
        /\ 1 <= q.index /\ q.index <= q.size
    BY <2>1, ProgressThere
  <2> HIDE DEF p, q
  <2>3. ListOK' /\ \A s : OfScope(s)' = IF s = q.scope THEN {q} ELSE OfScope(s)
    BY <2>1, <2>2, ReplacedKeeps
  <2>4. QED
    BY <2>1, <2>2, <2>3
<1>3. QED
  BY <1>1, <1>2

\* Every message keeps the list and the types.
LEMMA Inductive == IInv /\ [Next]_vars => IInv'
<1> SUFFICES ASSUME IInv, [Next]_vars
             PROVE  IInv'
  OBVIOUS
<1>1. CASE UNCHANGED vars
  BY <1>1 DEF vars, IInv, TypeOK, ListOK, UniqueScopes, StepInRange
<1>2. ASSUME NEW s \in Stage, SetStage(s)
      PROVE  IInv'
  BY <1>2 DEF SetStage, Send, StageChanged, Event, IInv, TypeOK, ListOK, UniqueScopes, StepInRange
<1>3. ASSUME NEW p \in ProgressType,
             ListOK', Send(ProgressChanged(p)), UNCHANGED stage
      PROVE  IInv'
  BY <1>3 DEF Send, ProgressChanged, Event, IInv, TypeOK, ListOK
<1>4. ASSUME NEW p \in Reported, SetProgress(p)
      PROVE  IInv'
  <2>1. p \in ProgressType /\ 1 <= p.index /\ p.index <= p.size
    BY BoundsAssumption DEF Reported, ProgressType
  <2>2. ListOK'
    BY <1>4, <2>1, AddedKeeps, ReplacedKeeps DEF SetProgress, IInv
  <2>3. QED
    BY <1>3, <1>4, <2>1, <2>2 DEF SetProgress
<1>5. ASSUME NEW scope \in Scopes, (\E size \in 0 .. MaxSize : Start(scope, size)) \/ Advance(scope)
      PROVE  IInv'
  BY <1>3, <1>5, Announced DEF IInv
<1>6. ASSUME NEW scope \in Scopes, Finish(scope)
      PROVE  IInv'
  <2>1. ListOK'
    BY <1>6, RemovedKeeps DEF Finish, IInv
  <2>2. events' \in Seq(Event) /\ stage' \in Stage
    BY <1>6 DEF Finish, Send, ProgressFinished, Event, IInv, TypeOK
  <2>3. QED
    BY <2>1, <2>2 DEF IInv, TypeOK, ListOK
<1>7. QED
  BY <1>1, <1>2, <1>4, <1>5, <1>6 DEF Next

LEMMA InitIInv == Init => IInv
BY DEF Init, IInv, TypeOK, ListOK, Stage, UniqueScopes, StepInRange

\* Whatever the services send, and in any order, no scope has two
\* progresses: first-match lookups never hide one.
THEOREM UniqueScopesAlways == Spec => []UniqueScopes
<1>1. IInv => UniqueScopes
  BY DEF IInv, ListOK
<1>2. QED
  BY <1>1, InitIInv, Inductive, PTL DEF Spec

\* The status and the events keep their types: every message leaves a list of
\* progresses of known scopes.
THEOREM ProgressTypeCorrect == Spec => []TypeOK
<1>1. IInv => TypeOK
  BY DEF IInv, ListOK
<1>2. QED
  BY <1>1, Inductive, InitIInv, PTL DEF Spec

\* No progress goes beyond its last step, whatever its number of steps.
THEOREM StepInRangeAlways == Spec => []StepInRange
<1>1. IInv => StepInRange
  BY DEF IInv, ListOK
<1>2. QED
  BY <1>1, InitIInv, Inductive, PTL DEF Spec

-----------------------------------------------------------------------------
(* The inductive invariant of the clients.                                 *)

\* Every task whose metadata is stored is between there and its end.
TasksKept ==
    /\ next_id \in 0 .. MaxTasks
    /\ metadata \in SUBSET Tasks!TaskIds
    /\ pc \in [Tasks!TaskIds -> Tasks!PC]
    /\ \A id \in Tasks!TaskIds :
        /\ pc[id] = "unused" <=> id >= next_id
        /\ id \in metadata <=> pc[id] \in {"stored", "running"} \union Tasks!Pending

AnyEvent == Tasks!Event \union Event

Typed ==
    /\ MonitorTypeOK
    /\ stage \in Stage
    /\ events \in Seq(AnyEvent)
    /\ view \in [stage : Stage, progresses : SUBSET ProgressType,
                 tasks : SUBSET Tasks!TaskIds]

\* What the events that are sent and not read yet say.
ToStage(e) == e.type = "StageChanged"
About(e, s) ==
    \/ e.type = "ProgressChanged" /\ e.progress.scope = s
    \/ e.type = "ProgressFinished" /\ e.scope = s
StartOf(e, id) == e.type = "TaskStarted" /\ e.task = id
EndOf(e, id) == e.type = "TaskFinished" /\ e.task = id

\* The last event about the stage says which one it is, ...
StageSent ==
    \A k \in DOMAIN events :
        (ToStage(events[k]) /\ \A j \in DOMAIN events : j > k => ~ToStage(events[j]))
            => events[k].stage = stage

\* ... the last one about a scope what there is of it, ...
Said(e) == IF e.type = "ProgressChanged" THEN {e.progress} ELSE {}
ScopeSent ==
    \A s \in Scopes : \A k \in DOMAIN events :
        (About(events[k], s) /\ \A j \in DOMAIN events : j > k => ~About(events[j], s))
            => OfScope(s) = Said(events[k])

\* ... and a task that started and is gone is followed by its end, which is sent once
\* the task has ended.
TasksSent ==
    \A id \in Tasks!TaskIds : \A k \in DOMAIN events :
        /\ EndOf(events[k], id) => pc[id] \in Tasks!Ended
        /\ StartOf(events[k], id) /\ id \notin metadata =>
              \E j \in DOMAIN events : j > k /\ EndOf(events[j], id)

\* A monitor that was subscribed when it asked, and is still.
Following == client = "monitor" /\ early /\ ~closed

\* The tasks it shows are right but for what it will read.
TasksShown ==
    Following /\ at \in {"answered", "watching"} =>
        \A id \in Tasks!TaskIds :
            /\ pc[id] = "running" =>
                  id \in view.tasks \/ \E k \in DOMAIN events : StartOf(events[k], id)
            /\ id \in view.tasks =>
                  id \in metadata \/ \E k \in DOMAIN events : EndOf(events[k], id)

\* So are the stage and the progress of each scope.
StageShown ==
    Following /\ at = "watching" =>
        view.stage = stage \/ \E k \in DOMAIN events : ToStage(events[k])
ScopeShown ==
    Following /\ at = "watching" =>
        \A s \in Scopes :
            \/ {p \in view.progresses : p.scope = s} = OfScope(s)
            \/ \E k \in DOMAIN events : About(events[k], s)

\* What was sent before the subscription is not kept, and the client that was subscribed
\* remains so.
EarlyIsSubscribed == early => subscribed

MonitorInv ==
    /\ Typed /\ TasksKept /\ ListOK
    /\ StageSent /\ ScopeSent /\ TasksSent
    /\ TasksShown /\ StageShown /\ ScopeShown /\ EarlyIsSubscribed

-----------------------------------------------------------------------------
(* The events: one is sent, one is read, or all are dropped.               *)

LEMMA Sending ==
    ASSUME events \in Seq(AnyEvent), NEW e \in AnyEvent, events' = Append(events, e)
    PROVE  /\ events' \in Seq(AnyEvent)
           /\ \E n \in DOMAIN events' :
                /\ events'[n] = e
                /\ n \notin DOMAIN events
                /\ \A k \in DOMAIN events : k < n
                /\ \A k \in DOMAIN events' : k \in DOMAIN events \/ k = n
           /\ \A k \in DOMAIN events : k \in DOMAIN events' /\ events'[k] = events[k]
<1>1. /\ events' \in Seq(AnyEvent)
      /\ Len(events) \in Nat
      /\ Len(events') = Len(events) + 1
      /\ DOMAIN events = 1 .. Len(events)
      /\ DOMAIN events' = 1 .. (Len(events) + 1)
      /\ events'[Len(events) + 1] = e
      /\ \A k \in DOMAIN events : events'[k] = events[k]
  OBVIOUS
<1>2. PICK n : n = Len(events) + 1
  OBVIOUS
<1>3. /\ n \in DOMAIN events' /\ n \notin DOMAIN events
      /\ \A k \in DOMAIN events : k < n /\ k \in DOMAIN events'
      /\ \A k \in DOMAIN events' : k \in DOMAIN events \/ k = n
  BY <1>1, <1>2
<1>4. events'[n] = e
  BY <1>1, <1>2
<1>5. QED
  BY <1>1, <1>3, <1>4

LEMMA Reading ==
    ASSUME events \in Seq(AnyEvent), events # <<>>, events' = Tail(events)
    PROVE  /\ events' \in Seq(AnyEvent)
           /\ 1 \in DOMAIN events /\ Head(events) = events[1] /\ Head(events) \in AnyEvent
           /\ \A k \in DOMAIN events : k \in Nat /\ 1 <= k
           /\ \A k \in DOMAIN events' :
                k \in Nat /\ k + 1 \in DOMAIN events /\ events'[k] = events[k + 1]
           /\ \A k \in DOMAIN events :
                k # 1 => k - 1 \in DOMAIN events' /\ events'[k - 1] = events[k] /\ k > 1
<1>1. /\ events' \in Seq(AnyEvent)
      /\ Len(events) \in Nat /\ Len(events) >= 1
      /\ Len(events') = Len(events) - 1
      /\ DOMAIN events = 1 .. Len(events)
      /\ DOMAIN events' = 1 .. (Len(events) - 1)
      /\ \A k \in 1 .. (Len(events) - 1) : events'[k] = events[k + 1]
      /\ Head(events) = events[1]
  OBVIOUS
<1>2. events[1] \in AnyEvent
  BY <1>1
<1>3. ASSUME NEW k \in DOMAIN events, k # 1
      PROVE  k - 1 \in DOMAIN events' /\ events'[k - 1] = events[k] /\ k > 1
  <2>1. k - 1 \in 1 .. (Len(events) - 1) /\ (k - 1) + 1 = k /\ k > 1
    BY <1>1, <1>3
  <2>2. QED
    BY <1>1, <2>1
<1>4. QED
  BY <1>1, <1>2, <1>3

-----------------------------------------------------------------------------
(* The steps of the server.                                                *)

\* What the unread events are about changes only as the event that is sent says.
Tells(e) ==
    /\ IF ToStage(e) THEN stage' = e.stage ELSE stage' = stage
    /\ \A s \in Scopes : OfScope(s)' = IF About(e, s) THEN Said(e) ELSE OfScope(s)
    /\ \A id \in Tasks!TaskIds :
        /\ EndOf(e, id) => pc'[id] \in Tasks!Ended
        /\ pc[id] \in Tasks!Ended => pc'[id] \in Tasks!Ended
        /\ StartOf(e, id) => id \in metadata'
        /\ id \in metadata => id \in metadata' \/ EndOf(e, id)
        /\ pc'[id] = "running" => pc[id] = "running" \/ StartOf(e, id)

Sent == StageSent /\ ScopeSent /\ TasksSent
Shown == TasksShown /\ StageShown /\ ScopeShown

ClientStays == UNCHANGED <<client, at, view, early, closed>>

\* An event that is sent as things change leaves the copy as right as it was.
LEMMA TellingKeeps ==
    ASSUME MonitorInv, NEW e \in AnyEvent, events' = Append(events, e), Tells(e), ClientStays
    PROVE  Sent' /\ Shown'
<1>1. /\ events' \in Seq(AnyEvent)
      /\ \A k \in DOMAIN events : k \in DOMAIN events' /\ events'[k] = events[k]
  BY Sending DEF MonitorInv, Typed
<1>2. PICK n \in DOMAIN events' :
        /\ events'[n] = e
        /\ n \notin DOMAIN events
        /\ \A k \in DOMAIN events : k < n
        /\ \A k \in DOMAIN events' : k \in DOMAIN events \/ k = n
  BY Sending DEF MonitorInv, Typed
<1>3. StageSent'
  <2> SUFFICES ASSUME NEW k \in DOMAIN events', ToStage(events'[k]),
                      \A j \in DOMAIN events' : j > k => ~ToStage(events'[j])
               PROVE  events'[k].stage = stage'
    BY DEF StageSent, ToStage
  <2>1. CASE k = n
    BY <2>1, <1>2 DEF Tells
  <2>2. CASE k # n
    <3>1. k \in DOMAIN events /\ k < n /\ events'[k] = events[k]
      BY <2>2, <1>1, <1>2
    <3>2. n > k
      BY <3>1, <1>1, <1>2
    <3>3. ~ToStage(e)
      BY <3>2, <1>2
    <3>4. events[k].stage = stage
      BY <3>1, <1>1 DEF MonitorInv, StageSent
    <3>5. QED
      BY <3>1, <3>3, <3>4 DEF Tells
  <2>3. QED
    BY <2>1, <2>2
<1>4. ScopeSent'
  <2> SUFFICES ASSUME NEW s \in Scopes, NEW k \in DOMAIN events', About(events'[k], s),
                      \A j \in DOMAIN events' : j > k => ~About(events'[j], s)
               PROVE  OfScope(s)' = Said(events'[k])
    BY DEF ScopeSent, About, Said
  <2>1. CASE k = n
    BY <2>1, <1>2 DEF Tells
  <2>2. CASE k # n
    <3>1. k \in DOMAIN events /\ k < n /\ events'[k] = events[k]
      BY <2>2, <1>1, <1>2
    <3>2. n > k
      BY <3>1, <1>1, <1>2
    <3>3. ~About(e, s)
      BY <3>2, <1>2
    <3>4. OfScope(s) = Said(events[k])
      BY <3>1, <1>1 DEF MonitorInv, ScopeSent
    <3>5. QED
      BY <3>1, <3>3, <3>4 DEF Tells
  <2>3. QED
    BY <2>1, <2>2
<1>5. TasksSent'
  <2> SUFFICES ASSUME NEW id \in Tasks!TaskIds, NEW k \in DOMAIN events'
               PROVE  /\ EndOf(events'[k], id) => pc'[id] \in Tasks!Ended
                      /\ StartOf(events'[k], id) /\ id \notin metadata' =>
                            \E j \in DOMAIN events' : j > k /\ EndOf(events'[j], id)
    BY DEF TasksSent, StartOf, EndOf
  <2>1. CASE k = n
    BY <2>1, <1>2 DEF Tells
  <2>2. CASE k # n
    <3>1. k \in DOMAIN events /\ n > k /\ events'[k] = events[k]
      BY <2>2, <1>1, <1>2
    <3>2. EndOf(events'[k], id) => pc'[id] \in Tasks!Ended
      BY <3>1 DEF MonitorInv, TasksSent, Tells
    <3>3. ASSUME StartOf(events'[k], id), id \notin metadata'
          PROVE  \E j \in DOMAIN events' : j > k /\ EndOf(events'[j], id)
      <4>1. CASE id \in metadata
        BY <4>1, <3>1, <3>3, <1>2 DEF Tells
      <4>2. CASE id \notin metadata
        BY <4>2, <3>1, <3>3, <1>1 DEF MonitorInv, TasksSent
      <4>3. QED
        BY <4>1, <4>2
    <3>4. QED
      BY <3>2, <3>3
  <2>3. QED
    BY <2>1, <2>2
<1>6. TasksShown'
  <2> SUFFICES ASSUME Following', at' \in {"answered", "watching"}, NEW id \in Tasks!TaskIds
               PROVE  /\ pc'[id] = "running" =>
                            id \in view'.tasks \/ \E k \in DOMAIN events' : StartOf(events'[k], id)
                      /\ id \in view'.tasks =>
                            id \in metadata' \/ \E k \in DOMAIN events' : EndOf(events'[k], id)
    BY DEF TasksShown, StartOf, EndOf
  <2>1. /\ pc[id] = "running" =>
              id \in view.tasks \/ \E k \in DOMAIN events : StartOf(events[k], id)
        /\ id \in view.tasks =>
              id \in metadata \/ \E k \in DOMAIN events : EndOf(events[k], id)
    BY DEF MonitorInv, TasksShown, Following, ClientStays
  <2>2. view' = view
    BY DEF ClientStays
  <2>3. pc'[id] = "running" => pc[id] = "running" \/ StartOf(events'[n], id)
    BY <1>2 DEF Tells
  <2>4. id \in metadata => id \in metadata' \/ EndOf(events'[n], id)
    BY <1>2 DEF Tells
  <2>5. QED
    BY <2>1, <2>2, <2>3, <2>4, <1>1
<1>7. StageShown'
  <2> SUFFICES ASSUME Following', at' = "watching"
               PROVE  view'.stage = stage' \/ \E k \in DOMAIN events' : ToStage(events'[k])
    BY DEF StageShown, ToStage
  <2>1. view.stage = stage \/ \E k \in DOMAIN events : ToStage(events[k])
    BY DEF MonitorInv, StageShown, Following, ClientStays
  <2>2. view' = view
    BY DEF ClientStays
  <2>3. stage' = stage \/ ToStage(events'[n])
    BY <1>2 DEF Tells
  <2>4. QED
    BY <2>1, <2>2, <2>3, <1>1
<1>8. ScopeShown'
  <2> SUFFICES ASSUME Following', at' = "watching", NEW s \in Scopes
               PROVE  \/ {p \in view'.progresses : p.scope = s} = OfScope(s)'
                      \/ \E k \in DOMAIN events' : About(events'[k], s)
    BY DEF ScopeShown, About
  <2>1. \/ {p \in view.progresses : p.scope = s} = OfScope(s)
        \/ \E k \in DOMAIN events : About(events[k], s)
    BY DEF MonitorInv, ScopeShown, Following, ClientStays
  <2>2. view' = view
    BY DEF ClientStays
  <2>3. OfScope(s)' = OfScope(s) \/ About(events'[n], s)
    BY <1>2 DEF Tells
  <2>4. QED
    BY <2>1, <2>2, <2>3, <1>1
<1>9. QED
  BY <1>3, <1>4, <1>5, <1>6, <1>7, <1>8 DEF Sent, Shown

\* So does a step that sends nothing and changes nothing of it.
LEMMA QuietKeeps ==
    ASSUME MonitorInv, events' = events, ClientStays, NEW e, Tells(e), ~ToStage(e),
           \A s \in Scopes : ~About(e, s),
           \A id \in Tasks!TaskIds : ~StartOf(e, id) /\ ~EndOf(e, id)
    PROVE  Sent' /\ Shown'
<1>1. /\ stage' = stage
      /\ \A s \in Scopes : OfScope(s)' = OfScope(s)
      /\ \A id \in Tasks!TaskIds :
            /\ pc[id] \in Tasks!Ended => pc'[id] \in Tasks!Ended
            /\ id \in metadata => id \in metadata'
            /\ pc'[id] = "running" => pc[id] = "running"
  BY DEF Tells
<1>2. StageSent' /\ StageShown'
  BY <1>1 DEF MonitorInv, StageSent, StageShown, ToStage, ClientStays, Following
<1>3. ScopeSent'
  BY <1>1 DEF MonitorInv, ScopeSent, About, Said
<1>4. ScopeShown'
  BY <1>1 DEF MonitorInv, ScopeShown, About, ClientStays, Following
<1>5. TasksSent'
  BY <1>1 DEF MonitorInv, TasksSent, StartOf, EndOf
<1>6. TasksShown'
  BY <1>1 DEF MonitorInv, TasksShown, StartOf, EndOf, ClientStays, Following
<1>7. QED
  BY <1>2, <1>3, <1>4, <1>5, <1>6 DEF Sent, Shown

-----------------------------------------------------------------------------
(* The steps of the tasks.                                                 *)

\* The task manager counts with its own instance of Cardinality, which is the same.
LEMMA TaskCountIsNat ==
    ASSUME NEW S \in SUBSET Tasks!TaskIds
    PROVE  Tasks!Cardinality(S) \in Nat
<1>1. IsFiniteSet(Tasks!TaskIds)
  <2>1. 0 \in Int /\ MaxTasks - 1 \in Int
    BY MonitorAssumption
  <2>2. QED
    BY <2>1, FS_Interval DEF Tasks!TaskIds
<1>2. IsFiniteSet(S)
  BY <1>1, FS_Subset
<1>3. Tasks!Cardinality(S) = Cardinality(S)
  BY DEF Cardinality, Tasks!Cardinality
<1>4. QED
  BY <1>2, <1>3, FS_CardinalityType

\* The event of a task says nothing of the stage or of a scope.
LEMMA TaskEvents ==
    ASSUME NEW id \in Tasks!TaskIds, NEW n \in Nat
    PROVE  /\ \A e \in {Tasks!TaskAdded(id), Tasks!TaskStarted(id), Tasks!TaskFinished(id, n)} :
                /\ e \in AnyEvent
                /\ ~ToStage(e) /\ \A s \in Scopes : ~About(e, s)
           /\ \A i \in Tasks!TaskIds :
                /\ ~StartOf(Tasks!TaskAdded(id), i) /\ ~EndOf(Tasks!TaskAdded(id), i)
                /\ StartOf(Tasks!TaskStarted(id), i) <=> i = id
                /\ ~EndOf(Tasks!TaskStarted(id), i)
                /\ ~StartOf(Tasks!TaskFinished(id, n), i)
                /\ EndOf(Tasks!TaskFinished(id, n), i) <=> i = id
<1>1. /\ Tasks!TaskAdded(id) \in AnyEvent /\ Tasks!TaskStarted(id) \in AnyEvent
      /\ Tasks!TaskFinished(id, n) \in AnyEvent
  BY DEF AnyEvent, Tasks!Event, Tasks!TaskAdded, Tasks!TaskStarted, Tasks!TaskFinished
<1>2. /\ Tasks!TaskAdded(id).type = "TaskAdded" /\ Tasks!TaskStarted(id).type = "TaskStarted"
      /\ Tasks!TaskFinished(id, n).type = "TaskFinished"
      /\ Tasks!TaskStarted(id).task = id /\ Tasks!TaskFinished(id, n).task = id
  BY DEF Tasks!TaskAdded, Tasks!TaskStarted, Tasks!TaskFinished
<1>3. \A e : e.type \in {"TaskAdded", "TaskStarted", "TaskFinished"} =>
                ~ToStage(e) /\ \A s \in Scopes : ~About(e, s)
  BY DEF ToStage, About
<1>4. QED
  BY <1>1, <1>2, <1>3 DEF StartOf, EndOf

LEMMA ProgressStays ==
    ASSUME UNCHANGED <<stage, progresses>>
    PROVE  stage' = stage /\ \A s : OfScope(s)' = OfScope(s)
BY DEF OfScope

LEMMA NextIdTells ==
    ASSUME MonitorInv, NEW id \in Tasks!TaskIds, NEW ds, Tasks!NextId(id, ds, FALSE),
           UNCHANGED <<stage, progresses>>
    PROVE  events' = events /\ TasksKept' /\ Tells(Tasks!TaskAdded(id))
<1>1. /\ id = next_id /\ next_id' = next_id + 1 /\ metadata' = metadata /\ events' = events
      /\ pc' = [pc EXCEPT ![id] = "named"]
  BY DEF Tasks!NextId
<1>2. TasksKept'
  <2>1. next_id' \in 0 .. MaxTasks /\ pc' \in [Tasks!TaskIds -> Tasks!PC]
    BY <1>1, MonitorAssumption DEF MonitorInv, TasksKept, Tasks!TaskIds, Tasks!PC, Tasks!Submitting
  <2>2. ASSUME NEW i \in Tasks!TaskIds
        PROVE  /\ pc'[i] = "unused" <=> i >= next_id'
               /\ i \in metadata' <=> pc'[i] \in {"stored", "running"} \union Tasks!Pending
    <3>1. CASE i = id
      BY <3>1, <1>1, MonitorAssumption DEF MonitorInv, TasksKept, Tasks!TaskIds, Tasks!Pending
    <3>2. CASE i # id
      BY <3>2, <1>1, MonitorAssumption DEF MonitorInv, TasksKept, Tasks!TaskIds
    <3>3. QED
      BY <3>1, <3>2
  <2>3. QED
    BY <2>1, <2>2, <1>1 DEF MonitorInv, TasksKept
<1>3. ASSUME NEW i \in Tasks!TaskIds
      PROVE  /\ pc[i] \in Tasks!Ended => pc'[i] \in Tasks!Ended
             /\ pc'[i] = "running" => pc[i] = "running"
  <2>1. pc[id] = "unused"
    BY <1>1, MonitorAssumption DEF MonitorInv, TasksKept, Tasks!TaskIds
  <2>2. QED
    BY <2>1, <1>1 DEF MonitorInv, TasksKept, Tasks!Ended
<1>4. Tells(Tasks!TaskAdded(id))
  BY <1>1, <1>3, ProgressStays, TaskEvents DEF Tells
<1>5. QED
  BY <1>1, <1>2, <1>4

\* A task goes on to another point before its end, and then its metadata is stored.
LEMMA GoingOn ==
    ASSUME MonitorInv, NEW id \in Tasks!TaskIds, pc[id] \notin {"unused"} \union Tasks!Ended,
           NEW phase \in {"stored", "running"} \union Tasks!Pending,
           pc' = [pc EXCEPT ![id] = phase],
           metadata' = metadata \union {id}, next_id' = next_id
    PROVE  /\ TasksKept'
           /\ \A i \in Tasks!TaskIds :
                /\ pc[i] \in Tasks!Ended => pc'[i] \in Tasks!Ended
                /\ i \in metadata => i \in metadata'
                /\ pc'[i] = "running" => pc[i] = "running" \/ (i = id /\ phase = "running")
           /\ id \in metadata'
<1>1. phase \in Tasks!PC /\ phase # "unused"
  BY DEF Tasks!PC, Tasks!Pending, Tasks!Submitting
<1>2. pc' \in [Tasks!TaskIds -> Tasks!PC] /\ metadata' \in SUBSET Tasks!TaskIds
  BY <1>1 DEF MonitorInv, TasksKept
<1>3. \A i \in Tasks!TaskIds : pc'[i] = IF i = id THEN phase ELSE pc[i]
  BY DEF MonitorInv, TasksKept
<1>4. ASSUME NEW i \in Tasks!TaskIds
      PROVE  /\ pc'[i] = "unused" <=> i >= next_id'
             /\ i \in metadata' <=> pc'[i] \in {"stored", "running"} \union Tasks!Pending
  BY <1>1, <1>3 DEF MonitorInv, TasksKept
<1>5. TasksKept'
  BY <1>2, <1>4 DEF MonitorInv, TasksKept
<1>6. QED
  BY <1>3, <1>5

LEMMA StoredIfPending ==
    ASSUME MonitorInv, NEW id \in Tasks!TaskIds,
           pc[id] \in {"stored", "running"} \union Tasks!Pending
    PROVE  metadata = metadata \union {id}
BY DEF MonitorInv, TasksKept

LEMMA SubmitTells ==
    ASSUME MonitorInv, NEW id \in Tasks!TaskIds, UNCHANGED <<stage, progresses>>,
           Tasks!StoreMetadata(id) \/ Tasks!LeaveLoop(id) \/ Tasks!Park(id)
    PROVE  events' = events /\ TasksKept' /\ Tells(Tasks!TaskAdded(id))
<1>1. PICK phase \in {"stored", "resolved", "parked"} :
        /\ pc[id] \notin {"unused"} \union Tasks!Ended
        /\ pc' = [pc EXCEPT ![id] = phase]
        /\ metadata' = metadata \union {id} /\ next_id' = next_id /\ events' = events
  <2>1. CASE Tasks!StoreMetadata(id)
    BY <2>1 DEF Tasks!StoreMetadata, Tasks!Ended
  <2>2. CASE Tasks!LeaveLoop(id) \/ Tasks!Park(id)
    <3>1. /\ pc[id] = "waiting" /\ metadata' = metadata /\ next_id' = next_id
          /\ events' = events
          /\ \/ pc' = [pc EXCEPT ![id] = "resolved"]
             \/ pc' = [pc EXCEPT ![id] = "parked"]
      BY <2>2 DEF Tasks!LeaveLoop, Tasks!Park
    <3>2. metadata = metadata \union {id}
      BY <3>1, StoredIfPending DEF Tasks!Pending
    <3>3. QED
      BY <3>1, <3>2 DEF Tasks!Ended
  <2>3. QED
    BY <2>1, <2>2
<1>2. phase \in {"stored", "running"} \union Tasks!Pending /\ phase # "running"
  BY DEF Tasks!Pending
<1>3. /\ TasksKept'
      /\ \A i \in Tasks!TaskIds :
            /\ pc[i] \in Tasks!Ended => pc'[i] \in Tasks!Ended
            /\ i \in metadata => i \in metadata'
            /\ pc'[i] = "running" => pc[i] = "running"
  BY <1>1, <1>2, GoingOn
<1>4. Tells(Tasks!TaskAdded(id))
  BY <1>3, ProgressStays, TaskEvents DEF Tells
<1>5. QED
  BY <1>1, <1>3, <1>4

LEMMA SpawnTells ==
    ASSUME MonitorInv, NEW id \in Tasks!TaskIds, Tasks!Spawn(id),
           UNCHANGED <<stage, progresses>>
    PROVE  events' = Append(events, Tasks!TaskAdded(id)) /\ TasksKept' /\ Tells(Tasks!TaskAdded(id))
<1>1. /\ pc[id] = "stored" /\ metadata' = metadata /\ next_id' = next_id
      /\ pc' = [pc EXCEPT ![id] = "waiting"]
      /\ events' = Append(events, Tasks!TaskAdded(id))
  BY DEF Tasks!Spawn, Tasks!Send
<1>2. metadata = metadata \union {id}
  BY <1>1, StoredIfPending
<1>3. /\ TasksKept'
      /\ \A i \in Tasks!TaskIds :
            /\ pc[i] \in Tasks!Ended => pc'[i] \in Tasks!Ended
            /\ i \in metadata => i \in metadata'
            /\ pc'[i] = "running" => pc[i] = "running"
  <2>1. pc[id] \notin {"unused"} \union Tasks!Ended /\ "waiting" \in Tasks!Pending
    BY <1>1 DEF Tasks!Ended, Tasks!Pending
  <2>2. PICK phase \in {"stored", "running"} \union Tasks!Pending : phase = "waiting"
    BY <2>1
  <2>3. /\ pc' = [pc EXCEPT ![id] = phase] /\ metadata' = metadata \union {id} /\ next_id' = next_id
        /\ phase # "running"
    BY <1>1, <1>2, <2>2
  <2>4. QED
    BY <2>1, <2>3, GoingOn
<1>4. Tells(Tasks!TaskAdded(id))
  BY <1>3, ProgressStays, TaskEvents DEF Tells
<1>5. QED
  BY <1>1, <1>3, <1>4

LEMMA StartTells ==
    ASSUME MonitorInv, NEW id \in Tasks!TaskIds, Tasks!Start(id),
           UNCHANGED <<stage, progresses>>
    PROVE  events' = Append(events, Tasks!TaskStarted(id)) /\ TasksKept' /\ Tells(Tasks!TaskStarted(id))
<1>1. /\ pc[id] = "resolved" /\ metadata' = metadata /\ next_id' = next_id
      /\ pc' = [pc EXCEPT ![id] = "running"]
      /\ events' = Append(events, Tasks!TaskStarted(id))
  BY DEF Tasks!Start, Tasks!Send
<1>2. metadata = metadata \union {id}
  BY <1>1, StoredIfPending DEF Tasks!Pending
<1>3. /\ TasksKept'
      /\ \A i \in Tasks!TaskIds :
            /\ pc[i] \in Tasks!Ended => pc'[i] \in Tasks!Ended
            /\ i \in metadata => i \in metadata'
            /\ pc'[i] = "running" => pc[i] = "running" \/ i = id
      /\ id \in metadata'
  <2>1. pc[id] \notin {"unused"} \union Tasks!Ended
    BY <1>1 DEF Tasks!Ended
  <2>2. PICK phase \in {"stored", "running"} \union Tasks!Pending : phase = "running"
    OBVIOUS
  <2>3. pc' = [pc EXCEPT ![id] = phase] /\ metadata' = metadata \union {id} /\ next_id' = next_id
    BY <1>1, <1>2, <2>2
  <2>4. QED
    BY <2>1, <2>3, GoingOn
<1>4. Tells(Tasks!TaskStarted(id))
  BY <1>3, ProgressStays, TaskEvents DEF Tells
<1>5. QED
  BY <1>1, <1>3, <1>4

\* What both ways of ending do; the tasks that wait go round again, which changes nothing
\* for a client.
LEMMA LeaveTells ==
    ASSUME MonitorInv, NEW id \in Tasks!TaskIds, NEW phase \in Tasks!Ended, Tasks!Leave(id, phase),
           pc[id] \notin {"unused"} \union Tasks!Ended, UNCHANGED <<stage, progresses>>
    PROVE  \E n \in Nat : /\ events' = Append(events, Tasks!TaskFinished(id, n))
                          /\ TasksKept' /\ Tells(Tasks!TaskFinished(id, n))
<1>1. /\ pc' = Tasks!NotifyWaiters([pc EXCEPT ![id] = phase])
      /\ metadata' = metadata \ {id} /\ next_id' = next_id
      /\ events' = Append(events, Tasks!TaskFinished(id, Tasks!Cardinality(metadata')))
  BY DEF Tasks!Leave, Tasks!Send
<1>2. metadata' \in SUBSET Tasks!TaskIds
  BY <1>1 DEF MonitorInv, TasksKept
<1>3. PICK n \in Nat : n = Tasks!Cardinality(metadata')
  BY <1>2, TaskCountIsNat
<1>4. \A i \in Tasks!TaskIds :
        pc'[i] = IF i = id THEN phase ELSE IF pc[i] = "parked" THEN "waiting" ELSE pc[i]
  BY <1>1 DEF Tasks!NotifyWaiters, Tasks!Ended, MonitorInv, TasksKept
<1>5. TasksKept'
  <2>1. pc' \in [Tasks!TaskIds -> Tasks!PC]
    <3>1. phase \in Tasks!PC /\ "waiting" \in Tasks!PC /\ pc \in [Tasks!TaskIds -> Tasks!PC]
      BY DEF Tasks!PC, Tasks!Pending, MonitorInv, TasksKept
    <3>2. QED
      BY <1>1, <3>1 DEF Tasks!NotifyWaiters
  <2>2. ASSUME NEW i \in Tasks!TaskIds
        PROVE  /\ pc'[i] = "unused" <=> i >= next_id'
               /\ i \in metadata' <=> pc'[i] \in {"stored", "running"} \union Tasks!Pending
    <3>1. /\ pc[i] = "unused" <=> i >= next_id
          /\ i \in metadata <=> pc[i] \in {"stored", "running"} \union Tasks!Pending
      BY DEF MonitorInv, TasksKept
    <3>2. CASE i = id
      BY <3>1, <3>2, <1>1, <1>4 DEF Tasks!Ended, Tasks!Pending
    <3>3. CASE i # id
      BY <3>1, <3>3, <1>1, <1>4 DEF Tasks!Pending
    <3>4. QED
      BY <3>2, <3>3
  <2>3. QED
    BY <2>1, <2>2, <1>1, <1>2 DEF MonitorInv, TasksKept
<1>6. ASSUME NEW i \in Tasks!TaskIds
      PROVE  /\ i = id => pc'[i] \in Tasks!Ended
             /\ pc[i] \in Tasks!Ended => pc'[i] \in Tasks!Ended
             /\ i \in metadata => i \in metadata' \/ i = id
             /\ pc'[i] = "running" => pc[i] = "running"
  BY <1>1, <1>4 DEF Tasks!Ended
<1>7. Tells(Tasks!TaskFinished(id, n))
  BY <1>6, ProgressStays, TaskEvents DEF Tells
<1>8. QED
  BY <1>1, <1>3, <1>5, <1>7

\* Whatever a task does, the copy of a client is as right as before.
LEMMA TaskStepKeeps ==
    ASSUME MonitorInv, Submit \/ \E id \in Tasks!TaskIds : RunTask(id)
    PROVE  /\ events' \in Seq(AnyEvent)
           /\ TasksKept'
           /\ Sent' /\ Shown'
           /\ UNCHANGED <<progressVars, socketVars, clientVars>>
<1>1. UNCHANGED <<stage, progresses>> /\ ClientStays
      /\ UNCHANGED <<progressVars, socketVars, clientVars>>
  BY DEF Submit, RunTask, TaskStep, progressVars, socketVars, clientVars, ClientStays
<1>2. events \in Seq(AnyEvent)
  BY DEF MonitorInv, Typed
<1>3. ASSUME NEW id \in Tasks!TaskIds, events' = events, TasksKept', Tells(Tasks!TaskAdded(id))
      PROVE  events' \in Seq(AnyEvent) /\ TasksKept' /\ Sent' /\ Shown'
  <2>1. /\ ~ToStage(Tasks!TaskAdded(id)) /\ \A s \in Scopes : ~About(Tasks!TaskAdded(id), s)
        /\ \A i \in Tasks!TaskIds :
              ~StartOf(Tasks!TaskAdded(id), i) /\ ~EndOf(Tasks!TaskAdded(id), i)
    BY TaskEvents
  <2>2. QED
    BY <1>1, <1>2, <1>3, <2>1, QuietKeeps
<1>4. ASSUME NEW e \in AnyEvent, events' = Append(events, e), TasksKept', Tells(e)
      PROVE  events' \in Seq(AnyEvent) /\ TasksKept' /\ Sent' /\ Shown'
  BY <1>1, <1>2, <1>4, TellingKeeps
<1>5. ASSUME NEW id \in Tasks!TaskIds, NEW n \in Nat
      PROVE  /\ Tasks!TaskAdded(id) \in AnyEvent /\ Tasks!TaskStarted(id) \in AnyEvent
             /\ Tasks!TaskFinished(id, n) \in AnyEvent
  BY TaskEvents
<1>6. CASE Submit
  <2>1. PICK id \in Tasks!TaskIds :
          \/ \E ds \in SUBSET Tasks!TaskIds : Tasks!NextId(id, ds, FALSE)
          \/ Tasks!StoreMetadata(id)
          \/ Tasks!Spawn(id)
    BY <1>6 DEF Submit, TaskStep
  <2>2. CASE \E ds \in SUBSET Tasks!TaskIds : Tasks!NextId(id, ds, FALSE)
    BY <2>2, <1>1, <1>3, NextIdTells
  <2>3. CASE Tasks!StoreMetadata(id)
    BY <2>3, <1>1, <1>3, SubmitTells
  <2>4. CASE Tasks!Spawn(id)
    <3>1. 0 \in Nat
      OBVIOUS
    <3>2. QED
      BY <2>4, <3>1, <1>1, <1>4, <1>5, SpawnTells
  <2>5. QED
    BY <1>1, <2>1, <2>2, <2>3, <2>4
<1>7. ASSUME NEW id \in Tasks!TaskIds, RunTask(id)
      PROVE  events' \in Seq(AnyEvent) /\ TasksKept' /\ Sent' /\ Shown'
  <2>1. Tasks!TaskStep(id)
    BY <1>7 DEF RunTask, TaskStep
  <2>2. CASE Tasks!LeaveLoop(id) \/ Tasks!Park(id)
    BY <2>2, <1>1, <1>3, SubmitTells
  <2>3. CASE Tasks!Start(id)
    <3>1. 0 \in Nat
      OBVIOUS
    <3>2. QED
      BY <2>3, <3>1, <1>1, <1>4, <1>5, StartTells
  <2>4. CASE Tasks!Cancel(id) \/ Tasks!Succeed(id) \/ Tasks!Fail(id)
    <3>1. PICK phase \in Tasks!Ended : Tasks!Leave(id, phase)
      BY <2>4 DEF Tasks!Cancel, Tasks!Succeed, Tasks!Fail, Tasks!Ended
    <3>2. pc[id] \notin {"unused"} \union Tasks!Ended
      BY <2>4 DEF Tasks!Cancel, Tasks!Succeed, Tasks!Fail, Tasks!Ended
    <3>3. PICK n \in Nat : /\ events' = Append(events, Tasks!TaskFinished(id, n))
                           /\ TasksKept' /\ Tells(Tasks!TaskFinished(id, n))
      BY <3>1, <3>2, <1>1, LeaveTells
    <3>4. QED
      BY <3>3, <1>4, <1>5
  <2>5. QED
    BY <2>1, <2>2, <2>3, <2>4 DEF Tasks!TaskStep
<1>8. QED
  BY <1>1, <1>6, <1>7

-----------------------------------------------------------------------------
(* The steps of the progress service.                                      *)

\* Its events say nothing of the tasks, and each one of one thing.
LEMMA ProgressEvents ==
    /\ \A s \in Stage :
          /\ StageChanged(s) \in AnyEvent /\ ToStage(StageChanged(s)) /\ StageChanged(s).stage = s
          /\ \A i : ~About(StageChanged(s), i)
          /\ \A i : ~StartOf(StageChanged(s), i) /\ ~EndOf(StageChanged(s), i)
    /\ \A p \in ProgressType :
          /\ ProgressChanged(p) \in AnyEvent /\ ~ToStage(ProgressChanged(p))
          /\ Said(ProgressChanged(p)) = {p}
          /\ \A i : About(ProgressChanged(p), i) <=> i = p.scope
          /\ \A i : ~StartOf(ProgressChanged(p), i) /\ ~EndOf(ProgressChanged(p), i)
    /\ \A s \in Scopes :
          /\ ProgressFinished(s) \in AnyEvent /\ ~ToStage(ProgressFinished(s))
          /\ Said(ProgressFinished(s)) = {}
          /\ \A i : About(ProgressFinished(s), i) <=> i = s
          /\ \A i : ~StartOf(ProgressFinished(s), i) /\ ~EndOf(ProgressFinished(s), i)
<1>1. ASSUME NEW s \in Stage
      PROVE  /\ StageChanged(s) \in AnyEvent
             /\ StageChanged(s).type = "StageChanged" /\ StageChanged(s).stage = s
  BY DEF StageChanged, AnyEvent, Event
<1>2. ASSUME NEW p \in ProgressType
      PROVE  /\ ProgressChanged(p) \in AnyEvent
             /\ ProgressChanged(p).type = "ProgressChanged" /\ ProgressChanged(p).progress = p
  BY DEF ProgressChanged, AnyEvent, Event
<1>3. ASSUME NEW s \in Scopes
      PROVE  /\ ProgressFinished(s) \in AnyEvent
             /\ ProgressFinished(s).type = "ProgressFinished" /\ ProgressFinished(s).scope = s
  BY DEF ProgressFinished, AnyEvent, Event
<1>4. QED
  BY <1>1, <1>2, <1>3 DEF ToStage, About, Said, StartOf, EndOf

\* Whatever is reported, the copy of a client is as right as before.
LEMMA ReportKeeps ==
    ASSUME MonitorInv, Report
    PROVE  /\ stage' \in Stage /\ ListOK' /\ reported' \in 0 .. MaxEvents
           /\ events' \in Seq(AnyEvent)
           /\ Sent' /\ Shown'
           /\ UNCHANGED <<taskVars, socketVars, clientVars>>
<1>1. /\ UNCHANGED <<taskVars, socketVars, clientVars>>
      /\ pc' = pc /\ metadata' = metadata /\ ClientStays
      /\ reported' = reported + 1 /\ reported < MaxEvents
  BY DEF Report, taskVars, socketVars, clientVars, ClientStays
<1>2. events \in Seq(AnyEvent) /\ stage \in Stage /\ ListOK /\ reported \in 0 .. MaxEvents
  BY DEF MonitorInv, Typed, MonitorTypeOK
<1>3. reported' \in 0 .. MaxEvents
  BY <1>1, <1>2, BoundsAssumption
<1>4. PICK e \in AnyEvent :
        /\ events' = Append(events, e) /\ stage' \in Stage /\ ListOK'
        /\ IF ToStage(e) THEN stage' = e.stage ELSE stage' = stage
        /\ \A s \in Scopes : OfScope(s)' = IF About(e, s) THEN Said(e) ELSE OfScope(s)
        /\ \A id : ~StartOf(e, id) /\ ~EndOf(e, id)
  <2>1. CASE SetStage("installing")
    <3>1. /\ "installing" \in Stage /\ progresses' = progresses
          /\ stage' = "installing" /\ events' = Append(events, StageChanged("installing"))
      BY <2>1 DEF SetStage, Send, Stage
    <3>2. ListOK' /\ \A s : OfScope(s)' = OfScope(s)
      BY <3>1, <1>2 DEF ListOK, UniqueScopes, StepInRange, OfScope
    <3>3. QED
      BY <3>1, <3>2, ProgressEvents
  <2>2. ASSUME NEW scope \in Scopes, Start(scope, MaxSize) \/ Advance(scope)
        PROVE  \E e \in AnyEvent :
                  /\ events' = Append(events, e) /\ stage' \in Stage /\ ListOK'
                  /\ IF ToStage(e) THEN stage' = e.stage ELSE stage' = stage
                  /\ \A s \in Scopes : OfScope(s)' = IF About(e, s) THEN Said(e) ELSE OfScope(s)
                  /\ \A id : ~StartOf(e, id) /\ ~EndOf(e, id)
    <3>1. MaxSize \in 0 .. MaxSize
      BY BoundsAssumption
    <3>2. PICK p \in ProgressType :
              /\ p.scope = scope /\ ListOK'
              /\ \A s : OfScope(s)' = IF s = scope THEN {p} ELSE OfScope(s)
              /\ Send(ProgressChanged(p)) /\ UNCHANGED stage
      BY <2>2, <3>1, <1>2, Announced
    <3>3. events' = Append(events, ProgressChanged(p))
      BY <3>2 DEF Send
    <3>4. QED
      BY <3>2, <3>3, <1>2, ProgressEvents
  <2>3. ASSUME NEW scope \in Scopes, Finish(scope)
        PROVE  \E e \in AnyEvent :
                  /\ events' = Append(events, e) /\ stage' \in Stage /\ ListOK'
                  /\ IF ToStage(e) THEN stage' = e.stage ELSE stage' = stage
                  /\ \A s \in Scopes : OfScope(s)' = IF About(e, s) THEN Said(e) ELSE OfScope(s)
                  /\ \A id : ~StartOf(e, id) /\ ~EndOf(e, id)
    <3>1. /\ HasProgress(progresses, scope) /\ progresses' = Removed(progresses, scope)
          /\ events' = Append(events, ProgressFinished(scope)) /\ stage' = stage
      BY <2>3 DEF Finish, Send
    <3>2. ListOK' /\ \A s : OfScope(s)' = IF s = scope THEN {} ELSE OfScope(s)
      BY <3>1, <1>2, RemovedKeeps
    <3>3. QED
      BY <3>1, <3>2, <1>2, ProgressEvents
  <2>4. QED
    BY <2>1, <2>2, <2>3 DEF Report
<1>5. Tells(e)
  BY <1>1, <1>4 DEF Tells
<1>6. Sent' /\ Shown' /\ events' \in Seq(AnyEvent)
  BY <1>1, <1>2, <1>4, <1>5, TellingKeeps
<1>7. QED
  BY <1>1, <1>3, <1>4, <1>6

-----------------------------------------------------------------------------
(* The steps of the client.                                                *)

ViewType == [stage : Stage, progresses : SUBSET ProgressType, tasks : SUBSET Tasks!TaskIds]
ShownOf(v, s) == {p \in v.progresses : p.scope = s}

\* An event replaces in the copy what it is about, and leaves the rest.
LEMMA AppliedDoes ==
    ASSUME NEW v \in ViewType, NEW e \in AnyEvent
    PROVE  /\ Applied(v, e) \in ViewType
           /\ Applied(v, e).stage = IF ToStage(e) THEN e.stage ELSE v.stage
           /\ \A s \in Scopes : ShownOf(Applied(v, e), s) = IF About(e, s) THEN Said(e) ELSE ShownOf(v, s)
           /\ \A id \in Tasks!TaskIds :
                id \in Applied(v, e).tasks <=> StartOf(e, id) \/ (id \in v.tasks /\ ~EndOf(e, id))
<1> DEFINE Does(w) ==
        /\ w \in ViewType
        /\ w.stage = IF ToStage(e) THEN e.stage ELSE v.stage
        /\ \A s \in Scopes : ShownOf(w, s) = IF About(e, s) THEN Said(e) ELSE ShownOf(v, s)
        /\ \A id \in Tasks!TaskIds :
              id \in w.tasks <=> StartOf(e, id) \/ (id \in v.tasks /\ ~EndOf(e, id))
<1>1. \/ e.type = "StageChanged" /\ e.stage \in Stage
      \/ e.type = "ProgressChanged" /\ e.progress \in ProgressType
      \/ e.type = "ProgressFinished" /\ e.scope \in Scopes
      \/ e.type = "TaskAdded"
      \/ e.type = "TaskStarted" /\ e.task \in Tasks!TaskIds
      \/ e.type = "TaskFinished" /\ e.task \in Tasks!TaskIds
  BY DEF AnyEvent, Event, Tasks!Event
<1>2. CASE e.type = "StageChanged" /\ e.stage \in Stage
  <2>1. Applied(v, e) = [v EXCEPT !.stage = e.stage]
    BY <1>2 DEF Applied
  <2>2. QED
    BY <1>2, <2>1 DEF ViewType, ToStage, About, Said, StartOf, EndOf, ShownOf
<1>3. CASE e.type = "ProgressChanged" /\ e.progress \in ProgressType
  <2>1. Applied(v, e) = [v EXCEPT !.progresses =
                {p \in @ : p.scope # e.progress.scope} \union {e.progress}]
    BY <1>3 DEF Applied
  <2>2. /\ Applied(v, e) \in ViewType
        /\ Applied(v, e).stage = v.stage /\ Applied(v, e).tasks = v.tasks
        /\ Applied(v, e).progresses =
              {p \in v.progresses : p.scope # e.progress.scope} \union {e.progress}
    BY <1>3, <2>1 DEF ViewType
  <2>3. ASSUME NEW s \in Scopes
        PROVE  ShownOf(Applied(v, e), s) = IF About(e, s) THEN Said(e) ELSE ShownOf(v, s)
    <3>1. About(e, s) <=> e.progress.scope = s
      BY <1>3 DEF About
    <3>2. Said(e) = {e.progress}
      BY <1>3 DEF Said
    <3>3. QED
      BY <2>2, <3>1, <3>2 DEF ShownOf
  <2>4. QED
    BY <1>3, <2>2, <2>3 DEF ToStage, StartOf, EndOf
<1>4. CASE e.type = "ProgressFinished" /\ e.scope \in Scopes
  <2>1. Applied(v, e) = [v EXCEPT !.progresses = {p \in @ : p.scope # e.scope}]
    BY <1>4 DEF Applied
  <2>2. /\ Applied(v, e) \in ViewType
        /\ Applied(v, e).stage = v.stage /\ Applied(v, e).tasks = v.tasks
        /\ Applied(v, e).progresses = {p \in v.progresses : p.scope # e.scope}
    BY <1>4, <2>1 DEF ViewType
  <2>3. ASSUME NEW s \in Scopes
        PROVE  ShownOf(Applied(v, e), s) = IF About(e, s) THEN Said(e) ELSE ShownOf(v, s)
    <3>1. About(e, s) <=> e.scope = s
      BY <1>4 DEF About
    <3>2. Said(e) = {}
      BY <1>4 DEF Said
    <3>3. QED
      BY <2>2, <3>1, <3>2 DEF ShownOf
  <2>4. QED
    BY <1>4, <2>2, <2>3 DEF ToStage, StartOf, EndOf
<1>5. CASE e.type = "TaskAdded"
  <2>1. Applied(v, e) = v
    BY <1>5 DEF Applied
  <2>2. QED
    BY <1>5, <2>1 DEF ToStage, About, StartOf, EndOf
<1>6. CASE e.type = "TaskStarted" /\ e.task \in Tasks!TaskIds
  <2>1. Applied(v, e) = [v EXCEPT !.tasks = @ \union {e.task}]
    BY <1>6 DEF Applied
  <2>2. QED
    BY <1>6, <2>1 DEF ViewType, ToStage, About, StartOf, EndOf, ShownOf
<1>7. CASE e.type = "TaskFinished" /\ e.task \in Tasks!TaskIds
  <2>1. Applied(v, e) = [v EXCEPT !.tasks = @ \ {e.task}]
    BY <1>7 DEF Applied
  <2>2. QED
    BY <1>7, <2>1 DEF ViewType, ToStage, About, StartOf, EndOf, ShownOf
<1>8. QED
  BY <1>1, <1>2, <1>3, <1>4, <1>5, <1>6, <1>7

\* What is left to read still says what there is.
LEMMA ReadingKeepsSent ==
    ASSUME MonitorInv, events # <<>>, events' = Tail(events), UNCHANGED serverVars
    PROVE  Sent'
<1>1. /\ \A k \in DOMAIN events' :
            k \in Nat /\ k + 1 \in DOMAIN events /\ events'[k] = events[k + 1]
      /\ \A k \in DOMAIN events :
            k # 1 => k - 1 \in DOMAIN events' /\ events'[k - 1] = events[k] /\ k > 1
      /\ \A k \in DOMAIN events : k \in Nat /\ 1 <= k
  BY Reading DEF MonitorInv, Typed
<1>2. /\ stage' = stage /\ progresses' = progresses /\ pc' = pc /\ metadata' = metadata
      /\ \A s : OfScope(s)' = OfScope(s)
  BY DEF serverVars, taskVars, progressVars, OfScope
<1>3. \* An event after another one that is left is left as well.
      ASSUME NEW k \in DOMAIN events', NEW j \in DOMAIN events, j > k + 1
      PROVE  j - 1 \in DOMAIN events' /\ j - 1 > k /\ events'[j - 1] = events[j]
  BY <1>1, <1>3
<1>4. StageSent'
  <2> SUFFICES ASSUME NEW k \in DOMAIN events', ToStage(events'[k]),
                      \A j \in DOMAIN events' : j > k => ~ToStage(events'[j])
               PROVE  events'[k].stage = stage'
    BY DEF StageSent, ToStage
  <2>1. \A j \in DOMAIN events : j > k + 1 => ~ToStage(events[j])
    BY <1>3
  <2>2. QED
    BY <2>1, <1>1, <1>2 DEF MonitorInv, StageSent
<1>5. ScopeSent'
  <2> SUFFICES ASSUME NEW s \in Scopes, NEW k \in DOMAIN events', About(events'[k], s),
                      \A j \in DOMAIN events' : j > k => ~About(events'[j], s)
               PROVE  OfScope(s)' = Said(events'[k])
    BY DEF ScopeSent, About, Said
  <2>1. \A j \in DOMAIN events : j > k + 1 => ~About(events[j], s)
    BY <1>3
  <2>2. QED
    BY <2>1, <1>1, <1>2 DEF MonitorInv, ScopeSent
<1>6. TasksSent'
  <2> SUFFICES ASSUME NEW id \in Tasks!TaskIds, NEW k \in DOMAIN events'
               PROVE  /\ EndOf(events'[k], id) => pc'[id] \in Tasks!Ended
                      /\ StartOf(events'[k], id) /\ id \notin metadata' =>
                            \E j \in DOMAIN events' : j > k /\ EndOf(events'[j], id)
    BY DEF TasksSent, StartOf, EndOf
  <2>1. /\ EndOf(events[k + 1], id) => pc[id] \in Tasks!Ended
        /\ StartOf(events[k + 1], id) /\ id \notin metadata =>
              \E j \in DOMAIN events : j > k + 1 /\ EndOf(events[j], id)
    BY <1>1 DEF MonitorInv, TasksSent
  <2>2. QED
    BY <2>1, <1>1, <1>2, <1>3
<1>7. QED
  BY <1>4, <1>5, <1>6 DEF Sent

\* The monitor applies an event: it is right about what the event is about if no other one
\* about that is left, and about the rest as before.
LEMMA HandlingKeepsShown ==
    ASSUME MonitorInv, HandleEvent
    PROVE  Shown' /\ view' \in ViewType
<1>1. /\ events # <<>> /\ events' = Tail(events) /\ at = "watching"
      /\ view' = Applied(view, Head(events))
      /\ UNCHANGED <<serverVars, closed, client, early>>
  BY DEF HandleEvent, Received, socketVars
<1>2. PICK e \in AnyEvent : /\ e = events[1] /\ 1 \in DOMAIN events
                            /\ view' = Applied(view, e)
  BY <1>1, Reading DEF MonitorInv, Typed
<1>3. /\ \A k \in DOMAIN events :
            k # 1 => k - 1 \in DOMAIN events' /\ events'[k - 1] = events[k] /\ k > 1
      /\ \A k \in DOMAIN events : k \in Nat /\ 1 <= k
  BY <1>1, Reading DEF MonitorInv, Typed
<1>4. view \in ViewType
  BY DEF MonitorInv, Typed, ViewType
<1>5. PICK w : w = view'
  OBVIOUS
<1>6. /\ w \in ViewType
      /\ w.stage = IF ToStage(e) THEN e.stage ELSE view.stage
      /\ \A s \in Scopes : ShownOf(w, s) = IF About(e, s) THEN Said(e) ELSE ShownOf(view, s)
      /\ \A id \in Tasks!TaskIds :
            id \in w.tasks <=> StartOf(e, id) \/ (id \in view.tasks /\ ~EndOf(e, id))
  BY <1>2, <1>4, <1>5, AppliedDoes
<1>7. /\ stage' = stage /\ progresses' = progresses /\ pc' = pc /\ metadata' = metadata
      /\ \A s : OfScope(s)' = OfScope(s)
  BY <1>1 DEF serverVars, taskVars, progressVars, OfScope
<1>8. Following' => Following
  BY <1>1 DEF Following
<1>9. StageShown'
  <2> SUFFICES ASSUME Following', \A k \in DOMAIN events' : ~ToStage(events'[k])
               PROVE  view'.stage = stage'
    BY DEF StageShown, ToStage
  <2>1. \A k \in DOMAIN events : k # 1 => ~ToStage(events[k])
    BY <1>3
  <2>2. CASE ToStage(e)
    <3>1. events[1].stage = stage
      BY <2>1, <2>2, <1>2, <1>3 DEF MonitorInv, StageSent
    <3>2. QED
      BY <3>1, <2>2, <1>2, <1>5, <1>6, <1>7
  <2>3. CASE ~ToStage(e)
    <3>1. view.stage = stage
      BY <2>1, <2>3, <1>1, <1>2, <1>8 DEF MonitorInv, StageShown
    <3>2. QED
      BY <3>1, <2>3, <1>5, <1>6, <1>7
  <2>4. QED
    BY <2>2, <2>3
<1>10. ScopeShown'
  <2> SUFFICES ASSUME Following', NEW s \in Scopes, \A k \in DOMAIN events' : ~About(events'[k], s)
               PROVE  ShownOf(view', s) = OfScope(s)'
    BY DEF ScopeShown, About, ShownOf
  <2>1. \A k \in DOMAIN events : k # 1 => ~About(events[k], s)
    BY <1>3
  <2>2. ShownOf(view', s) = ShownOf(w, s)
    BY <1>5
  <2>3. CASE About(e, s)
    <3>1. OfScope(s) = Said(events[1])
      BY <2>1, <2>3, <1>2, <1>3 DEF MonitorInv, ScopeSent
    <3>2. QED
      BY <3>1, <2>2, <2>3, <1>2, <1>6, <1>7
  <2>4. CASE ~About(e, s)
    <3>1. ShownOf(view, s) = OfScope(s)
      BY <2>1, <2>4, <1>1, <1>2, <1>8 DEF MonitorInv, ScopeShown, ShownOf
    <3>2. QED
      BY <3>1, <2>2, <2>4, <1>6, <1>7
  <2>5. QED
    BY <2>3, <2>4
<1>11. TasksShown'
  <2> SUFFICES ASSUME Following', NEW id \in Tasks!TaskIds
               PROVE  /\ pc'[id] = "running" =>
                            id \in view'.tasks \/ \E k \in DOMAIN events' : StartOf(events'[k], id)
                      /\ id \in view'.tasks =>
                            id \in metadata' \/ \E k \in DOMAIN events' : EndOf(events'[k], id)
    BY DEF TasksShown, StartOf, EndOf
  <2>1. /\ pc[id] = "running" =>
              id \in view.tasks \/ \E k \in DOMAIN events : StartOf(events[k], id)
        /\ id \in view.tasks =>
              id \in metadata \/ \E k \in DOMAIN events : EndOf(events[k], id)
    BY <1>1, <1>8 DEF MonitorInv, TasksShown
  <2>2. /\ EndOf(e, id) => pc[id] \in Tasks!Ended
        /\ StartOf(e, id) /\ id \notin metadata =>
              \E j \in DOMAIN events : j > 1 /\ EndOf(events[j], id)
    BY <1>2 DEF MonitorInv, TasksSent
  <2>3. ASSUME pc[id] = "running"
        PROVE  id \in w.tasks \/ \E k \in DOMAIN events' : StartOf(events'[k], id)
    <3>1. ~EndOf(e, id)
      BY <2>2, <2>3 DEF Tasks!Ended
    <3>2. QED
      BY <3>1, <2>1, <2>3, <1>2, <1>3, <1>6
  <2>4. ASSUME id \in w.tasks, id \notin metadata
        PROVE  \E k \in DOMAIN events' : EndOf(events'[k], id)
    <3>1. PICK j \in DOMAIN events : j # 1 /\ EndOf(events[j], id)
      <4>1. CASE StartOf(e, id)
        BY <4>1, <2>2, <2>4, <1>3
      <4>2. CASE ~StartOf(e, id)
        BY <4>2, <2>1, <2>4, <1>2, <1>6
      <4>3. QED
        BY <4>1, <4>2
    <3>2. QED
      BY <3>1, <1>3
  <2>5. QED
    BY <2>3, <2>4, <1>5, <1>7
<1>12. QED
  BY <1>5, <1>6, <1>9, <1>10, <1>11 DEF Shown

\* What the manager answers is right about the tasks when it has read them, ...
LEMMA GetTasksKeeps ==
    ASSUME MonitorInv, GetTasks
    PROVE  MonitorInv'
<1>1. /\ at = "asking" /\ at' = "answered" /\ view' = [view EXCEPT !.tasks = metadata]
      /\ early' = subscribed
      /\ UNCHANGED <<stage, progresses, reported, pc, metadata, next_id, events, subscribed,
                     closed, client, seen_busy>>
  BY DEF GetTasks, serverVars, taskVars, progressVars, socketVars
<1>2. view' \in ViewType /\ view'.tasks = metadata
  BY <1>1 DEF MonitorInv, Typed, TasksKept, ViewType
<1>3. Typed'
  BY <1>1, <1>2 DEF MonitorInv, Typed, MonitorTypeOK, ViewType, At
<1>4. TasksKept' /\ ListOK' /\ EarlyIsSubscribed'
  BY <1>1 DEF MonitorInv, TasksKept, ListOK, UniqueScopes, StepInRange, EarlyIsSubscribed
<1>5. Sent'
  BY <1>1 DEF MonitorInv, Sent, StageSent, ToStage, ScopeSent, About, Said, OfScope, TasksSent,
              StartOf, EndOf
<1>6. Shown'
  BY <1>1, <1>2 DEF MonitorInv, TasksKept, Shown, TasksShown, StageShown, ScopeShown
<1>7. QED
  BY <1>3, <1>4, <1>5, <1>6 DEF MonitorInv, Sent, Shown

\* ... and about the stage and the progress when it has read those.
LEMMA GetProgressKeeps ==
    ASSUME MonitorInv, GetProgress
    PROVE  MonitorInv'
<1>1. /\ at = "answered" /\ at' \in {"watching", "finished"}
      /\ view' = [Status EXCEPT !.tasks = view.tasks]
      /\ seen_busy' \in BOOLEAN
      /\ UNCHANGED <<stage, progresses, reported, pc, metadata, next_id, events, subscribed,
                     closed, client, early>>
  BY DEF GetProgress, serverVars, taskVars, progressVars, socketVars, MonitorInv, Typed,
         MonitorTypeOK, Idle
<1>2. view'.tasks = view.tasks /\ view'.stage = stage /\ view'.progresses = ToSet(progresses)
  BY <1>1 DEF Status
<1>3. view' \in ViewType
  <2>1. ToSet(progresses) \subseteq ProgressType
    BY DEF MonitorInv, ListOK, ToSet
  <2>2. QED
    BY <1>1, <2>1 DEF Status, MonitorInv, Typed, ViewType
<1>4. Typed'
  BY <1>1, <1>3 DEF MonitorInv, Typed, MonitorTypeOK, ViewType, At, Over
<1>5. TasksKept' /\ ListOK' /\ EarlyIsSubscribed'
  BY <1>1 DEF MonitorInv, TasksKept, ListOK, UniqueScopes, StepInRange, EarlyIsSubscribed
<1>6. Sent'
  BY <1>1 DEF MonitorInv, Sent, StageSent, ToStage, ScopeSent, About, Said, OfScope, TasksSent,
              StartOf, EndOf
<1>7. TasksShown'
  BY <1>1, <1>2 DEF MonitorInv, TasksShown, Following, StartOf, EndOf
<1>8. StageShown' /\ ScopeShown'
  BY <1>1, <1>2 DEF StageShown, ScopeShown, OfScope
<1>9. QED
  BY <1>4, <1>5, <1>6, <1>7, <1>8 DEF MonitorInv, Sent

\* An event that is read.
LEMMA EventReadKeeps ==
    ASSUME MonitorInv, HandleEvent \/ WaitForEvent
    PROVE  MonitorInv'
<1>1. /\ events # <<>> /\ events' = Tail(events)
      /\ at = "watching" /\ at' \in {"watching", "asking", "finished"}
      /\ seen_busy' \in BOOLEAN
      /\ UNCHANGED <<serverVars, subscribed, closed, client, early>>
  BY DEF HandleEvent, WaitForEvent, Received, socketVars, MonitorInv, Typed, MonitorTypeOK
<1>2. /\ UNCHANGED <<stage, progresses, reported, pc, metadata, next_id>>
  BY <1>1 DEF serverVars, taskVars, progressVars
<1>3. events' \in Seq(AnyEvent)
  BY <1>1, Reading DEF MonitorInv, Typed
<1>4. Shown' /\ view' \in ViewType
  <2>1. CASE HandleEvent
    BY <2>1, HandlingKeepsShown
  <2>2. CASE WaitForEvent
    BY <2>2, <1>1 DEF WaitForEvent, Shown, TasksShown, StageShown, ScopeShown, Following,
                      MonitorInv, Typed, ViewType
  <2>3. QED
    BY <2>1, <2>2
<1>5. Typed'
  BY <1>1, <1>2, <1>3, <1>4 DEF MonitorInv, Typed, MonitorTypeOK, ViewType, At, Over, AnyEvent
<1>6. TasksKept' /\ ListOK' /\ EarlyIsSubscribed'
  BY <1>1, <1>2 DEF MonitorInv, TasksKept, ListOK, UniqueScopes, StepInRange, EarlyIsSubscribed
<1>7. Sent'
  BY <1>1, ReadingKeepsSent
<1>8. QED
  BY <1>4, <1>5, <1>6, <1>7 DEF MonitorInv, Sent, Shown

\* The events are dropped only before the subscription, when the client is promised nothing.
LEMMA DroppingKeeps ==
    ASSUME MonitorInv, Unheard \/ Subscribe
    PROVE  MonitorInv'
<1>1. /\ events' = <<>> /\ ~subscribed /\ subscribed' \in BOOLEAN
      /\ UNCHANGED <<serverVars, closed, clientVars>>
  BY DEF Unheard, Subscribe, socketVars, MonitorInv, Typed, MonitorTypeOK
<1>2. /\ UNCHANGED <<stage, progresses, reported, pc, metadata, next_id>>
      /\ UNCHANGED <<client, at, view, seen_busy, early>>
  BY <1>1 DEF serverVars, taskVars, progressVars, clientVars
<1>3. ~early /\ EarlyIsSubscribed'
  BY <1>1, <1>2 DEF MonitorInv, EarlyIsSubscribed
<1>4. events' \in Seq(AnyEvent) /\ DOMAIN events' = {}
  BY <1>1
<1>5. Typed'
  BY <1>1, <1>2, <1>4 DEF MonitorInv, Typed, MonitorTypeOK
<1>6. TasksKept' /\ ListOK'
  BY <1>2 DEF MonitorInv, TasksKept, ListOK, UniqueScopes, StepInRange
<1>7. Sent' /\ Shown'
  BY <1>2, <1>3, <1>4 DEF Sent, StageSent, ScopeSent, TasksSent, Shown, TasksShown, StageShown,
                          ScopeShown, Following
<1>8. QED
  BY <1>3, <1>5, <1>6, <1>7 DEF MonitorInv, Sent, Shown

\* The connection is made, dropped or found to be gone.
LEMMA ConnectionKeeps ==
    ASSUME MonitorInv, Connect \/ LoseConnection \/ DropSocket
    PROVE  MonitorInv'
<1>1. /\ UNCHANGED <<serverVars, events, subscribed, client, view, seen_busy, early>>
      /\ at' = at \/ at' \in {"asking", "cut"}
      /\ closed' = closed \/ closed' = TRUE
  BY DEF Connect, LoseConnection, DropSocket, clientVars, socketVars
<1>2. UNCHANGED <<stage, progresses, reported, pc, metadata, next_id>>
  BY <1>1 DEF serverVars, taskVars, progressVars
<1>3. Typed'
  BY <1>1, <1>2 DEF MonitorInv, Typed, MonitorTypeOK, At, Over
<1>4. TasksKept' /\ ListOK' /\ EarlyIsSubscribed'
  BY <1>1, <1>2 DEF MonitorInv, TasksKept, ListOK, UniqueScopes, StepInRange, EarlyIsSubscribed
<1>5. Sent'
  BY <1>1, <1>2 DEF MonitorInv, Sent, StageSent, ToStage, ScopeSent, About, Said, OfScope,
                    TasksSent, StartOf, EndOf
<1>6. Following' => Following
  BY <1>1 DEF Following, MonitorInv, Typed, MonitorTypeOK
<1>7. Shown'
  BY <1>1, <1>2, <1>6 DEF MonitorInv, Shown, TasksShown, StageShown, ScopeShown, ToStage, About,
                          OfScope, StartOf, EndOf
<1>8. QED
  BY <1>3, <1>4, <1>5, <1>7 DEF MonitorInv, Sent, Shown

LEMMA MonitorInitInv == MonitorInit => MonitorInv
<1> SUFFICES ASSUME MonitorInit
             PROVE  MonitorInv
  OBVIOUS
<1>1. /\ next_id = 0 /\ metadata = {} /\ pc = [id \in Tasks!TaskIds |-> "unused"]
      /\ events = <<>> /\ stage = "configuring" /\ reported = 0
      /\ subscribed = FALSE /\ closed = FALSE /\ client \in {"monitor", "waiter"}
      /\ at = "away" /\ view = Status /\ seen_busy = FALSE /\ early = FALSE
  BY DEF MonitorInit, Tasks!Init
<1>2. ListOK
  <2>1. CASE progresses = <<>>
    BY <2>1 DEF ListOK, UniqueScopes, StepInRange
  <2>2. CASE \E s \in Scopes : progresses = <<NewProgress(s, MaxSize)>>
    <3>1. PICK s \in Scopes : progresses = <<NewProgress(s, MaxSize)>>
      BY <2>2
    <3>2. PICK p \in ProgressType : /\ p = NewProgress(s, MaxSize)
                                    /\ p.index = 1 /\ p.size \in Nat
      <4>1. /\ NewProgress(s, MaxSize) \in ProgressType
            /\ NewProgress(s, MaxSize).index = 1 /\ NewProgress(s, MaxSize).size \in Nat
        BY BoundsAssumption DEF NewProgress, ProgressType
      <4>2. QED
        BY <4>1
    <3>3. progresses = <<p>>
      BY <3>1, <3>2
    <3>4. /\ progresses \in Seq(ProgressType) /\ DOMAIN progresses = {1} /\ progresses[1] = p
      BY <3>3
    <3>5. QED
      BY <3>2, <3>4 DEF ListOK, UniqueScopes, StepInRange
  <2>3. QED
    BY <2>1, <2>2 DEF MonitorInit
<1>3. Typed
  <2>1. ToSet(progresses) \subseteq ProgressType
    BY <1>2 DEF ListOK, ToSet
  <2>2. view \in ViewType
    BY <1>1, <2>1 DEF Status, ViewType, Stage
  <2>3. events \in Seq(AnyEvent) /\ DOMAIN events = {}
    BY <1>1
  <2>4. /\ view.stage \in Stage /\ view.tasks \subseteq Tasks!TaskIds
        /\ \A p \in view.progresses : p \in ProgressType
    BY <2>2 DEF ViewType
  <2>5. reported \in 0 .. MaxEvents
    BY <1>1, BoundsAssumption
  <2>6. MonitorTypeOK
    BY <1>1, <2>3, <2>4, <2>5 DEF MonitorTypeOK, At
  <2>7. QED
    BY <1>1, <2>2, <2>3, <2>6 DEF Typed, ViewType, Stage
<1>4. TasksKept
  BY <1>1, MonitorAssumption DEF TasksKept, Tasks!PC, Tasks!TaskIds, Tasks!Pending
<1>5. Sent /\ Shown /\ EarlyIsSubscribed
  <2>1. DOMAIN events = {}
    BY <1>1
  <2>2. QED
    BY <1>1, <2>1 DEF Sent, StageSent, ScopeSent, TasksSent, Shown, TasksShown, StageShown,
                      ScopeShown, Following, EarlyIsSubscribed
<1>6. QED
  BY <1>2, <1>3, <1>4, <1>5 DEF MonitorInv, Sent, Shown

LEMMA MonitorInductive == MonitorInv /\ [MonitorNext]_monitorVars => MonitorInv'
<1> SUFFICES ASSUME MonitorInv, [MonitorNext]_monitorVars
             PROVE  MonitorInv'
  OBVIOUS
<1>1. CASE UNCHANGED monitorVars
  <2>1. /\ UNCHANGED <<stage, progresses, reported, pc, metadata, next_id, events, subscribed,
                       closed, client, at, view, seen_busy, early>>
    BY <1>1 DEF monitorVars, serverVars, taskVars, progressVars, socketVars, clientVars
  <2>2. Typed' /\ TasksKept' /\ ListOK' /\ EarlyIsSubscribed'
    BY <2>1 DEF MonitorInv, Typed, MonitorTypeOK, TasksKept, ListOK, UniqueScopes, StepInRange,
                EarlyIsSubscribed
  <2>3. Sent' /\ Shown'
    BY <2>1 DEF MonitorInv, Sent, StageSent, ToStage, ScopeSent, About, Said, OfScope, TasksSent,
                StartOf, EndOf, Shown, TasksShown, StageShown, ScopeShown, Following
  <2>4. QED
    BY <2>2, <2>3 DEF MonitorInv, Sent, Shown
<1>2. CASE Submit \/ \E id \in Tasks!TaskIds : RunTask(id)
  <2>1. /\ events' \in Seq(AnyEvent) /\ TasksKept' /\ Sent' /\ Shown'
        /\ UNCHANGED <<stage, progresses, reported, subscribed, closed, client, at, view,
                       seen_busy, early>>
    BY <1>2, TaskStepKeeps DEF progressVars, socketVars, clientVars
  <2>2. Typed'
    BY <2>1 DEF MonitorInv, Typed, MonitorTypeOK, AnyEvent
  <2>3. ListOK' /\ EarlyIsSubscribed'
    BY <2>1 DEF MonitorInv, ListOK, UniqueScopes, StepInRange, EarlyIsSubscribed
  <2>4. QED
    BY <2>1, <2>2, <2>3 DEF MonitorInv, Sent, Shown
<1>3. CASE Report
  <2>1. /\ stage' \in Stage /\ ListOK' /\ reported' \in 0 .. MaxEvents
        /\ events' \in Seq(AnyEvent) /\ Sent' /\ Shown'
        /\ UNCHANGED <<next_id, metadata, pc, subscribed, closed, client, at, view, seen_busy,
                       early>>
    BY <1>3, ReportKeeps DEF taskVars, socketVars, clientVars
  <2>2. Typed'
    BY <2>1 DEF MonitorInv, Typed, MonitorTypeOK, AnyEvent
  <2>3. TasksKept' /\ EarlyIsSubscribed'
    BY <2>1 DEF MonitorInv, TasksKept, EarlyIsSubscribed
  <2>4. QED
    BY <2>1, <2>2, <2>3 DEF MonitorInv, Sent, Shown
<1>4. QED
  BY <1>1, <1>2, <1>3, DroppingKeeps, ConnectionKeeps, GetTasksKeeps, GetProgressKeeps,
     EventReadKeeps DEF MonitorNext, Server, Socket, Client

LEMMA MonitorInvariant == MonitorSpec => []MonitorInv
BY MonitorInitInv, MonitorInductive, PTL DEF MonitorSpec

\* The socket and the client are always somewhere their code can be, and the copy of the
\* status is one, whatever the tasks and the services do.
THEOREM MonitorTypeCorrect == MonitorSpec => []MonitorTypeOK
<1>1. MonitorInv => MonitorTypeOK
  BY DEF MonitorInv, Typed
<1>2. QED
  BY <1>1, MonitorInvariant, PTL

\* A monitor that was subscribed when it asked and has read every event shows the stage and
\* the progress of the server, the tasks that run and none that ended: although the two
\* reads of its status come between the events, and events that are older than the status
\* are applied to it.
THEOREM ViewConvergesAlways == MonitorSpec => []ViewConverges
<1>1. MonitorInv => ViewConverges
  <2> SUFFICES ASSUME MonitorInv, CaughtUp, client = "monitor"
               PROVE  /\ view.stage = stage
                      /\ view.progresses = ToSet(progresses)
                      /\ {id \in Tasks!TaskIds : pc[id] = "running"} \subseteq view.tasks
                      /\ view.tasks \subseteq metadata
    BY DEF ViewConverges
  <2>1. Following /\ at = "watching" /\ DOMAIN events = {}
    BY DEF CaughtUp, Following
  <2>2. view.stage = stage
    BY <2>1 DEF MonitorInv, StageShown
  <2>3. \A s \in Scopes : ShownOf(view, s) = OfScope(s)
    BY <2>1 DEF MonitorInv, ScopeShown, ShownOf
  <2>4. /\ \A p \in view.progresses : p.scope \in Scopes
        /\ \A p \in ToSet(progresses) : p.scope \in Scopes
        /\ view.tasks \subseteq Tasks!TaskIds
    <3>1. /\ \A p \in view.progresses : p \in ProgressType
          /\ view.tasks \subseteq Tasks!TaskIds
      BY DEF MonitorInv, Typed, MonitorTypeOK
    <3>2. \A p \in ToSet(progresses) : p \in ProgressType
      BY DEF MonitorInv, ListOK, ToSet
    <3>3. QED
      BY <3>1, <3>2 DEF ProgressType
  <2>5. view.progresses = ToSet(progresses)
    <3>1. \A p : p \in view.progresses <=> p \in ToSet(progresses)
      BY <2>3, <2>4 DEF ShownOf, OfScope
    <3>2. QED
      BY <3>1
  <2>6. \A id \in Tasks!TaskIds :
          /\ pc[id] = "running" => id \in view.tasks
          /\ id \in view.tasks => id \in metadata
    BY <2>1 DEF MonitorInv, TasksShown
  <2>7. QED
    BY <2>2, <2>4, <2>5, <2>6
<1>2. QED
  BY <1>1, MonitorInvariant, PTL

=============================================================================
