--------------------------- MODULE QuestionsProofs ---------------------------
(***************************************************************************)
(* Proofs about the questions, for any askers, questions, configurations   *)
(* and answers, and any number of requests of other clients.               *)
(***************************************************************************)
EXTENDS Questions, FiniteSetTheorems, WellFoundedInduction, TLAPS

-----------------------------------------------------------------------------
(* The inductive invariant.                                                *)

\* The service numbered the questions one by one, and each asker has its own.
Numbered == {a \in Askers : asker[a].id # 0}

IdsInOrder ==
    /\ current_id = Cardinality(Numbered)
    /\ DOMAIN questions \subseteq 1 .. current_id
    /\ \A a \in Askers :
          /\ asker[a].id <= current_id
          /\ asker[a].id = 0 <=> asker[a].pc \in {"idle", "asking"}
          /\ asker[a].id = 0 => asker[a].answer = NoAnswer
    /\ \A a, b \in Numbered : asker[a].id = asker[b].id => a = b
    /\ \A i \in DOMAIN mailbox :
          mailbox[i].type \in {"Answer", "Delete"} => mailbox[i].id \in 1 .. current_id

\* An asker waits for the one message that it sent.
Call == {"Ask", "Get"}

OneCallEach ==
    /\ \A i \in DOMAIN mailbox :
          /\ mailbox[i].type = "Ask" => asker[mailbox[i].from].pc = "asking"
          /\ mailbox[i].type = "Get" => asker[mailbox[i].from].pc = "polling"
    /\ \A i, j \in DOMAIN mailbox :
          /\ mailbox[i].type \in Call /\ mailbox[j].type \in Call
          /\ mailbox[i].from = mailbox[j].from
          => i = j

\* A question is deleted by a client, or by its asker when it has the answer.
DeletionsDue ==
    \A i \in DOMAIN mailbox : mailbox[i].type = "Delete" =>
        \/ mailbox[i].id \in removed
        \/ \E b \in Askers : asker[b].id = mailbox[i].id /\ asker[b].pc = "answered"

\* While its asker waits, a question is in the list unless a client deleted it.
InListOrDeleted ==
    \A a \in Askers :
        /\ asker[a].pc \in Waiting \ {"asking"} => asker[a].id \in DOMAIN questions \union removed
        /\ asker[a].answer = Missing => asker[a].id \in removed \ DOMAIN questions

\* The answers that the list and the askers hold were given to those questions.
AnswersWereGiven ==
    /\ \A id \in DOMAIN questions :
          questions[id].answer \in Answers => <<id, questions[id].answer>> \in given
    /\ \A a \in Askers :
          /\ asker[a].answer \in Answers => <<asker[a].id, asker[a].answer>> \in given
          /\ asker[a].pc = "answered" => asker[a].answer \in Answers

LeftoversDue ==
    \A id \in DOMAIN questions :
        \/ \E a \in Askers : asker[a].id = id /\ asker[a].pc \in Waiting
        \/ \E i \in DOMAIN mailbox : mailbox[i] = [type |-> "Delete", id |-> id]

IInv ==
    /\ TypeOK
    /\ IdsInOrder
    /\ OneCallEach
    /\ DeletionsDue
    /\ InListOrDeleted
    /\ AnswersWereGiven
    /\ LeftoversDue

-----------------------------------------------------------------------------
(* The mailbox.                                                            *)

\* The service takes the first message, and the others move one place.
LEMMA ReceiveTyped ==
    ASSUME mailbox \in Seq(Message), NEW type, Receive(type)
    PROVE  /\ mailbox' \in Seq(Message)
           /\ Head(mailbox) \in Message
           /\ Head(mailbox).type = type
           /\ 1 \in DOMAIN mailbox /\ Head(mailbox) = mailbox[1]
           /\ \A k \in DOMAIN mailbox' :
                 k \in Nat /\ k # 0 /\ k + 1 \in DOMAIN mailbox /\ mailbox'[k] = mailbox[k + 1]
           /\ \A j \in DOMAIN mailbox :
                 j # 1 => j - 1 \in DOMAIN mailbox' /\ mailbox'[j - 1] = mailbox[j]
<1>1. mailbox # <<>> /\ mailbox' = Tail(mailbox) /\ Head(mailbox).type = type
  BY DEF Receive
<1>2. /\ mailbox' \in Seq(Message)
      /\ Head(mailbox) \in Message
      /\ 1 \in DOMAIN mailbox /\ Head(mailbox) = mailbox[1]
  BY <1>1
<1>3. /\ DOMAIN mailbox' = 1 .. (Len(mailbox) - 1)
      /\ DOMAIN mailbox = 1 .. Len(mailbox)
      /\ Len(mailbox) \in Nat
      /\ \A k \in 1 .. (Len(mailbox) - 1) : mailbox'[k] = mailbox[k + 1]
  BY <1>1
<1>4. ASSUME NEW k \in DOMAIN mailbox'
      PROVE  k \in Nat /\ k # 0 /\ k + 1 \in DOMAIN mailbox /\ mailbox'[k] = mailbox[k + 1]
  BY <1>3
<1>5. ASSUME NEW j \in DOMAIN mailbox, j # 1
      PROVE  j - 1 \in DOMAIN mailbox' /\ mailbox'[j - 1] = mailbox[j]
  <2>1. j - 1 \in 1 .. (Len(mailbox) - 1) /\ (j - 1) + 1 = j
    BY <1>3, <1>5
  <2>2. QED
    BY <1>3, <2>1
<1>6. QED
  BY <1>1, <1>2, <1>4, <1>5

\* What is sent is added at the end.
LEMMA PostTyped ==
    ASSUME mailbox \in Seq(Message), NEW m \in Message, Post(m)
    PROVE  /\ mailbox' \in Seq(Message)
           /\ \A k \in DOMAIN mailbox' :
                 \/ k \in DOMAIN mailbox /\ mailbox'[k] = mailbox[k]
                 \/ k = Len(mailbox) + 1 /\ mailbox'[k] = m
           /\ \A j \in DOMAIN mailbox : j \in DOMAIN mailbox' /\ mailbox'[j] = mailbox[j]
           /\ Len(mailbox) + 1 \in DOMAIN mailbox' /\ mailbox'[Len(mailbox) + 1] = m
<1>1. mailbox' = Append(mailbox, m)
  BY DEF Post
<1>2. /\ mailbox' \in Seq(Message)
      /\ DOMAIN mailbox' = 1 .. (Len(mailbox) + 1)
      /\ DOMAIN mailbox = 1 .. Len(mailbox)
      /\ \A k \in 1 .. Len(mailbox) : mailbox'[k] = mailbox[k]
      /\ mailbox'[Len(mailbox) + 1] = m
      /\ Len(mailbox) \in Nat
  BY <1>1
<1>3. /\ \A k \in 1 .. (Len(mailbox) + 1) : k \in 1 .. Len(mailbox) \/ k = Len(mailbox) + 1
      /\ Len(mailbox) + 1 \in 1 .. (Len(mailbox) + 1)
      /\ \A k \in 1 .. Len(mailbox) : k \in 1 .. (Len(mailbox) + 1)
  BY <1>2
<1>4. QED
  BY <1>2, <1>3

\* What the messages carry.
LEMMA MessageFields ==
    ASSUME NEW m \in Message
    PROVE  /\ m.type \in {"Ask", "Get", "Answer", "Delete", "SetConfig"}
           /\ m.type = "Ask" => m.from \in Askers /\ m.spec \in Specs
           /\ m.type = "Get" => m.from \in Askers
           /\ m.type = "Answer" => m.id \in Ids /\ m.answer \in Answers
           /\ m.type = "Delete" => m.id \in Ids /\ m = [type |-> "Delete", id |-> m.id]
           /\ m.type = "SetConfig" => m.config \in Configs
BY DEF Message

\* A set of naturals that is not empty has a first element.
LEMMA FirstIn ==
    ASSUME NEW S, S \subseteq Nat, S # {}
    PROVE  First(S) \in S
<1>1. \E n \in S : \A m \in S : ~(<<m, n>> \in OpToRel(<, Nat))
  BY WFMin, NatLessThanWellFounded
<1>2. PICK n \in S : \A m \in S : ~(<<m, n>> \in OpToRel(<, Nat))
  BY <1>1
<1>3. \A m \in S : n <= m
  <2>1. SUFFICES ASSUME NEW m \in S PROVE n <= m
    OBVIOUS
  <2>2. m \in Nat /\ n \in Nat /\ ~(m < n)
    BY <1>2 DEF OpToRel
  <2>3. QED
    BY <2>2
<1>4. QED
  BY <1>3 DEF First

\* A question gets one of the answers of the rules, its default one, or none.
LEMMA FindAnswerTyped ==
    ASSUME config \in Configs, NEW spec \in Specs
    PROVE  FindAnswer(spec) \in AnyAnswer
<1> DEFINE rules == {i \in DOMAIN config.rules : AnswersTo(config.rules[i], spec)}
<1>1. CASE rules # {}
  <2>1. First(rules) \in DOMAIN config.rules
    <3>1. rules \subseteq Nat
      BY ConfigsAssumption
    <3>2. First(rules) \in rules
      BY <1>1, <3>1, FirstIn
    <3>3. QED
      BY <3>2
  <2>2. config.rules[First(rules)].answer \in Answers
    BY <2>1, ConfigsAssumption
  <2>3. FindAnswer(spec) = config.rules[First(rules)].answer
    BY <1>1 DEF FindAnswer
  <2>4. QED
    BY <2>2, <2>3 DEF AnyAnswer
<1>2. CASE rules = {} /\ config.policy = "auto"
  <2>1. FindAnswer(spec) = spec.default_action
    BY <1>2 DEF FindAnswer
  <2>2. QED
    BY <2>1, ConfigsAssumption
<1>3. CASE rules = {} /\ config.policy # "auto"
  <2>1. FindAnswer(spec) = NoAnswer
    BY <1>3 DEF FindAnswer
  <2>2. QED
    BY <2>1 DEF AnyAnswer
<1>4. QED
  BY <1>1, <1>2, <1>3

-----------------------------------------------------------------------------
(* Each step keeps the invariant.                                          *)

LEMMA InitIInv ==
    ASSUME Init
    PROVE  IInv
<1>1. /\ questions = [id \in {} |-> NoAnswer] /\ DOMAIN questions = {}
      /\ mailbox = <<>> /\ DOMAIN mailbox = {} /\ current_id = 0
      /\ given = {} /\ removed = {} /\ config = NoConfig
      /\ asker = [a \in Askers |-> [pc |-> "idle", id |-> 0, answer |-> NoAnswer]]
  BY DEF Init
<1>2. Cardinality(Askers) \in Nat
  BY AskersAssumption, FS_CardinalityType
<1>3. TypeOK
  <2>1. questions \in [DOMAIN questions -> Question]
    BY <1>1
  <2>2. config \in Configs
    BY <1>1, ConfigsAssumption
  <2>3. QED
    BY <1>1, <1>2, <2>1, <2>2 DEF TypeOK, AnyAnswer
<1>4. IdsInOrder
  <2>1. Numbered = {}
    BY <1>1 DEF Numbered
  <2>2. current_id = Cardinality(Numbered)
    BY <1>1, <2>1, FS_EmptySet
  <2>3. QED
    BY <1>1, <2>1, <2>2 DEF IdsInOrder
<1>5. OneCallEach /\ DeletionsDue
  BY <1>1 DEF OneCallEach, DeletionsDue
<1>6. InListOrDeleted /\ AnswersWereGiven
  BY <1>1, AnswersAssumption DEF InListOrDeleted, AnswersWereGiven, Waiting
<1>7. LeftoversDue
  BY <1>1 DEF LeftoversDue
<1>8. QED
  BY <1>3, <1>4, <1>5, <1>6, <1>7 DEF IInv

\* There is an id left for an asker that has none.
LEMMA IdLeft ==
    ASSUME IInv, NEW a \in Askers, a \notin Numbered
    PROVE  /\ IsFiniteSet(Numbered) /\ Numbered \subseteq Askers
           /\ current_id \in Nat /\ current_id + 1 \in Ids
           /\ Cardinality(Numbered \union {a}) = current_id + 1
<1>1. IsFiniteSet(Numbered) /\ Numbered \subseteq Askers
  BY AskersAssumption, FS_Subset DEF Numbered
<1>2. current_id = Cardinality(Numbered) /\ current_id \in Nat
  BY <1>1, FS_CardinalityType DEF IInv, IdsInOrder
<1>3. Cardinality(Numbered \union {a}) = current_id + 1
  BY <1>1, <1>2, FS_AddElement
<1>4. Cardinality(Numbered \union {a}) <= Cardinality(Askers)
  BY <1>1, AskersAssumption, FS_Subset
<1>5. Cardinality(Askers) \in Nat
  BY AskersAssumption, FS_CardinalityType
<1>6. QED
  BY <1>1, <1>2, <1>3, <1>4, <1>5 DEF Ids

\* Taking a message leaves the calls and the deletions of the others as they
\* are, when no asker that ended starts again.
LEMMA ReceiveKeeps ==
    ASSUME IInv, NEW type, Receive(type), removed \subseteq removed',
           \A b \in Askers : asker[b].pc = "answered" => asker'[b] = asker[b]
    PROVE  /\ \A i, j \in DOMAIN mailbox' :
                 /\ mailbox'[i].type \in Call /\ mailbox'[j].type \in Call
                 /\ mailbox'[i].from = mailbox'[j].from
                 => i = j
           /\ DeletionsDue'
<1>1. \A k \in DOMAIN mailbox' :
         k \in Nat /\ k # 0 /\ k + 1 \in DOMAIN mailbox /\ mailbox'[k] = mailbox[k + 1]
  BY ReceiveTyped DEF IInv, TypeOK
<1>2. ASSUME NEW i \in DOMAIN mailbox', NEW j \in DOMAIN mailbox',
             mailbox'[i].type \in Call, mailbox'[j].type \in Call,
             mailbox'[i].from = mailbox'[j].from
      PROVE  i = j
  <2>1. i + 1 = j + 1
    BY <1>1, <1>2 DEF IInv, OneCallEach
  <2>2. QED
    BY <1>1, <2>1
<1>3. ASSUME NEW k \in DOMAIN mailbox', mailbox'[k].type = "Delete"
      PROVE  \/ mailbox'[k].id \in removed'
             \/ \E b \in Askers : asker'[b].id = mailbox'[k].id /\ asker'[b].pc = "answered"
  <2>1. k + 1 \in DOMAIN mailbox /\ mailbox'[k] = mailbox[k + 1]
    BY <1>1
  <2>2. \/ mailbox[k + 1].id \in removed
        \/ \E b \in Askers : asker[b].id = mailbox[k + 1].id /\ asker[b].pc = "answered"
    BY <1>3, <2>1 DEF IInv, DeletionsDue
  <2>3. QED
    BY <2>1, <2>2
<1>4. QED
  BY <1>2, <1>3 DEF DeletionsDue

\* Ask: the asker gets the next id, and the answer that there is for it.
LEMMA HandleAskKeeps ==
    ASSUME IInv, HandleAsk
    PROVE  IInv'
<1> DEFINE m == Head(mailbox)
           a == m.from
           id == current_id + 1
           answer == FindAnswer(m.spec)
           new == [spec |-> m.spec, answer |-> answer]
<1>1. /\ m \in Message /\ m.type = "Ask" /\ m = mailbox[1] /\ 1 \in DOMAIN mailbox
      /\ mailbox' \in Seq(Message)
      /\ \A k \in DOMAIN mailbox' :
            k \in Nat /\ k # 0 /\ k + 1 \in DOMAIN mailbox /\ mailbox'[k] = mailbox[k + 1]
      /\ \A j \in DOMAIN mailbox : j # 1 => j - 1 \in DOMAIN mailbox' /\ mailbox'[j - 1] = mailbox[j]
  BY ReceiveTyped DEF HandleAsk, IInv, TypeOK
<1>2. a \in Askers /\ m.spec \in Specs
  BY <1>1, MessageFields
<1>3. asker[a].pc = "asking" /\ asker[a].id = 0 /\ a \notin Numbered
  BY <1>1, <1>2 DEF IInv, OneCallEach, IdsInOrder, Numbered
<1>4. /\ IsFiniteSet(Numbered) /\ Numbered \subseteq Askers
      /\ current_id \in Nat /\ id \in Ids /\ id \in Nat /\ id # 0
      /\ Cardinality(Numbered \union {a}) = id
  BY <1>2, <1>3, IdLeft
<1>5. answer \in AnyAnswer
  BY <1>2, FindAnswerTyped DEF IInv, TypeOK
<1>6. /\ current_id' = id
      /\ DOMAIN questions' = DOMAIN questions \union {id}
      /\ questions'[id] = new
      /\ \A x \in DOMAIN questions : x # id => questions'[x] = questions[x]
      /\ questions' = [x \in DOMAIN questions' |-> questions'[x]]
  BY DEF HandleAsk, With
<1>7. id \notin DOMAIN questions /\ DOMAIN questions \subseteq 1 .. current_id
  BY <1>4 DEF IInv, IdsInOrder
<1>8. /\ asker'[a] = [pc |-> "deciding", id |-> id, answer |-> answer]
      /\ \A b \in Askers : b # a => asker'[b] = asker[b]
      /\ asker' = [b \in Askers |-> asker'[b]]
  BY <1>2 DEF HandleAsk, IInv, TypeOK
<1>9. /\ given' = given \union ({<<id, answer>>} \intersect (Ids \X Answers))
      /\ given \subseteq given' /\ (answer \in Answers => <<id, answer>> \in given')
      /\ removed' = removed /\ config' = config
  BY <1>4 DEF HandleAsk
<1>10. TypeOK'
  <2>1. new \in Question
    BY <1>2, <1>5 DEF Question
  <2>2. questions' \in [DOMAIN questions' -> Question]
    BY <2>1, <1>6, <1>7 DEF IInv, TypeOK
  <2>3. asker' \in [Askers -> [pc : {"idle"} \union Waiting \union Ended,
                               id : {0} \union Ids,
                               answer : AnyAnswer \union {Missing}]]
    BY <1>4, <1>5, <1>8 DEF IInv, TypeOK, Waiting
  <2>4. current_id' \in 0 .. Cardinality(Askers)
    BY <1>4, <1>6, AskersAssumption, FS_CardinalityType DEF Ids
  <2>5. given' \subseteq Ids \X Answers /\ DOMAIN questions' \subseteq Ids
    BY <1>4, <1>6, <1>9 DEF IInv, TypeOK
  <2>6. QED
    BY <1>1, <1>9, <2>2, <2>3, <2>4, <2>5 DEF IInv, TypeOK
<1>11. IdsInOrder'
  <2>1. Numbered' = Numbered \union {a}
    BY <1>2, <1>4, <1>8 DEF Numbered
  <2>2. current_id' = Cardinality(Numbered')
    BY <1>4, <1>6, <2>1
  <2>3. DOMAIN questions' \subseteq 1 .. current_id'
    BY <1>4, <1>6, <1>7
  <2>4. \A b \in Askers :
           /\ asker'[b].id <= current_id'
           /\ asker'[b].id = 0 <=> asker'[b].pc \in {"idle", "asking"}
           /\ asker'[b].id = 0 => asker'[b].answer = NoAnswer
    <3>1. ASSUME NEW b \in Askers, b # a
          PROVE  asker'[b].id <= current_id'
      <4>1. asker[b].id \in Nat /\ asker[b].id <= current_id
        BY DEF IInv, IdsInOrder, TypeOK, Ids
      <4>2. QED
        BY <3>1, <4>1, <1>4, <1>6, <1>8
    <3>2. QED
      BY <3>1, <1>4, <1>6, <1>8 DEF IInv, IdsInOrder
  <2>5. \A b, c \in Numbered' : asker'[b].id = asker'[c].id => b = c
    <3>1. \A b \in Numbered : b # a /\ asker[b].id # id
      BY <1>3, <1>4 DEF IInv, IdsInOrder, Numbered, TypeOK, Ids
    <3>2. QED
      BY <3>1, <2>1, <1>4, <1>8 DEF IInv, IdsInOrder
  <2>6. \A i \in DOMAIN mailbox' :
           mailbox'[i].type \in {"Answer", "Delete"} => mailbox'[i].id \in 1 .. current_id'
    BY <1>1, <1>4, <1>6 DEF IInv, IdsInOrder
  <2>7. QED
    BY <2>2, <2>3, <2>4, <2>5, <2>6 DEF IdsInOrder
<1>12. /\ DeletionsDue'
       /\ \A i, j \in DOMAIN mailbox' :
             /\ mailbox'[i].type \in Call /\ mailbox'[j].type \in Call
             /\ mailbox'[i].from = mailbox'[j].from
             => i = j
  BY <1>3, <1>8, <1>9, ReceiveKeeps DEF HandleAsk
<1>13. OneCallEach'
  <2>1. \A k \in DOMAIN mailbox' : mailbox'[k].type \in Call => mailbox'[k].from # a
    BY <1>1 DEF IInv, OneCallEach, Call
  <2>2. \A k \in DOMAIN mailbox' : mailbox'[k].type \in Call => mailbox'[k].from \in Askers
    BY <1>1, MessageFields DEF Call
  <2>3. \A k \in DOMAIN mailbox' :
           /\ mailbox'[k].type = "Ask" => asker'[mailbox'[k].from].pc = "asking"
           /\ mailbox'[k].type = "Get" => asker'[mailbox'[k].from].pc = "polling"
    BY <1>1, <1>8, <2>1, <2>2 DEF IInv, OneCallEach, Call
  <2>4. \A i, j \in DOMAIN mailbox' :
           /\ mailbox'[i].type \in Call /\ mailbox'[j].type \in Call
           /\ mailbox'[i].from = mailbox'[j].from
           => i = j
    BY <1>12
  <2>5. QED
    BY <2>3, <2>4 DEF OneCallEach
<1>14. InListOrDeleted'
  <2>1. answer # Missing
    BY <1>5, AnswersAssumption DEF AnyAnswer
  <2>2. \A b \in Askers : asker[b].id # id
    BY <1>4 DEF IInv, IdsInOrder, TypeOK, Ids
  <2>3. QED
    BY <1>6, <1>8, <1>9, <2>1, <2>2 DEF IInv, InListOrDeleted, Waiting
<1>15. AnswersWereGiven'
  BY <1>6, <1>7, <1>8, <1>9 DEF IInv, AnswersWereGiven
<1>16. LeftoversDue'
  <2>1. ASSUME NEW x \in DOMAIN questions
        PROVE  \/ \E b \in Askers : asker'[b].id = x /\ asker'[b].pc \in Waiting
               \/ \E i \in DOMAIN mailbox' : mailbox'[i] = [type |-> "Delete", id |-> x]
    <3>1. CASE \E b \in Askers : asker[b].id = x /\ asker[b].pc \in Waiting
      <4>1. x # 0
        BY <1>4, <1>7
      <4>2. QED
        BY <3>1, <4>1, <1>3, <1>8
    <3>2. CASE \E i \in DOMAIN mailbox : mailbox[i] = [type |-> "Delete", id |-> x]
      BY <3>2, <1>1
    <3>3. QED
      BY <3>1, <3>2 DEF IInv, LeftoversDue
  <2>2. asker'[a].id = id /\ asker'[a].pc \in Waiting
    BY <1>8 DEF Waiting
  <2>3. QED
    BY <2>1, <2>2, <1>2, <1>6 DEF LeftoversDue
<1>17. QED
  BY <1>10, <1>11, <1>12, <1>13, <1>14, <1>15, <1>16 DEF IInv

\* Get: the asker sees what the list says of its question.
LEMMA HandleGetKeeps ==
    ASSUME IInv, HandleGet
    PROVE  IInv'
<1> DEFINE a == Head(mailbox).from
           answer == AnswerOf(asker[a].id)
<1>1. /\ Head(mailbox) \in Message /\ Head(mailbox).type = "Get"
      /\ Head(mailbox) = mailbox[1] /\ 1 \in DOMAIN mailbox
      /\ mailbox' \in Seq(Message)
      /\ \A k \in DOMAIN mailbox' :
            k \in Nat /\ k # 0 /\ k + 1 \in DOMAIN mailbox /\ mailbox'[k] = mailbox[k + 1]
      /\ \A j \in DOMAIN mailbox : j # 1 => j - 1 \in DOMAIN mailbox' /\ mailbox'[j - 1] = mailbox[j]
  BY ReceiveTyped DEF HandleGet, IInv, TypeOK
<1>2. a \in Askers /\ asker[a].pc = "polling" /\ asker[a].id # 0
  BY <1>1, MessageFields DEF IInv, OneCallEach, IdsInOrder
<1>3. /\ asker'[a].pc = "deciding" /\ asker'[a].id = asker[a].id /\ asker'[a].answer = answer
      /\ \A b \in Askers : b # a => asker'[b] = asker[b]
      /\ \A b \in Askers : asker'[b].id = asker[b].id
  BY <1>2 DEF HandleGet, IInv, TypeOK
<1>4. /\ config' = config /\ questions' = questions /\ current_id' = current_id
      /\ given' = given /\ removed' = removed
  BY DEF HandleGet
<1>5. /\ asker[a].id \in DOMAIN questions => answer = questions[asker[a].id].answer /\ answer # Missing
      /\ asker[a].id \notin DOMAIN questions => answer = Missing
      /\ answer \in AnyAnswer \union {Missing}
  BY AnswersAssumption DEF AnswerOf, IInv, TypeOK, Question, AnyAnswer
<1>6. TypeOK'
  <2>1. asker' \in [Askers -> [pc : {"idle"} \union Waiting \union Ended,
                               id : {0} \union Ids,
                               answer : AnyAnswer \union {Missing}]]
    BY <1>2, <1>5 DEF HandleGet, IInv, TypeOK, Waiting
  <2>2. QED
    BY <1>1, <1>4, <2>1 DEF IInv, TypeOK
<1>7. IdsInOrder'
  <2>1. Numbered' = Numbered
    BY <1>3 DEF Numbered
  <2>2. \A i \in DOMAIN mailbox' :
           mailbox'[i].type \in {"Answer", "Delete"} => mailbox'[i].id \in 1 .. current_id'
    BY <1>1, <1>4 DEF IInv, IdsInOrder
  <2>3. \A b, c \in Numbered' : asker'[b].id = asker'[c].id => b = c
    BY <1>3, <2>1 DEF IInv, IdsInOrder, Numbered
  <2>4. \A b \in Askers :
           /\ asker'[b].id <= current_id'
           /\ asker'[b].id = 0 <=> asker'[b].pc \in {"idle", "asking"}
           /\ asker'[b].id = 0 => asker'[b].answer = NoAnswer
    BY <1>2, <1>3, <1>4 DEF IInv, IdsInOrder
  <2>5. QED
    BY <1>4, <2>1, <2>2, <2>3, <2>4 DEF IInv, IdsInOrder
<1>8. /\ DeletionsDue'
      /\ \A i, j \in DOMAIN mailbox' :
            /\ mailbox'[i].type \in Call /\ mailbox'[j].type \in Call
            /\ mailbox'[i].from = mailbox'[j].from
            => i = j
  BY <1>2, <1>3, <1>4, ReceiveKeeps DEF HandleGet
<1>9. OneCallEach'
  <2>1. \A k \in DOMAIN mailbox' : mailbox'[k].type \in Call => mailbox'[k].from # a
    BY <1>1 DEF IInv, OneCallEach, Call
  <2>2. \A k \in DOMAIN mailbox' : mailbox'[k].type \in Call => mailbox'[k].from \in Askers
    BY <1>1, MessageFields DEF Call
  <2>3. \A k \in DOMAIN mailbox' :
           /\ mailbox'[k].type = "Ask" => asker'[mailbox'[k].from].pc = "asking"
           /\ mailbox'[k].type = "Get" => asker'[mailbox'[k].from].pc = "polling"
    BY <1>1, <1>3, <2>1, <2>2 DEF IInv, OneCallEach, Call
  <2>4. QED
    BY <1>8, <2>3 DEF OneCallEach
<1>10. InListOrDeleted'
  BY <1>2, <1>3, <1>4, <1>5 DEF IInv, InListOrDeleted, Waiting
<1>11. AnswersWereGiven'
  <2>1. answer \in Answers => <<asker[a].id, answer>> \in given
    BY <1>5, AnswersAssumption DEF IInv, AnswersWereGiven
  <2>2. QED
    BY <1>2, <1>3, <1>4, <2>1 DEF IInv, AnswersWereGiven
<1>12. LeftoversDue'
  <2>1. SUFFICES ASSUME NEW x \in DOMAIN questions
                 PROVE  \/ \E b \in Askers : asker'[b].id = x /\ asker'[b].pc \in Waiting
                        \/ \E i \in DOMAIN mailbox' : mailbox'[i] = [type |-> "Delete", id |-> x]
    BY <1>4 DEF LeftoversDue
  <2>2. CASE \E b \in Askers : asker[b].id = x /\ asker[b].pc \in Waiting
    BY <2>2, <1>3 DEF Waiting
  <2>3. CASE \E i \in DOMAIN mailbox : mailbox[i] = [type |-> "Delete", id |-> x]
    BY <2>3, <1>1
  <2>4. QED
    BY <2>2, <2>3 DEF IInv, LeftoversDue
<1>13. QED
  BY <1>6, <1>7, <1>8, <1>9, <1>10, <1>11, <1>12 DEF IInv

\* Answer, Delete and SetConfig do not touch the askers nor the ids: what they
\* may disturb is the list and what it promises.
LEMMA HandleOtherKeeps ==
    ASSUME IInv, NEW type \in {"Answer", "Delete", "SetConfig"}, Receive(type),
           UNCHANGED <<asker, current_id, removed>>,
           DOMAIN questions' \subseteq DOMAIN questions
    PROVE  /\ mailbox' \in Seq(Message)
           /\ IdsInOrder'
           /\ OneCallEach'
           /\ DeletionsDue'
           /\ \A j \in DOMAIN mailbox :
                 mailbox[j] # Head(mailbox) =>
                     \E k \in DOMAIN mailbox' : mailbox'[k] = mailbox[j]
<1>1. /\ Head(mailbox) = mailbox[1]
      /\ mailbox' \in Seq(Message)
      /\ \A k \in DOMAIN mailbox' :
            k \in Nat /\ k # 0 /\ k + 1 \in DOMAIN mailbox /\ mailbox'[k] = mailbox[k + 1]
      /\ \A j \in DOMAIN mailbox : j # 1 => j - 1 \in DOMAIN mailbox' /\ mailbox'[j - 1] = mailbox[j]
  BY ReceiveTyped DEF IInv, TypeOK
<1>2. IdsInOrder'
  <2>1. Numbered' = Numbered
    BY DEF Numbered
  <2>2. \A i \in DOMAIN mailbox' :
           mailbox'[i].type \in {"Answer", "Delete"} => mailbox'[i].id \in 1 .. current_id'
    BY <1>1 DEF IInv, IdsInOrder
  <2>3. QED
    BY <2>1, <2>2 DEF IInv, IdsInOrder
<1>3. /\ DeletionsDue'
      /\ \A i, j \in DOMAIN mailbox' :
            /\ mailbox'[i].type \in Call /\ mailbox'[j].type \in Call
            /\ mailbox'[i].from = mailbox'[j].from
            => i = j
  BY ReceiveKeeps
<1>4. OneCallEach'
  BY <1>1, <1>3 DEF IInv, OneCallEach
<1>5. QED
  BY <1>1, <1>2, <1>3, <1>4

LEMMA HandleAnswerKeeps ==
    ASSUME IInv, HandleAnswer
    PROVE  IInv'
<1> DEFINE m == Head(mailbox)
<1>1. m \in Message /\ m.type = "Answer"
  BY ReceiveTyped DEF HandleAnswer, IInv, TypeOK
<1>2. m.id \in Ids /\ m.answer \in Answers
  BY <1>1, MessageFields
<1>3. /\ config' = config /\ current_id' = current_id /\ asker' = asker /\ removed' = removed
      /\ DOMAIN questions' = DOMAIN questions
      /\ \A x \in DOMAIN questions :
            \/ x # m.id /\ questions'[x] = questions[x]
            \/ x = m.id /\ questions'[x] = [questions[x] EXCEPT !.answer = m.answer]
      /\ questions' = [x \in DOMAIN questions' |-> questions'[x]]
      /\ m.id \in DOMAIN questions => given' = given \union {<<m.id, m.answer>>}
      /\ given \subseteq given' /\ given' \subseteq given \union {<<m.id, m.answer>>}
  BY DEF HandleAnswer, IInv, TypeOK
<1>4. /\ mailbox' \in Seq(Message)
      /\ IdsInOrder' /\ OneCallEach' /\ DeletionsDue'
      /\ \A j \in DOMAIN mailbox :
            mailbox[j] # m => \E k \in DOMAIN mailbox' : mailbox'[k] = mailbox[j]
  BY <1>3, HandleOtherKeeps DEF HandleAnswer
<1>5. \A x \in DOMAIN questions :
         \/ x # m.id /\ questions'[x] = questions[x]
         \/ x = m.id /\ questions'[x].answer = m.answer
  BY <1>3 DEF IInv, TypeOK, Question
<1>6. TypeOK'
  <2>1. \A x \in DOMAIN questions : questions'[x] \in Question
    BY <1>2, <1>3 DEF IInv, TypeOK, Question, AnyAnswer
  <2>2. questions' \in [DOMAIN questions' -> Question]
    BY <1>3, <2>1
  <2>3. given' \subseteq Ids \X Answers
    BY <1>2, <1>3 DEF IInv, TypeOK
  <2>4. QED
    BY <1>3, <1>4, <2>2, <2>3 DEF IInv, TypeOK
<1>7. InListOrDeleted'
  BY <1>3 DEF IInv, InListOrDeleted
<1>8. AnswersWereGiven'
  <2>1. ASSUME NEW x \in DOMAIN questions, questions'[x].answer \in Answers
        PROVE  <<x, questions'[x].answer>> \in given'
    BY <2>1, <1>3, <1>5 DEF IInv, AnswersWereGiven
  <2>2. QED
    BY <1>3, <2>1 DEF IInv, AnswersWereGiven
<1>9. LeftoversDue'
  <2>1. \A x \in DOMAIN questions : m # [type |-> "Delete", id |-> x]
    BY <1>1
  <2>2. QED
    BY <1>3, <1>4, <2>1 DEF IInv, LeftoversDue
<1>10. QED
  BY <1>4, <1>6, <1>7, <1>8, <1>9 DEF IInv

\* Delete: the question is one that a client deleted, or that has no asker any
\* more; another one stays.
LEMMA HandleDeleteKeeps ==
    ASSUME IInv, HandleDelete
    PROVE  IInv'
<1> DEFINE m == Head(mailbox)
<1>1. m \in Message /\ m.type = "Delete" /\ 1 \in DOMAIN mailbox /\ m = mailbox[1]
  BY ReceiveTyped DEF HandleDelete, IInv, TypeOK
<1>2. m = [type |-> "Delete", id |-> m.id]
  BY <1>1, MessageFields
<1>3. /\ config' = config /\ current_id' = current_id /\ asker' = asker
      /\ removed' = removed /\ given' = given
      /\ DOMAIN questions' = DOMAIN questions \ {m.id}
      /\ \A x \in DOMAIN questions' : questions'[x] = questions[x]
      /\ questions' = [x \in DOMAIN questions' |-> questions'[x]]
  BY DEF HandleDelete, Restrict
<1>4. /\ mailbox' \in Seq(Message)
      /\ IdsInOrder' /\ OneCallEach' /\ DeletionsDue'
      /\ \A j \in DOMAIN mailbox :
            mailbox[j] # m => \E k \in DOMAIN mailbox' : mailbox'[k] = mailbox[j]
  BY <1>3, HandleOtherKeeps DEF HandleDelete
<1>5. TypeOK'
  <2>1. questions' \in [DOMAIN questions' -> Question]
    BY <1>3 DEF IInv, TypeOK
  <2>2. QED
    BY <1>3, <1>4, <2>1 DEF IInv, TypeOK
<1>6. InListOrDeleted'
  <2>1. ASSUME NEW a \in Askers, asker[a].pc \in Waiting \ {"asking"}
        PROVE  asker[a].id \in DOMAIN questions' \union removed
    <3>1. CASE m.id \in removed
      BY <2>1, <3>1, <1>3 DEF IInv, InListOrDeleted
    <3>2. CASE \E b \in Askers : asker[b].id = m.id /\ asker[b].pc = "answered"
      <4>1. PICK b \in Askers : asker[b].id = m.id /\ asker[b].pc = "answered"
        BY <3>2
      <4>2. a # b /\ asker[a].id # 0 /\ asker[b].id # 0
        BY <2>1, <4>1 DEF IInv, IdsInOrder, Waiting
      <4>3. asker[a].id # m.id
        BY <4>1, <4>2 DEF IInv, IdsInOrder, Numbered
      <4>4. QED
        BY <2>1, <4>3, <1>3 DEF IInv, InListOrDeleted
    <3>3. QED
      BY <1>1, <3>1, <3>2 DEF IInv, DeletionsDue
  <2>2. QED
    BY <1>3, <2>1 DEF IInv, InListOrDeleted
<1>7. AnswersWereGiven'
  BY <1>3 DEF IInv, AnswersWereGiven
<1>8. LeftoversDue'
  <2>1. \A x \in DOMAIN questions' : m # [type |-> "Delete", id |-> x]
    <3>1. SUFFICES ASSUME NEW x \in DOMAIN questions', m = [type |-> "Delete", id |-> x]
                   PROVE  FALSE
      OBVIOUS
    <3>2. m.id = x
      BY <3>1
    <3>3. QED
      BY <1>3, <3>2
  <2>2. QED
    BY <1>3, <1>4, <2>1 DEF IInv, LeftoversDue
<1>9. QED
  BY <1>4, <1>5, <1>6, <1>7, <1>8 DEF IInv

LEMMA HandleSetConfigKeeps ==
    ASSUME IInv, HandleSetConfig
    PROVE  IInv'
<1> DEFINE m == Head(mailbox)
<1>1. m \in Message /\ m.type = "SetConfig"
  BY ReceiveTyped DEF HandleSetConfig, IInv, TypeOK
<1>2. config' \in Configs
  BY <1>1, MessageFields DEF HandleSetConfig
<1>3. /\ questions' = questions /\ current_id' = current_id /\ asker' = asker
      /\ removed' = removed /\ given' = given
  BY DEF HandleSetConfig
<1>4. /\ mailbox' \in Seq(Message)
      /\ IdsInOrder' /\ OneCallEach' /\ DeletionsDue'
      /\ \A j \in DOMAIN mailbox :
            mailbox[j] # m => \E k \in DOMAIN mailbox' : mailbox'[k] = mailbox[j]
  BY <1>3, HandleOtherKeeps DEF HandleSetConfig
<1>5. TypeOK'
  BY <1>2, <1>3, <1>4 DEF IInv, TypeOK
<1>6. InListOrDeleted' /\ AnswersWereGiven'
  BY <1>3 DEF IInv, InListOrDeleted, AnswersWereGiven
<1>7. LeftoversDue'
  <2>1. \A x \in DOMAIN questions : m # [type |-> "Delete", id |-> x]
    BY <1>1
  <2>2. QED
    BY <1>3, <1>4, <2>1 DEF IInv, LeftoversDue
<1>8. QED
  BY <1>4, <1>5, <1>6, <1>7 DEF IInv

\* An asker that goes from one place to the next keeps its id and its answer.
LEMMA AskerMoves ==
    ASSUME IInv, NEW a \in Askers, NEW pc \in Waiting \union Ended,
           asker' = [asker EXCEPT ![a].pc = pc],
           UNCHANGED <<config, questions, current_id, given, removed>>,
           asker[a].pc \notin Ended,
           pc = "asking" <=> asker[a].pc = "idle",
           asker[a].pc = "asking" => FALSE,
           pc = "answered" => asker[a].answer \in Answers,
           mailbox' \in Seq(Message),
           \A i \in DOMAIN mailbox' :
              mailbox'[i].type \in {"Answer", "Delete"} => mailbox'[i].id \in 1 .. current_id
    PROVE  /\ TypeOK' /\ IdsInOrder' /\ InListOrDeleted' /\ AnswersWereGiven'
           /\ asker'[a].pc = pc
           /\ \A b \in Askers : b # a => asker'[b] = asker[b]
           /\ \A b \in Askers : asker'[b].id = asker[b].id
<1>1. /\ asker'[a].pc = pc /\ asker'[a].id = asker[a].id /\ asker'[a].answer = asker[a].answer
      /\ \A b \in Askers : b # a => asker'[b] = asker[b]
      /\ \A b \in Askers : asker'[b].id = asker[b].id /\ asker'[b].answer = asker[b].answer
  BY DEF IInv, TypeOK
<1>2. asker[a].pc \in {"idle"} \union Waiting \union Ended
  BY DEF IInv, TypeOK
<1>3. TypeOK'
  <2>1. asker' \in [Askers -> [pc : {"idle"} \union Waiting \union Ended,
                               id : {0} \union Ids,
                               answer : AnyAnswer \union {Missing}]]
    BY DEF IInv, TypeOK
  <2>2. QED
    BY <2>1 DEF IInv, TypeOK
<1>4. IdsInOrder'
  <2>1. Numbered' = Numbered
    BY <1>1 DEF Numbered
  <2>2. \A b, c \in Numbered' : asker'[b].id = asker'[c].id => b = c
    BY <1>1, <2>1 DEF IInv, IdsInOrder, Numbered
  <2>3. asker[a].id = 0 <=> pc \in {"idle", "asking"}
    BY <1>2 DEF IInv, IdsInOrder, Waiting, Ended
  <2>4. \A b \in Askers :
           /\ asker'[b].id <= current_id'
           /\ asker'[b].id = 0 <=> asker'[b].pc \in {"idle", "asking"}
           /\ asker'[b].id = 0 => asker'[b].answer = NoAnswer
    BY <1>1, <2>3 DEF IInv, IdsInOrder
  <2>5. QED
    BY <2>1, <2>2, <2>4 DEF IInv, IdsInOrder
<1>5. InListOrDeleted'
  BY <1>1, <1>2 DEF IInv, InListOrDeleted, Waiting, Ended
<1>6. AnswersWereGiven'
  BY <1>1 DEF IInv, AnswersWereGiven
<1>7. QED
  BY <1>1, <1>3, <1>4, <1>5, <1>6

\* Ask and Poll send a call, and no other call of that asker is on its way.
LEMMA CallKeeps ==
    ASSUME IInv, NEW a \in Askers, NEW m \in Message, Post(m),
           NEW pc \in {"asking", "polling"},
           \/ m.type = "Ask" /\ pc = "asking" /\ asker[a].pc = "idle"
           \/ m.type = "Get" /\ pc = "polling" /\ asker[a].pc = "sleeping",
           m.from = a,
           asker' = [asker EXCEPT ![a].pc = pc],
           UNCHANGED <<config, questions, current_id, given, removed>>
    PROVE  IInv'
<1>1. /\ mailbox' \in Seq(Message)
      /\ \A k \in DOMAIN mailbox' :
            \/ k \in DOMAIN mailbox /\ mailbox'[k] = mailbox[k]
            \/ k = Len(mailbox) + 1 /\ mailbox'[k] = m
      /\ \A j \in DOMAIN mailbox : j \in DOMAIN mailbox' /\ mailbox'[j] = mailbox[j]
  BY PostTyped DEF IInv, TypeOK
<1>2. \A i \in DOMAIN mailbox' :
         mailbox'[i].type \in {"Answer", "Delete"} => mailbox'[i].id \in 1 .. current_id
  BY <1>1 DEF IInv, IdsInOrder
<1>3. /\ TypeOK' /\ IdsInOrder' /\ InListOrDeleted' /\ AnswersWereGiven'
      /\ asker'[a].pc = pc
      /\ \A b \in Askers : b # a => asker'[b] = asker[b]
      /\ \A b \in Askers : asker'[b].id = asker[b].id
  <2>1. pc \in Waiting \union Ended
    BY DEF Waiting, Ended
  <2>2. asker[a].pc \notin Ended /\ asker[a].pc # "asking" /\ pc # "answered"
    BY DEF Ended
  <2>3. pc = "asking" <=> asker[a].pc = "idle"
    OBVIOUS
  <2>4. QED
    BY <1>1, <1>2, <2>1, <2>2, <2>3, AskerMoves
<1>4. OneCallEach'
  <2>1. \A j \in DOMAIN mailbox :
           mailbox[j].type \in Call => mailbox[j].from # a /\ mailbox[j].from \in Askers
    <3>1. \A j \in DOMAIN mailbox : mailbox[j] \in Message
      BY DEF IInv, TypeOK
    <3>2. QED
      BY <3>1, MessageFields DEF IInv, OneCallEach, Call
  <2>2. \A k \in DOMAIN mailbox' :
           /\ mailbox'[k].type = "Ask" => asker'[mailbox'[k].from].pc = "asking"
           /\ mailbox'[k].type = "Get" => asker'[mailbox'[k].from].pc = "polling"
    BY <1>1, <1>3, <2>1 DEF IInv, OneCallEach, Call
  <2>3. \A i, j \in DOMAIN mailbox' :
           /\ mailbox'[i].type \in Call /\ mailbox'[j].type \in Call
           /\ mailbox'[i].from = mailbox'[j].from
           => i = j
    BY <1>1, <2>1 DEF IInv, OneCallEach
  <2>4. QED
    BY <2>2, <2>3 DEF OneCallEach
<1>5. DeletionsDue'
  BY <1>1, <1>3 DEF IInv, DeletionsDue
<1>6. LeftoversDue'
  <2>1. pc \in Waiting
    BY DEF Waiting
  <2>2. QED
    BY <1>1, <1>3, <2>1 DEF IInv, LeftoversDue
<1>7. QED
  BY <1>3, <1>4, <1>5, <1>6 DEF IInv

LEMMA AskKeeps ==
    ASSUME IInv, NEW a \in Askers, Ask(a)
    PROVE  IInv'
<1>1. PICK spec \in Specs : Post([type |-> "Ask", from |-> a, spec |-> spec])
  BY DEF Ask
<1>2. [type |-> "Ask", from |-> a, spec |-> spec] \in Message
  BY DEF Message
<1>3. QED
  BY <1>1, <1>2, CallKeeps DEF Ask

LEMMA PollKeeps ==
    ASSUME IInv, NEW a \in Askers, Poll(a)
    PROVE  IInv'
<1>1. [type |-> "Get", from |-> a] \in Message
  BY DEF Message
<1>2. QED
  BY <1>1, CallKeeps DEF Poll

\* An asker that decides, without an answer or without a question, sends
\* nothing; a question that it cannot find is not in the list.
LEMMA DecideKeeps ==
    ASSUME IInv, NEW a \in Askers, NotYet(a) \/ NotFound(a)
    PROVE  IInv'
<1>1. PICK pc \in {"sleeping", "not_found"} :
         /\ asker' = [asker EXCEPT ![a].pc = pc]
         /\ pc = "not_found" => asker[a].answer = Missing
  BY DEF NotYet, NotFound
<1>2. /\ asker[a].pc = "deciding" /\ mailbox' = mailbox
      /\ UNCHANGED <<config, questions, current_id, given, removed>>
  BY DEF NotYet, NotFound
<1>3. /\ TypeOK' /\ IdsInOrder' /\ InListOrDeleted' /\ AnswersWereGiven'
      /\ asker'[a].pc = pc
      /\ \A b \in Askers : b # a => asker'[b] = asker[b]
      /\ \A b \in Askers : asker'[b].id = asker[b].id
  <2>1. pc \in Waiting \union Ended
    BY DEF Waiting, Ended
  <2>2. /\ asker[a].pc \notin Ended /\ asker[a].pc # "asking" /\ pc # "answered"
        /\ pc = "asking" <=> asker[a].pc = "idle"
    BY <1>2 DEF Ended
  <2>3. /\ mailbox' \in Seq(Message)
        /\ \A i \in DOMAIN mailbox' :
              mailbox'[i].type \in {"Answer", "Delete"} => mailbox'[i].id \in 1 .. current_id
    BY <1>2 DEF IInv, TypeOK, IdsInOrder
  <2>4. QED
    BY <1>1, <1>2, <2>1, <2>2, <2>3, AskerMoves
<1>4. OneCallEach'
  <2>1. \A j \in DOMAIN mailbox :
           mailbox[j].type \in Call => mailbox[j].from # a /\ mailbox[j].from \in Askers
    <3>1. \A j \in DOMAIN mailbox : mailbox[j] \in Message
      BY DEF IInv, TypeOK
    <3>2. QED
      BY <1>2, <3>1, MessageFields DEF IInv, OneCallEach, Call
  <2>2. QED
    BY <1>2, <1>3, <2>1 DEF IInv, OneCallEach, Call
<1>5. DeletionsDue'
  BY <1>2, <1>3 DEF IInv, DeletionsDue
<1>6. LeftoversDue'
  <2>1. CASE pc = "sleeping"
    BY <2>1, <1>2, <1>3 DEF IInv, LeftoversDue, Waiting
  <2>2. CASE pc = "not_found"
    <3>1. asker[a].id \notin DOMAIN questions
      BY <1>1, <2>2 DEF IInv, InListOrDeleted
    <3>2. QED
      BY <3>1, <1>2, <1>3 DEF IInv, LeftoversDue
  <2>3. QED
    BY <2>1, <2>2
<1>7. QED
  BY <1>3, <1>4, <1>5, <1>6 DEF IInv

\* An asker that has its answer sends the deletion of its question.
LEMMA TakeAnswerKeeps ==
    ASSUME IInv, NEW a \in Askers, TakeAnswer(a)
    PROVE  IInv'
<1> DEFINE m == [type |-> "Delete", id |-> asker[a].id]
<1>1. /\ asker[a].pc = "deciding" /\ asker[a].answer \in Answers
      /\ asker' = [asker EXCEPT ![a].pc = "answered"]
      /\ UNCHANGED <<config, questions, current_id, given, removed>>
      /\ Post(m)
  BY DEF TakeAnswer
<1>2. asker[a].id \in Ids /\ asker[a].id \in 1 .. current_id
  <2>1. asker[a].id # 0 /\ asker[a].id <= current_id
    BY <1>1 DEF IInv, IdsInOrder
  <2>2. asker[a].id \in {0} \union Ids /\ current_id \in Nat
    BY DEF IInv, TypeOK
  <2>3. QED
    BY <2>1, <2>2 DEF Ids
<1>3. m \in Message
  BY <1>2 DEF Message
<1>4. /\ mailbox' \in Seq(Message)
      /\ \A k \in DOMAIN mailbox' :
            \/ k \in DOMAIN mailbox /\ mailbox'[k] = mailbox[k]
            \/ k = Len(mailbox) + 1 /\ mailbox'[k] = m
      /\ \A j \in DOMAIN mailbox : j \in DOMAIN mailbox' /\ mailbox'[j] = mailbox[j]
      /\ Len(mailbox) + 1 \in DOMAIN mailbox' /\ mailbox'[Len(mailbox) + 1] = m
  BY <1>1, <1>3, PostTyped DEF IInv, TypeOK
<1>5. /\ TypeOK' /\ IdsInOrder' /\ InListOrDeleted' /\ AnswersWereGiven'
      /\ asker'[a].pc = "answered"
      /\ \A b \in Askers : b # a => asker'[b] = asker[b]
      /\ \A b \in Askers : asker'[b].id = asker[b].id
  <2>1. \A i \in DOMAIN mailbox' :
           mailbox'[i].type \in {"Answer", "Delete"} => mailbox'[i].id \in 1 .. current_id
    BY <1>2, <1>4 DEF IInv, IdsInOrder
  <2>2. "answered" \in Waiting \union Ended /\ asker[a].pc \notin Ended
    BY <1>1 DEF Waiting, Ended
  <2>3. QED
    BY <1>1, <1>4, <2>1, <2>2, AskerMoves
<1>6. OneCallEach'
  <2>1. \A j \in DOMAIN mailbox :
           mailbox[j].type \in Call => mailbox[j].from # a /\ mailbox[j].from \in Askers
    <3>1. \A j \in DOMAIN mailbox : mailbox[j] \in Message
      BY DEF IInv, TypeOK
    <3>2. QED
      BY <1>1, <3>1, MessageFields DEF IInv, OneCallEach, Call
  <2>2. m.type \notin Call
    BY DEF Call
  <2>3. \A k \in DOMAIN mailbox' :
           mailbox'[k].type \in Call => k \in DOMAIN mailbox /\ mailbox'[k] = mailbox[k]
    BY <1>4, <2>2
  <2>4. QED
    BY <1>5, <2>1, <2>3 DEF IInv, OneCallEach, Call
<1>7. DeletionsDue'
  <2>1. ASSUME NEW k \in DOMAIN mailbox', mailbox'[k].type = "Delete"
        PROVE  \/ mailbox'[k].id \in removed'
               \/ \E b \in Askers : asker'[b].id = mailbox'[k].id /\ asker'[b].pc = "answered"
    <3>1. CASE mailbox'[k] = m
      BY <3>1, <1>5
    <3>2. CASE k \in DOMAIN mailbox /\ mailbox'[k] = mailbox[k]
      BY <2>1, <3>2, <1>1, <1>5 DEF IInv, DeletionsDue
    <3>3. QED
      BY <3>1, <3>2, <1>4
  <2>2. QED
    BY <2>1 DEF DeletionsDue
<1>8. LeftoversDue'
  <2>1. ASSUME NEW x \in DOMAIN questions
        PROVE  \/ \E b \in Askers : asker'[b].id = x /\ asker'[b].pc \in Waiting
               \/ \E i \in DOMAIN mailbox' : mailbox'[i] = [type |-> "Delete", id |-> x]
    <3>1. CASE x = asker[a].id
      BY <3>1, <1>4
    <3>2. CASE x # asker[a].id
      BY <3>2, <1>4, <1>5 DEF IInv, LeftoversDue
    <3>3. QED
      BY <3>1, <3>2
  <2>2. QED
    BY <1>1, <2>1 DEF LeftoversDue
<1>9. QED
  BY <1>5, <1>6, <1>7, <1>8 DEF IInv

\* The clients send answers, deletions and configurations.
LEMMA ClientKeeps ==
    ASSUME IInv, NEW m \in Message, Post(m), m.type \in {"Answer", "Delete", "SetConfig"},
           m.type \in {"Answer", "Delete"} => m.id \in 1 .. current_id,
           m.type = "Delete" => m.id \in removed',
           removed \subseteq removed', removed' \subseteq Ids,
           UNCHANGED <<config, questions, current_id, asker, given>>
    PROVE  IInv'
<1>1. /\ mailbox' \in Seq(Message)
      /\ \A k \in DOMAIN mailbox' :
            \/ k \in DOMAIN mailbox /\ mailbox'[k] = mailbox[k]
            \/ k = Len(mailbox) + 1 /\ mailbox'[k] = m
      /\ \A j \in DOMAIN mailbox : j \in DOMAIN mailbox' /\ mailbox'[j] = mailbox[j]
  BY PostTyped DEF IInv, TypeOK
<1>2. TypeOK'
  BY <1>1 DEF IInv, TypeOK
<1>3. IdsInOrder'
  <2>1. Numbered' = Numbered
    BY DEF Numbered
  <2>2. \A i \in DOMAIN mailbox' :
           mailbox'[i].type \in {"Answer", "Delete"} => mailbox'[i].id \in 1 .. current_id'
    BY <1>1 DEF IInv, IdsInOrder
  <2>3. QED
    BY <2>1, <2>2 DEF IInv, IdsInOrder
<1>4. OneCallEach'
  <2>1. \A k \in DOMAIN mailbox' :
           mailbox'[k].type \in Call => k \in DOMAIN mailbox /\ mailbox'[k] = mailbox[k]
    BY <1>1 DEF Call
  <2>2. QED
    BY <2>1 DEF IInv, OneCallEach, Call
<1>5. DeletionsDue'
  BY <1>1 DEF IInv, DeletionsDue
<1>6. InListOrDeleted' /\ AnswersWereGiven'
  BY DEF IInv, InListOrDeleted, AnswersWereGiven
<1>7. LeftoversDue'
  BY <1>1 DEF IInv, LeftoversDue
<1>8. QED
  BY <1>2, <1>3, <1>4, <1>5, <1>6, <1>7 DEF IInv

LEMMA UserAnswersKeeps ==
    ASSUME IInv, NEW id \in Ids, UserAnswers(id)
    PROVE  IInv'
<1>1. PICK x \in Answers : Post([type |-> "Answer", id |-> id, answer |-> x])
  BY DEF UserAnswers
<1>2. [type |-> "Answer", id |-> id, answer |-> x] \in Message
  BY DEF Message
<1>3. id \in 1 .. current_id
  <2>1. id \in DOMAIN questions
    BY AnswersAssumption DEF UserAnswers, AnswerOf
  <2>2. QED
    BY <2>1 DEF IInv, IdsInOrder
<1>4. QED
  BY <1>1, <1>2, <1>3, ClientKeeps DEF UserAnswers, IInv, TypeOK

LEMMA MeddleKeeps ==
    ASSUME IInv, Meddle
    PROVE  IInv'
<1>1. 1 .. current_id \subseteq Ids
  <2>1. current_id \in Nat /\ Cardinality(Askers) \in Nat /\ current_id <= Cardinality(Askers)
    BY AskersAssumption, FS_CardinalityType DEF IInv, TypeOK
  <2>2. QED
    BY <2>1 DEF Ids
<1>2. UNCHANGED <<config, questions, current_id, asker, given>>
  BY DEF Meddle
<1>3. ASSUME NEW id \in 1 .. current_id, NEW x \in Answers,
             Post([type |-> "Answer", id |-> id, answer |-> x]), UNCHANGED removed
      PROVE  IInv'
  <2>1. [type |-> "Answer", id |-> id, answer |-> x] \in Message
    BY <1>1 DEF Message
  <2>2. QED
    BY <1>2, <1>3, <2>1, ClientKeeps DEF IInv, TypeOK
<1>4. ASSUME NEW id \in 1 .. current_id,
             Post([type |-> "Delete", id |-> id]), removed' = removed \union {id}
      PROVE  IInv'
  <2>1. [type |-> "Delete", id |-> id] \in Message /\ removed' \subseteq Ids
    BY <1>1, <1>4 DEF Message, IInv, TypeOK
  <2>2. QED
    BY <1>2, <1>4, <2>1, ClientKeeps
<1>5. ASSUME NEW c \in Configs,
             Post([type |-> "SetConfig", config |-> c]), UNCHANGED removed
      PROVE  IInv'
  <2>1. [type |-> "SetConfig", config |-> c] \in Message
    BY DEF Message
  <2>2. QED
    BY <1>2, <1>5, <2>1, ClientKeeps DEF IInv, TypeOK
<1>6. QED
  BY <1>3, <1>4, <1>5 DEF Meddle

-----------------------------------------------------------------------------
(* The theorems.                                                           *)

LEMMA StepKeeps ==
    ASSUME IInv, [Next]_vars
    PROVE  IInv'
<1>1. ASSUME Serve PROVE IInv'
  BY <1>1, HandleAskKeeps, HandleGetKeeps, HandleAnswerKeeps, HandleDeleteKeeps,
     HandleSetConfigKeeps DEF Serve
<1>2. ASSUME NEW a \in Askers, Ask(a) \/ AskerStep(a) PROVE IInv'
  BY <1>2, AskKeeps, PollKeeps, DecideKeeps, TakeAnswerKeeps DEF AskerStep
<1>3. ASSUME NEW id \in Ids, UserAnswers(id) PROVE IInv'
  BY <1>3, UserAnswersKeeps
<1>4. ASSUME Meddle PROVE IInv'
  BY <1>4, MeddleKeeps
<1>5. ASSUME UNCHANGED vars PROVE IInv'
  <2>1. UNCHANGED <<config, questions, current_id, mailbox, asker, given, removed>>
    BY <1>5 DEF vars
  <2>2. TypeOK'
    BY <2>1 DEF IInv, TypeOK
  <2>3. IdsInOrder'
    <3>1. Numbered' = Numbered
      BY <2>1 DEF Numbered
    <3>2. QED
      BY <2>1, <3>1 DEF IInv, IdsInOrder
  <2>4. OneCallEach' /\ DeletionsDue'
    BY <2>1 DEF IInv, OneCallEach, DeletionsDue
  <2>5. InListOrDeleted' /\ AnswersWereGiven' /\ LeftoversDue'
    BY <2>1 DEF IInv, InListOrDeleted, AnswersWereGiven, LeftoversDue
  <2>6. QED
    BY <2>2, <2>3, <2>4, <2>5 DEF IInv
<1>6. QED
  BY <1>1, <1>2, <1>3, <1>4, <1>5 DEF Next

LEMMA IInvAlways == Spec => []IInv
<1>1. Init => IInv
  BY InitIInv
<1>2. IInv /\ [Next]_vars => IInv'
  BY StepKeeps
<1>3. QED
  BY <1>1, <1>2, PTL DEF Spec

\* The service, the mailbox and the askers hold what their types say, and the
\* ids that the service gives never run past the number of askers.
THEOREM TypeCorrect == Spec => []TypeOK
<1>1. IInv => TypeOK
  BY DEF IInv
<1>2. QED
  BY <1>1, IInvAlways, PTL

\* However answers, deletions and other questions cross the polling of an
\* asker (ask_question, wait_answer), the answer it goes on with was given to
\* its own question.
THEOREM OwnAnswerAlways == Spec => []OwnAnswer
<1>1. IInv => OwnAnswer
  BY DEF IInv, AnswersWereGiven, OwnAnswer
<1>2. QED
  BY <1>1, IInvAlways, PTL

\* An asker that polls misses its question only when a client deleted it:
\* the deletions of other askers are of their own questions.
THEOREM LostOnlyIfDeletedAlways == Spec => []LostOnlyIfDeleted
<1>1. IInv => LostOnlyIfDeleted
  BY DEF IInv, InListOrDeleted, LostOnlyIfDeleted
<1>2. QED
  BY <1>1, IInvAlways, PTL

\* Each question in the list has an asker that waits for it, or its deletion
\* is in the mailbox.
THEOREM NoLeftoversAlways == Spec => []NoLeftovers
<1>1. ASSUME IInv PROVE NoLeftovers
  <2>1. SUFFICES ASSUME NEW id \in DOMAIN questions
                 PROVE  \/ \E a \in Askers : asker[a].id = id /\ asker[a].pc \in Waiting
                        \/ [type |-> "Delete", id |-> id] \in Range(mailbox)
    BY DEF NoLeftovers
  <2>2. CASE \E i \in DOMAIN mailbox : mailbox[i] = [type |-> "Delete", id |-> id]
    BY <2>2 DEF Range
  <2>3. QED
    BY <1>1, <2>2 DEF IInv, LeftoversDue
<1>2. IInv => NoLeftovers
  BY <1>1
<1>3. QED
  BY <1>2, IInvAlways, PTL
=============================================================================
