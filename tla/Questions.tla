------------------------------ MODULE Questions ------------------------------
(***************************************************************************)
(* Questions: the service that keeps them                                  *)
(* (rust/agama-utils/src/question/service.rs), the two ways of asking one  *)
(* and waiting for the answer (ask_question of                             *)
(* rust/agama-utils/src/question.rs, and the Ruby client                   *)
(* service/lib/agama/http/clients/questions.rb), and the HTTP clients that *)
(* answer, delete and configure (rust/agama-server/src/server/web.rs).     *)
(*                                                                         *)
(* The service is an actor with a FIFO mailbox: sending a message and      *)
(* handling it are two actions, and the reply of a call is stored in the   *)
(* state of the asker, who looks at it later.  The list of questions is in *)
(* the order of their ids, which are never used again: it is a function    *)
(* from the ids.                                                           *)
(***************************************************************************)
EXTENDS Naturals, Sequences, FiniteSets, Functions

CONSTANTS
    Askers,         \* code that asks a question, once
    RubyAskers,     \* those that use the Ruby client
    Specs,          \* the questions that may be asked
    Configs,        \* the configurations a client may set
    Answers,        \* the actions a user may choose
    NoAnswer,
    Unset,          \* a field that a rule or a question does not have
    MaxRequests     \* bound on the requests of meddling clients

Missing == "missing"        \* what Get says of a question that is not there
AnyAnswer == Answers \union {NoAnswer}

\* Without configuration there are no rules and the policy is to ask.
NoConfig == [policy |-> "user", rules |-> <<>>]

ASSUME AskersAssumption ==
    RubyAskers \subseteq Askers /\ IsFiniteSet(Askers) /\ MaxRequests \in Nat

ASSUME AnswersAssumption ==
    NoAnswer \notin Answers /\ Missing \notin Answers /\ NoAnswer # Missing

\* A rule has an answer, and a question may have a default one.
ASSUME ConfigsAssumption ==
    /\ NoConfig \in Configs
    /\ \A c \in Configs : /\ DOMAIN c.rules \subseteq Nat
                          /\ \A i \in DOMAIN c.rules : c.rules[i].answer \in Answers
    /\ \A spec \in Specs : spec.default_action \in AnyAnswer

VARIABLES
    config,         \* Service.config
    questions,      \* Service.questions
    current_id,     \* Service.current_id
    mailbox,        \* the messages that wait to be handled
    asker,          \* what each asker is doing
    requests,       \* the number of requests of the meddling clients
    given,          \* history: the answers that each question was given
    removed         \* history: the questions that clients deleted

vars == <<config, questions, current_id, mailbox, asker, requests, given, removed>>

Ids == 1 .. Cardinality(Askers)
Question == [spec : Specs, answer : AnyAnswer]

Waiting == {"asking", "sleeping", "polling", "deciding"}
Ended == {"answered", "not_found"}

Message ==
    [type : {"Ask"}, from : Askers, spec : Specs]
      \union [type : {"Get"}, from : Askers]
      \union [type : {"Answer"}, id : Ids, answer : Answers]
      \union [type : {"Delete"}, id : Ids]
      \union [type : {"SetConfig"}, config : Configs]

TypeOK ==
    /\ config \in Configs
    /\ DOMAIN questions \subseteq Ids
    /\ questions \in [DOMAIN questions -> Question]
    /\ current_id \in 0 .. Cardinality(Askers)
    /\ mailbox \in Seq(Message)
    /\ asker \in [Askers -> [pc : {"idle"} \union Waiting \union Ended,
                             id : {0} \union Ids,
                             answer : AnyAnswer \union {Missing}]]
    /\ given \subseteq Ids \X Answers
    /\ removed \subseteq Ids

Init ==
    /\ config = NoConfig
    /\ questions = [id \in {} |-> NoAnswer]
    /\ current_id = 0
    /\ mailbox = <<>>
    /\ asker = [a \in Askers |-> [pc |-> "idle", id |-> 0, answer |-> NoAnswer]]
    /\ requests = 0
    /\ given = {}
    /\ removed = {}

-----------------------------------------------------------------------------
(* Rules.  The data of a question and of a rule are sets of (key, value).  *)

\* AnswerRule::answers_to
AnswersTo(rule, spec) ==
    /\ rule.class \in {Unset, spec.class}
    /\ rule.text \in {Unset, spec.text}
    /\ rule.data # Unset => rule.data \subseteq spec.data

\* Service::find_answer: the first rule that applies; else, with the
\* automatic policy, the default action, if there is one.
First(S) == CHOOSE i \in S : \A j \in S : i <= j

FindAnswer(spec) ==
    LET rules == {i \in DOMAIN config.rules : AnswersTo(config.rules[i], spec)}
    IN IF rules # {} THEN config.rules[First(rules)].answer
       ELSE IF config.policy = "auto" THEN spec.default_action
       ELSE NoAnswer

-----------------------------------------------------------------------------
(* The handlers of the service.                                            *)

Receive(type) ==
    /\ mailbox # <<>>
    /\ Head(mailbox).type = type
    /\ mailbox' = Tail(mailbox)

With(id, question) ==
    [x \in DOMAIN questions \union {id} |-> IF x = id THEN question ELSE questions[x]]

\* A bug to try: the id is read before it is incremented.
HandleAskFromZero ==
    /\ Receive("Ask")
    /\ LET m == Head(mailbox)
           id == current_id
           answer == FindAnswer(m.spec)
       IN /\ current_id' = id + 1
          /\ questions' = With(id, [spec |-> m.spec, answer |-> answer])
          /\ asker' = [asker EXCEPT ![m.from] = [pc |-> "deciding", id |-> id, answer |-> answer]]
    /\ UNCHANGED <<config, requests, given, removed>>

HandleAsk ==
    /\ Receive("Ask")
    /\ LET m == Head(mailbox)
           id == current_id + 1
           answer == FindAnswer(m.spec)
       IN /\ current_id' = id
          /\ questions' = With(id, [spec |-> m.spec, answer |-> answer])
          /\ given' = given \union ({<<id, answer>>} \intersect (Ids \X Answers))
          /\ asker' = [asker EXCEPT ![m.from] = [pc |-> "deciding", id |-> id, answer |-> answer]]
    /\ UNCHANGED <<config, requests, removed>>

\* What the list says of a question.
AnswerOf(id) == IF id \in DOMAIN questions THEN questions[id].answer ELSE Missing

\* A bug to try: the asker looks at the last question.
HandleGetLast ==
    /\ Receive("Get")
    /\ LET m == Head(mailbox)
           last == {id \in DOMAIN questions : \A x \in DOMAIN questions : x <= id}
           answer == IF last = {} THEN Missing ELSE questions[First(last)].answer
       IN asker' = [asker EXCEPT ![m.from].pc = "deciding", ![m.from].answer = answer]
    /\ UNCHANGED <<config, questions, current_id, requests, given, removed>>

HandleGet ==
    /\ Receive("Get")
    /\ LET a == Head(mailbox).from
       IN asker' = [asker EXCEPT ![a].pc = "deciding",
                                 ![a].answer = AnswerOf(asker[a].id)]
    /\ UNCHANGED <<config, questions, current_id, requests, given, removed>>

\* A question that is not there is an error (UnknownQuestion) for the client;
\* one that has an answer gets the new one.
HandleAnswer ==
    /\ Receive("Answer")
    /\ LET m == Head(mailbox)
       IN IF m.id \in DOMAIN questions
          THEN /\ questions' = [questions EXCEPT ![m.id].answer = m.answer]
               /\ given' = given \union {<<m.id, m.answer>>}
          ELSE UNCHANGED <<questions, given>>
    /\ UNCHANGED <<config, current_id, asker, requests, removed>>

\* A bug to try: the list is cut at the deleted question.
HandleDeleteRest ==
    /\ Receive("Delete")
    /\ questions' = Restrict(questions, {id \in DOMAIN questions : id < Head(mailbox).id})
    /\ UNCHANGED <<config, current_id, asker, requests, given, removed>>

HandleDelete ==
    /\ Receive("Delete")
    /\ questions' = Restrict(questions, DOMAIN questions \ {Head(mailbox).id})
    /\ UNCHANGED <<config, current_id, asker, requests, given, removed>>

HandleSetConfig ==
    /\ Receive("SetConfig")
    /\ config' = Head(mailbox).config
    /\ UNCHANGED <<questions, current_id, asker, requests, given, removed>>

Serve ==
    \/ HandleAsk \/ HandleGet \/ HandleAnswer \/ HandleDelete \/ HandleSetConfig

-----------------------------------------------------------------------------
(* The askers.                                                             *)

Post(m) == mailbox' = Append(mailbox, m)

Ask(a) ==
    /\ asker[a].pc = "idle"
    /\ \E spec \in Specs : Post([type |-> "Ask", from |-> a, spec |-> spec])
    /\ asker' = [asker EXCEPT ![a].pc = "asking"]
    /\ UNCHANGED <<config, questions, current_id, requests, given, removed>>

\* One round of the loop: sleep, then ask for the list.
Poll(a) ==
    /\ asker[a].pc = "sleeping"
    /\ Post([type |-> "Get", from |-> a])
    /\ asker' = [asker EXCEPT ![a].pc = "polling"]
    /\ UNCHANGED <<config, questions, current_id, requests, given, removed>>

NotYet(a) ==
    /\ asker[a].pc = "deciding"
    /\ asker[a].answer = NoAnswer
    /\ asker' = [asker EXCEPT ![a].pc = "sleeping"]
    /\ UNCHANGED <<config, questions, current_id, mailbox, requests, given, removed>>

\* A bug to try: the question is left in the list.
TakeAnswerOnly(a) ==
    /\ asker[a].pc = "deciding"
    /\ asker[a].answer \in Answers
    /\ asker' = [asker EXCEPT ![a].pc = "answered"]
    /\ UNCHANGED <<config, questions, current_id, mailbox, requests, given, removed>>

\* The answer is there: the asker deletes the question and goes on.
TakeAnswer(a) ==
    /\ asker[a].pc = "deciding"
    /\ asker[a].answer \in Answers
    /\ Post([type |-> "Delete", id |-> asker[a].id])
    /\ asker' = [asker EXCEPT ![a].pc = "answered"]
    /\ UNCHANGED <<config, questions, current_id, requests, given, removed>>

\* A bug to try: a question that disappeared is polled again.
PollForEver(a) ==
    /\ asker[a].pc = "deciding"
    /\ asker[a].answer = Missing
    /\ asker' = [asker EXCEPT ![a].pc = "sleeping", ![a].answer = NoAnswer]
    /\ UNCHANGED <<config, questions, current_id, mailbox, requests, given, removed>>

\* The question is gone: an error in Rust (QuestionNotFound); in Ruby,
\* wait_answer sleeps and asks again.
NotFound(a) ==
    /\ asker[a].pc = "deciding"
    /\ asker[a].answer = Missing
    /\ asker' = [asker EXCEPT
                    ![a].pc = IF a \in RubyAskers THEN "sleeping" ELSE "not_found"]
    /\ UNCHANGED <<config, questions, current_id, mailbox, requests, given, removed>>

AskerStep(a) == Poll(a) \/ NotYet(a) \/ TakeAnswer(a) \/ NotFound(a)

-----------------------------------------------------------------------------
(* The clients.                                                            *)

\* A user answers the questions that have no answer.
UserAnswers(id) ==
    /\ AnswerOf(id) = NoAnswer
    /\ \A m \in Range(mailbox) : m.type = "Answer" => m.id # id
    /\ \E x \in Answers : Post([type |-> "Answer", id |-> id, answer |-> x])
    /\ UNCHANGED <<config, questions, current_id, asker, requests, given, removed>>

\* Other clients may answer again, delete, and load a configuration.
Meddle ==
    /\ requests < MaxRequests
    /\ requests' = requests + 1
    /\ \/ \E id \in 1 .. current_id, x \in Answers :
             Post([type |-> "Answer", id |-> id, answer |-> x]) /\ UNCHANGED removed
       \/ \E id \in 1 .. current_id :
             Post([type |-> "Delete", id |-> id]) /\ removed' = removed \union {id}
       \/ \E c \in Configs : Post([type |-> "SetConfig", config |-> c]) /\ UNCHANGED removed
    /\ UNCHANGED <<config, questions, current_id, asker, given>>

Next ==
    \/ Serve
    \/ \E a \in Askers : Ask(a) \/ AskerStep(a)
    \/ \E id \in Ids : UserAnswers(id)
    \/ Meddle

\* The actor handles its messages, the askers poll, and somebody answers the
\* questions that the user interface shows.
Fairness ==
    /\ WF_vars(Serve)
    /\ \A a \in Askers : WF_vars(AskerStep(a))
    /\ \A id \in Ids : WF_vars(UserAnswers(id))

Spec == Init /\ [][Next]_vars /\ Fairness

-----------------------------------------------------------------------------
(* Properties.                                                             *)

\* An asker goes on with an answer that was given to its own question, by a
\* rule, by the policy or by a client, even when answers, deletions and other
\* questions cross its polling.
OwnAnswer ==
    \A a \in Askers :
        asker[a].pc = "answered" => <<asker[a].id, asker[a].answer>> \in given

\* ask_question finds its question until a client deletes it: what other
\* askers do when they end does not concern it.
LostOnlyIfDeleted ==
    \A a \in Askers : asker[a].answer = Missing => asker[a].id \in removed

\* The list holds nothing but questions that somebody still waits for, or
\* whose deletion is on its way: the service forgets what was answered.
NoLeftovers ==
    \A id \in DOMAIN questions :
        \/ \E a \in Askers : asker[a].id = id /\ asker[a].pc \in Waiting
        \/ [type |-> "Delete", id |-> id] \in Range(mailbox)

\* Code that asks through ask_question always gets a result, whatever the
\* clients do with its question.
AskersReturn ==
    \A a \in Askers \ RubyAskers : (asker[a].pc = "asking") ~> (asker[a].pc \in Ended)

\* wait_answer of the Ruby client: "raise an error if the question is not
\* found".
RubyWaitEnds ==
    \A a \in RubyAskers : (asker[a].pc = "asking") ~> (asker[a].pc \in Ended)
=============================================================================
