----------------------------- MODULE MCQuestions -----------------------------
(***************************************************************************)
(* Two askers, one of them in Ruby, that may ask a question with two data  *)
(* and a default action or one without, and configurations with each of    *)
(* the ways of answering: a rule for the class, a rule for the data, and   *)
(* the automatic policy.                                                   *)
(***************************************************************************)
EXTENDS Questions

CONSTANTS rust, ruby

MCAskers == {rust, ruby}
MCRubyAskers == {ruby}

Luks == [class |-> "luks", text |-> "password", data |-> {<<"device", 1>>, <<"size", 2>>},
         default_action |-> "No"]
Conflict == [class |-> "conflict", text |-> "resolve", data |-> {}, default_action |-> NoAnswer]

ByClass == [class |-> "conflict", text |-> Unset, data |-> Unset, answer |-> "Yes"]
ByData == [class |-> Unset, text |-> Unset, data |-> {<<"device", 1>>, <<"size", 3>>},
           answer |-> "Yes"]

MCSpecs == {Luks, Conflict}
MCConfigs == {NoConfig,
              [policy |-> "auto", rules |-> <<ByClass>>],
              [policy |-> "user", rules |-> <<ByData, ByClass>>]}
MCAnswers == {"Yes", "No"}
=============================================================================
