----------------------------- MODULE PceAnswers -----------------------------
(***************************************************************************)
(* What the pages that read the PCE for someone who waits promise: an      *)
(* answer is one of the PCE that is configured when it is given, whatever  *)
(* was read before, or there is none.                                      *)
(***************************************************************************)
CONSTANTS
    NoAnswer,   \* not answered, or refused
    Askers,     \* the requests
    PceNames    \* the PCEs

VARIABLES
    named,   \* the PCE the settings name
    given    \* what a request was answered from: NoAnswer or a PCE

answerVars == <<named, given>>

AnswersInit == named \in PceNames /\ given = [c \in Askers |-> NoAnswer]

SwitchPce == named' \in PceNames /\ UNCHANGED given
Answer(c) == given[c] = NoAnswer /\ given' = [given EXCEPT ![c] = named] /\ UNCHANGED named

AnswersNext == SwitchPce \/ \E c \in Askers : Answer(c)
AnswersSpec == AnswersInit /\ [][AnswersNext]_answerVars
=============================================================================
