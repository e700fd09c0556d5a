---------------------------- MODULE ScoreService ----------------------------
(***************************************************************************)
(* What the harness promises to whoever runs it: a client asks for the     *)
(* scores of a list of rows of one dataset, answers come in one per row    *)
(* and in the order asked for, and the request is reported done only when  *)
(* every row has its own score.  A score may be wrong and a request may    *)
(* fail at any time; both are reported, never passed over.                 *)
(***************************************************************************)
EXTENDS Integers, Sequences

CONSTANTS
    Clients,    \* who asks
    Datasets,   \* what they ask about
    RowNumbers, \* rows that can be scored
    Requests,   \* lists of rows that may be asked for
    NoRequest   \* a client that waits for nothing

VARIABLES
    request,    \* request[c]: the dataset and rows c asked for
    answers,    \* answers[c]: for each row answered so far, was it that row's score
    outcome     \* outcome[c]: how c's last request ended

service == <<request, answers, outcome>>

Init ==
    /\ request = [c \in Clients |-> NoRequest]
    /\ answers = [c \in Clients |-> <<>>]
    /\ outcome = [c \in Clients |-> "none"]

Ask(c) ==
    /\ request[c] = NoRequest
    /\ \E d \in Datasets, l \in Requests :
         request' = [request EXCEPT ![c] = [dataset |-> d, rows |-> l]]
    /\ outcome' = [outcome EXCEPT ![c] = "running"]
    /\ UNCHANGED answers

(* The next row asked for is answered, rightly or not. *)
AnswerNext(c) ==
    /\ request[c] # NoRequest
    /\ Len(answers[c]) < Len(request[c].rows)
    /\ LET r == request[c].rows[Len(answers[c]) + 1] IN
       /\ r \in RowNumbers
       /\ \E right \in BOOLEAN :
            answers' = [answers EXCEPT ![c] = Append(@, [row |-> r, right |-> right])]
    /\ UNCHANGED <<request, outcome>>

Close(c, how) ==
    /\ request[c] # NoRequest
    /\ request' = [request EXCEPT ![c] = NoRequest]
    /\ answers' = [answers EXCEPT ![c] = <<>>]
    /\ outcome' = [outcome EXCEPT ![c] = how]

EveryRowAnswered(c) ==
    /\ request[c] # NoRequest
    /\ request[c].rows # <<>>
    /\ Len(answers[c]) = Len(request[c].rows)

AllRight(c) == \A n \in 1..Len(answers[c]) : answers[c][n].right

ReportDone(c)     == EveryRowAnswered(c) /\ AllRight(c) /\ Close(c, "ok")
ReportDisagree(c) == EveryRowAnswered(c) /\ ~AllRight(c) /\ Close(c, "disagree")
ReportFailure(c)  == Close(c, "failed")

Next ==
    \E c \in Clients :
        Ask(c) \/ AnswerNext(c) \/ ReportDone(c) \/ ReportDisagree(c) \/ ReportFailure(c)

Spec == Init /\ [][Next]_service
=============================================================================
