---------------------------- MODULE RequestServer ----------------------------
(***************************************************************************)
(* What continuous batching promises to a client: requests stand in one    *)
(* line, start in the order in which they were taken, at most Capacity of  *)
(* them run at a time, and each of them gets exactly one outcome.          *)
(***************************************************************************)
EXTENDS Naturals, Sequences, FiniteSets, SequencesExt, SeqSelect

CONSTANTS
    Request,       \* request ids
    Outcome,       \* how a request can end
    NoOutcome,     \* the outcome of a request that has not ended
    Capacity       \* how many requests may run at a time

VARIABLES line, running, outcome
serverVars == <<line, running, outcome>>

Open == Range(line) \cup running

ServerInit ==
    /\ line = <<>>
    /\ running = {}
    /\ outcome = [r \in Request |-> NoOutcome]

\* New requests join the end of the line together.
Join(q) ==
    /\ IsInjective(q)
    /\ \A r \in Range(q) : r \notin Open /\ outcome[r] = NoOutcome
    /\ line' = line \o q
    /\ UNCHANGED <<running, outcome>>

\* The first request of the line starts.
Start ==
    /\ line # <<>>
    /\ Cardinality(running) < Capacity
    /\ running' = running \cup {Head(line)}
    /\ line' = Tail(line)
    /\ UNCHANGED outcome

\* Requests in the line or running end together.
Answer(S, o) ==
    /\ S # {} /\ S \subseteq Open
    /\ outcome' = [r \in Request |-> IF r \in S THEN o ELSE outcome[r]]
    /\ running' = running \ S
    /\ line' = Without(line, S)

AnswerOne(r) == \E S \in SUBSET Open, o \in Outcome : r \in S /\ Answer(S, o)

ServerNext ==
    \/ \E n \in 1..Cardinality(Request) : \E q \in [1..n -> Request] : Join(q)
    \/ Start
    \/ \E r \in Request : AnswerOne(r)

ServerSafety == ServerInit /\ [][ServerNext]_serverVars
ServerSpec == ServerSafety /\ \A r \in Request : WF_serverVars(AnswerOne(r))
=============================================================================
