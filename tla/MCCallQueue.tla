---------------------------- MODULE MCCallQueue ----------------------------
EXTENDS CallQueue
CONSTANTS q1, q2, a, b

\* Two calls of a queue with one agent.
TwoCalls == {1, 2}
OneQueue == [c \in TwoCalls |-> q1]
Alone == [q \in {q1} |-> {{a}}]

\* A third call, of a queue whose member is a hunt group that this agent is in.
ThreeCalls == {1, 2, 3}
TwoQueues == [c \in ThreeCalls |-> IF c = 3 THEN q2 ELSE q1]
Group == [q \in {q1, q2} |-> IF q = q1 THEN {{a}} ELSE {{a, b}}]

-----------------------------------------------------------------------------
\* The bound of the run with three calls: the second or the third comes, not both.
\* Two of one queue may stand in either order, by their seconds or by their numbers.
OneQueueBound ==
    /\ pc'[2] = "out" \/ pc'[3] = "out"
    /\ score'[2] = 0

\* Two of different queues meet at the agent only: what the line is made of (the
\* seconds, hangups, heartbeats) is left out, and the phone of the group's other
\* user does not ring.
TwoQueueBound ==
    pc'[3] # "out" =>
        /\ \A c \in Calls : score'[c] = 0 /\ leg'[<<c, b>>] \in {"none", "spawned"}
        /\ hung' = {} /\ stillIn' = {}

Pairs == Init /\ [][Next /\ OneQueueBound /\ TwoQueueBound]_vars

\* The bound of the run under fairness: callers stay on the line, and only the
\* reaper hangs up.
Patient ==
    /\ Init /\ [][Next /\ (hung' = hung \/ queued' # queued)]_vars
    /\ FairLine /\ FairTasks
=============================================================================
