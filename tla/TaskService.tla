---------------------------- MODULE TaskService ----------------------------
(***************************************************************************)
(* What a program may rely on when it hands tasks to the scheduler, without *)
(* the connection, the two maps and the routing: tasks are queued, leave   *)
(* the queue in the order of enqueueing, the server decides each of them   *)
(* once, and each one that left the queue and was decided finishes exactly *)
(* once, with the verdict decided for it.                                  *)
(***************************************************************************)
EXTENDS Naturals, Sequences

CONSTANT Tasks      \* 1..n, in the order of enqueueing

VARIABLES
    queue,          \* enqueued, the command not yet on its way
    running,        \* the command is on its way, no verdict received
    decision,       \* the server's verdict on each command
    result          \* the verdict each finished task returned

serviceVars == <<queue, running, decision, result>>

Verdict == {"OK", "NO", "BAD"}

\* The verdicts a task may make of a decision.
Made(d) == CASE d = "OK"  -> {"Ok", "MissingData"}
             [] d = "NO"  -> {"UnexpectedNoResponse"}
             [] d = "BAD" -> {"UnexpectedBadResponse"}
             [] d = "none" -> {}

Submitted(t) == decision[t] # "none" \/ result[t] # "none" \/ t \in running
                  \/ \E i \in DOMAIN queue : queue[i] = t

Init ==
    /\ queue = <<>>
    /\ running = {}
    /\ decision = [t \in Tasks |-> "none"]
    /\ result = [t \in Tasks |-> "none"]

Submit(t) ==
    /\ ~Submitted(t) /\ \A u \in Tasks : u < t => Submitted(u)
    /\ queue' = Append(queue, t)
    /\ UNCHANGED <<running, decision, result>>

Start ==
    /\ queue # <<>>
    /\ running' = running \cup {Head(queue)}
    /\ queue' = Tail(queue)
    /\ UNCHANGED <<decision, result>>

\* The server may be faster than the report that the command was sent.
Decide(t, v) ==
    /\ decision[t] = "none"
    /\ t \in running \/ (queue # <<>> /\ Head(queue) = t)
    /\ decision' = [decision EXCEPT ![t] = v]
    /\ UNCHANGED <<queue, running, result>>

Finish(t) ==
    /\ t \in running
    /\ running' = running \ {t}
    /\ \E v \in Made(decision[t]) : result' = [result EXCEPT ![t] = v]
    /\ UNCHANGED <<queue, decision>>

Next ==
    \/ \E t \in Tasks : Submit(t) \/ Finish(t) \/ \E v \in Verdict : Decide(t, v)
    \/ Start

Spec == Init /\ [][Next]_serviceVars
FairSpec == Spec /\ WF_serviceVars(Start) /\ \A t \in Tasks : WF_serviceVars(Finish(t))
=============================================================================
