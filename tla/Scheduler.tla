----------------------------- MODULE Scheduler -----------------------------
(***************************************************************************)
(* src/src/tasks/mod.rs: the scheduler that pairs every command with the   *)
(* task it was made for, routes each response to the first task that wants *)
(* it and turns the command completion result into the task's output.      *)
(*                                                                         *)
(* One action per arm of the match in Scheduler::progress (one iteration   *)
(* of its loop: progress hands control back between any two of them when   *)
(* the input it was given ends there), and one for enqueue_task.           *)
(*                                                                         *)
(* An entry (handle, tag, task) of a TaskMap is the command's number: it   *)
(* is handle and tag at once, and kind[c] is the task.  What a task has    *)
(* taken in so far is consumed[c].                                         *)
(***************************************************************************)
EXTENDS ClientNext

VARIABLES
    waiting,    \* waiting_tasks
    active,     \* active_tasks
    consumed,   \* the responses each task has consumed, in order
    output,     \* the output of each finished task
    event       \* how the last iteration of progress() ended

schedVars == <<waiting, active, consumed, output, event>>
vars == <<greeted, issued, kind, unsent, current, wire, server, given, budget, open,
          waiting, active, consumed, output, event>>

Ended(name, c) == [name |-> name, cmd |-> c]
Continue == Ended("continue", 0)
EventNames == {"continue", "GreetingReceived", "TaskFinished", "Unsolicited", "Bye",
               "Flow", "UnexpectedTaggedResponse", "panic"}

SchedInit ==
    /\ waiting = <<>>
    /\ active = <<>>
    /\ consumed = [c \in Command |-> <<>>]
    /\ output = [c \in Command |-> NoOutput]
    /\ event = Continue

-----------------------------------------------------------------------------
(* TaskMap *)

push_back(tasks, c) == Append(tasks, c)

Has(tasks, c) == \E i \in DOMAIN tasks : tasks[i] = c

position(tasks, c) == CHOOSE i \in DOMAIN tasks :
                         tasks[i] = c /\ \A j \in DOMAIN tasks : tasks[j] = c => i <= j

Without(tasks, i) == SubSeq(tasks, 1, i - 1) \o SubSeq(tasks, i + 1, Len(tasks))

remove_by_handle(tasks, handle) == Without(tasks, position(tasks, handle))
remove_by_tag(tasks, tag) == Without(tasks, position(tasks, tag))

\* The active tasks that do not hand the response back.
Takers(tasks, r) == {i \in DOMAIN tasks : Consumes(kind[tasks[i]], r)}

\* A slip (like all that are called so here: a plausible mistake, used by no
\* action, which the properties tell from the code): the last of them takes it.
trickle_down_Last(tasks, r) ==
    IF Takers(tasks, r) = {} THEN 0
    ELSE tasks[CHOOSE i \in Takers(tasks, r) : \A j \in Takers(tasks, r) : j <= i]

\* The first of them takes it; 0 if there is none.
trickle_down(tasks, r) ==
    IF Takers(tasks, r) = {} THEN 0
    ELSE tasks[CHOOSE i \in Takers(tasks, r) : \A j \in Takers(tasks, r) : i <= j]

-----------------------------------------------------------------------------
(* Scheduler *)

\* A slip: the handle is taken before it is generated.
enqueue_task_Early(k) ==
    /\ enqueue_command(k)
    /\ waiting' = push_back(waiting, issued)
    /\ UNCHANGED <<active, consumed, output, event>>

enqueue_task(k) ==
    /\ enqueue_command(k)
    /\ waiting' = push_back(waiting, issued + 1)
    /\ UNCHANGED <<active, consumed, output, event>>

\* An unwrap of None: the program panics, nothing happens any more.
Panic == event' = Ended("panic", 0) /\ UNCHANGED <<waiting, active, consumed, output>>

Return(name) ==
    event' = Ended(name, 0) /\ UNCHANGED <<waiting, active, consumed, output>>

\* A slip: the task is copied, not moved.
Start_Copy(handle) ==
    /\ active' = push_back(active, handle)
    /\ event' = Continue
    /\ UNCHANGED <<waiting, consumed, output>>

\* waiting_tasks.remove_by_handle(handle).unwrap(), active_tasks.push_back
Start(handle) ==
    IF Has(waiting, handle)
    THEN /\ waiting' = remove_by_handle(waiting, handle)
         /\ active' = push_back(active, handle)
         /\ event' = Continue
         /\ UNCHANGED <<consumed, output>>
    ELSE Panic

\* A slip: the task stays active.
Finish_Kept(c, r, rest) ==
    /\ output' = [output EXCEPT ![c] = process_tagged(kind[c], consumed[c], r)]
    /\ event' = Ended("TaskFinished", c)
    /\ UNCHANGED <<waiting, active, consumed>>

Finish(c, r, rest) ==
    /\ active' = rest
    /\ output' = [output EXCEPT ![c] = process_tagged(kind[c], consumed[c], r)]
    /\ event' = Ended("TaskFinished", c)
    /\ UNCHANGED <<waiting, consumed>>

\* active_tasks.remove_by_handle(handle).unwrap(), process_tagged
FinishByHandle(c, r) ==
    IF Has(active, c) THEN Finish(c, r, remove_by_handle(active, c)) ELSE Panic

\* What is handed back by every task is returned to the caller.
Route(r) ==
    LET c == trickle_down(active, r)
    IN  IF c = 0
        THEN Return(IF r.type = "bye" THEN "Bye" ELSE "Unsolicited")
        ELSE /\ consumed' = [consumed EXCEPT ![c] = Append(@, r)]
             /\ event' = Continue
             /\ UNCHANGED <<waiting, active, output>>

GreetingReceived(r) == EventGreetingReceived(r) /\ Return("GreetingReceived")

\* Slips: the event is ignored, the task stays among the waiting.
CommandSent_Ignored(handle) == EventCommandSent(handle) /\ Return("continue")

CommandSent(handle) == EventCommandSent(handle) /\ Start(handle)
AuthenticateStarted_Ignored(handle) ==
    EventAuthenticateStarted(handle) /\ Return("continue")

AuthenticateStarted(handle) == EventAuthenticateStarted(handle) /\ Start(handle)
IdleCommandSent_Ignored(handle) == EventIdleCommandSent(handle) /\ Return("continue")

IdleCommandSent(handle) == EventIdleCommandSent(handle) /\ Start(handle)

CommandRejected(r) == EventCommandRejected(r) /\ FinishByHandle(r.id, r)
AuthenticateStatusReceived(r) ==
    EventAuthenticateStatusReceived(r) /\ FinishByHandle(r.id, r)
IdleRejected(r) == EventIdleRejected(r) /\ FinishByHandle(r.id, r)

\* A slip: the task is never asked for its authentication data.
AuthenticateContinuationRequestReceived_NoData(handle, r) ==
    /\ EventAuthenticateContinuationRequestReceived(handle, r)
    /\ Return("continue") /\ UNCHANGED current

AuthenticateContinuationRequestReceived(handle, r) ==
    /\ EventAuthenticateContinuationRequestReceived(handle, r)
    /\ CASE ~Has(active, handle) -> Panic /\ UNCHANGED current
         [] Has(active, handle) /\ Task[kind[handle]].answers ->
               set_authenticate_data /\ Return("continue")
         [] Has(active, handle) /\ ~Task[kind[handle]].answers ->
               Return("Unsolicited") /\ UNCHANGED current

DataReceived(r) == EventDataReceived(r) /\ Route(r)
ContinuationRequestReceived(r) == EventContinuationRequestReceived(r) /\ Route(r)
StatusReceived(r) == EventStatusReceived(r) /\ r.type \in {"untagged", "bye"} /\ Route(r)
\* Slips: only the oldest task is compared with the tag; it is taken without.
TaggedReceived_FirstOnly(r) ==
    /\ EventStatusReceived(r) /\ r.type = "tagged"
    /\ IF active # <<>> /\ active[1] = r.id THEN Finish(r.id, r, Tail(active))
                                             ELSE Return("UnexpectedTaggedResponse")
TaggedReceived_Oldest(r) ==
    /\ EventStatusReceived(r) /\ r.type = "tagged"
    /\ IF active # <<>> THEN Finish(active[1], r, Tail(active))
                        ELSE Return("UnexpectedTaggedResponse")

TaggedReceived(r) ==
    /\ EventStatusReceived(r) /\ r.type = "tagged"
    /\ IF Has(active, r.id) THEN Finish(r.id, r, remove_by_tag(active, r.id))
                            ELSE Return("UnexpectedTaggedResponse")

IdleAccepted(r) == EventIdleAccepted(r) /\ Return("continue")
IdleDoneSent(handle) == EventIdleDoneSent(handle) /\ Return("continue")

\* The engine's error is returned, unless the discarded line is a FETCH.
MalformedMessage(r) ==
    ErrorMalformedMessage(r) /\ Return(IF r.what = "FETCH" THEN "continue" ELSE "Flow")

ReceiveEvent(r) ==
    \/ GreetingReceived(r)
    \/ LiteralContinue(r) /\ Return("continue")
    \/ CommandRejected(r)
    \/ \E handle \in Command : AuthenticateContinuationRequestReceived(handle, r)
    \/ AuthenticateStatusReceived(r)
    \/ DataReceived(r)
    \/ ContinuationRequestReceived(r)
    \/ StatusReceived(r)
    \/ TaggedReceived(r)
    \/ IdleAccepted(r)
    \/ IdleRejected(r)
    \/ MalformedMessage(r)

SendEvent(handle) ==
    \/ CommandSent(handle)
    \/ AuthenticateStarted(handle)
    \/ IdleCommandSent(handle)
    \/ IdleDoneSent(handle)

Alive == event.name # "panic"

\* One iteration of the loop in progress().
progress ==
    /\ Alive
    /\ \/ \E handle \in Command : SendEvent(handle)
       \/ wire # <<>> /\ ReceiveEvent(Head(wire))

-----------------------------------------------------------------------------
(* A program that uses the scheduler.                                      *)

Enqueue == Alive /\ \E k \in Kinds : enqueue_task(k)
WriteOutput == Alive /\ Write /\ UNCHANGED schedVars
EndIdle ==
    /\ Alive /\ current.phase = "idling" /\ set_idle_done
    /\ UNCHANGED <<greeted, issued, kind, unsent, wire, serverVars, schedVars>>
ServerStep == Server /\ UNCHANGED schedVars

\* Nothing is left to do: not a deadlock.
Finished == issued = MaxCommands /\ \A c \in Command : output[c] # NoOutput
Rest == /\ ~Alive \/ (wire = <<>> /\ (Finished \/ ~open))
        /\ UNCHANGED vars

Init == NextInit /\ SchedInit
Next == Enqueue \/ progress \/ WriteOutput \/ EndIdle \/ ServerStep \/ Rest
Spec == Init /\ [][Next]_vars

\* A caller that keeps calling progress() and writing what it hands out, and
\* that ends an IDLE of its own; a server that answers every command.
FairSpec ==
    /\ Spec
    /\ WF_vars(progress) /\ WF_vars(WriteOutput) /\ WF_vars(EndIdle)
    /\ \A c \in Command :
          WF_vars(Owed(c) /\ UNCHANGED schedVars)

-----------------------------------------------------------------------------
(* Properties *)

\* Every variable has its type.
SchedTypeOK ==
    /\ waiting \in Seq(Command)
    /\ active \in Seq(Command)
    /\ consumed \in [Command -> Seq(Responses)]
    /\ output \in [Command -> [verdict : Verdicts, items : SUBSET Responses]]
    /\ event \in [name : EventNames, cmd : 0..MaxCommands]
TypeOK == NextTypeOK /\ SchedTypeOK

\* "`waiting_tasks` contains all unsent `Commands`" (the comment on the unwrap
\* in the CommandSent arm), in fact it is exactly the engine's queue of them,
\* in its order, the one being sent first: whatever is sent, rejected, answered
\* or enqueued in between, the two queues never drift apart.
BeingSent == IF current.phase \in {"literal", "rest", "sent", "auth_sent", "idle_sent"}
             THEN <<current.cmd>> ELSE <<>>
WaitingIsUnsent == Alive => waiting = BeingSent \o unsent

\* No task is lost or kept twice: each command enqueued has its task in exactly
\* one of the two maps, once, or has its output; and both maps are in the order
\* of enqueueing, on which the routing of responses to the first taker depends.
Increasing(s) == \A i, j \in DOMAIN s : i < j => s[i] < s[j]
EveryCommandHasItsTask ==
    Alive =>
      /\ Increasing(waiting) /\ Increasing(active)
      /\ \A c \in Command :
            /\ c <= issued <=> Has(waiting, c) \/ Has(active, c) \/ output[c] # NoOutput
            /\ Has(waiting, c) => ~Has(active, c) /\ output[c] = NoOutput
            /\ Has(active, c) => output[c] = NoOutput
            /\ \A d \in Command : Has(active, c) /\ Has(waiting, d) => c < d

\* The verdicts on their way to the client.
VerdictsUnderWay(c) ==
    Cardinality({i \in DOMAIN wire : wire[i].type = "tagged" /\ wire[i].id = c})

\* None of the unwraps on the maps fails.
UnwrapsHold == Alive

\* "This could be due to a severe implementation error in the scheduler" says
\* the doc of UnexpectedTaggedResponse: with a server that answers each command
\* once, in whatever order, no tagged response is ever unexpected.
NoUnexpectedTagged == event.name # "UnexpectedTaggedResponse"

\* A task ends with the verdict the server gave on its own command, whatever
\* other tasks were pipelined with it and in whatever order they were answered.
VerdictIsTheServers ==
    \A c \in Command :
      /\ output[c].verdict = "Ok" => server[c] = "OK"
      /\ output[c].verdict = "UnexpectedNoResponse" => server[c] = "NO"
      /\ output[c].verdict = "UnexpectedBadResponse" => server[c] = "BAD"
      /\ output[c].verdict = "MissingData" => server[c] = "OK"

\* Pipelined tasks do not take each other's answers: what the server sends to
\* answer a command is consumed by the task of that command, all of it, once and
\* in order, even though responses carry no tag and several active tasks may want
\* the same kind of data (in-order server).
OwnAnswers(c) == {i \in DOMAIN consumed[c] : consumed[c][i].id = c}
AnswersReachTheirTask ==
    \A c \in Command :
      /\ output[c] # NoOutput =>
            /\ {consumed[c][i] : i \in OwnAnswers(c)} = {given[c][n] : n \in DOMAIN given[c]}
            /\ \A i, j \in OwnAnswers(c) : i < j => consumed[c][i].n < consumed[c][j].n
      /\ \A i \in DOMAIN consumed[c] : consumed[c][i].id \in {0, c}

\* Of the answers that a task keeps one of, r takes the place of a: it is about the
\* same thing and was said after a.  (One that the server volunteered has no number:
\* it came to the task after a.)
Displaces(c, r, a) ==
    /\ Task[kind[c]].keeps = "one" \/ (Task[kind[c]].keeps = "latest" /\ r.what = a.what)
    /\ IF r.id = c THEN r.n > a.n
                   ELSE \E i, j \in DOMAIN consumed[c] :
                          i < j /\ consumed[c][i] = a /\ consumed[c][j] = r

\* What a task returns on OK is the last the server said of each thing, or all
\* of it for tasks that collect: an answer is missing only where a later one about
\* the same thing is returned, whatever other tasks are active, and MissingData
\* is returned only if the server gave nothing at all (in-order server).  (A code
\* in the completion result is later than any response.)
LatestAnswerWins ==
    \A c \in Command :
      /\ output[c].verdict = "Ok" /\ Task[kind[c]].keeps # "none" =>
            \A i \in DOMAIN given[c] :
               \/ given[c][i] \in output[c].items
               \/ \E r \in output[c].items : Displaces(c, r, given[c][i])
      /\ output[c].verdict = "MissingData" => given[c] = <<>>

\* An output is final: once a task finished nothing changes what it returned,
\* and its state takes in no more responses.
FinishedIsFinal ==
    [][\A c \in Command : output[c] # NoOutput =>
          output'[c] = output[c] /\ consumed'[c] = consumed[c]]_vars

\* The scheduler implements the service: commands leave the queue in order, a
\* task finishes once, after its command was sent and decided, with the verdict
\* of that decision and of no other.  Under fairness it also leaves nothing
\* queued, and nothing unfinished that the server has decided.
Service == INSTANCE TaskService WITH
    Tasks <- Command,
    queue <- waiting,
    running <- {active[i] : i \in DOMAIN active},
    decision <- [c \in Command |-> IF Answered(c) THEN server[c] ELSE "none"],
    result <- [c \in Command |-> output[c].verdict]
ImplementsFairService == Service!FairSpec

\* Every task enqueued finishes, unless the server leaves.
TasksFinish ==
    \A c \in Command : issued >= c ~> (output[c] # NoOutput \/ ~open)
=============================================================================
