------------------------------ MODULE Session ------------------------------
(***************************************************************************)
(* One Client (src/src/client/tokio.rs) on one connection: the resolver of *)
(* src/src/tasks/resolver.rs, which awaits one task at a time on top of    *)
(* the scheduler, and IDLE, which goes round the scheduler and drives the  *)
(* engine by itself.                                                       *)
(*                                                                         *)
(* &mut self lets one call be awaited at a time, but the future of a call  *)
(* may be dropped at an await: its command then goes on without it, and    *)
(* the next call meets what it left.                                       *)
(*                                                                         *)
(* Stream::next (src/src/stream.rs) drives the engine.  It reads after     *)
(* each write, before it asks the engine again: until the server speaks,   *)
(* the engine cannot report that a command was sent.  A drop inside        *)
(* write_all is left out: an await is a read here.                         *)
(***************************************************************************)
EXTENDS Scheduler

CONSTANTS
    Drops,      \* may the future of a call be dropped?
    UsesIdle    \* does the program use IDLE?

ASSUME SessionAssumption == Drops \in BOOLEAN /\ UsesIdle \in BOOLEAN

VARIABLES
    caller,     \* the call being awaited, and its command
    returned,   \* how the call on each command ended
    buffered,   \* how many of the responses on the wire the engine was given
    reading,    \* has the call written, and must read before it goes on?
    tidy        \* ghost: has the program used IDLE as it is meant: with nothing
                \* of an earlier call left behind, idle(tag) right after
                \* enqueue_idle, dropped only once accepted, then idle_done(tag)
                \* until it is not dropped, and no more calls after one of them
                \* failed?  And has no continuation request come out of the blue?

streamVars == <<buffered, reading>>
callVars == <<caller, returned, buffered, reading, tidy>>
sessionVars == <<greeted, issued, kind, unsent, current, wire, server, given, budget, open,
                 waiting, active, consumed, output, event, caller, returned, buffered, reading,
                 tidy>>
NextUnchanged == UNCHANGED <<greeted, issued, kind, unsent, wire, serverVars>>

Free == [op |-> "free", cmd |-> 0]
Call(op, c) == [op |-> op, cmd |-> c]

\* The constructors hand out a Client once the greeting is behind it.
SessionInit ==
    /\ Init /\ greeted /\ caller = Free /\ returned = [c \in Command |-> "pending"]
    /\ buffered = 0 /\ reading = FALSE /\ tidy = TRUE

-----------------------------------------------------------------------------
(* Stream *)

\* The engine is asked for its next event: what it takes in comes from its
\* input buffer.
StreamNext ==
    /\ ~reading /\ UNCHANGED reading
    /\ IF wire' = wire THEN UNCHANGED <<buffered, tidy>>
       ELSE /\ buffered > 0 /\ buffered' = buffered - 1
            /\ tidy' = (tidy /\ (Head(wire).type = "continuation" => Head(wire).id = current.cmd))

\* The call awaits input: after a write, or because the engine needs more.
AtRead == caller # Free /\ (reading \/ (~CanWrite /\ ~EventPending /\ buffered = 0))

StreamWrite ==
    /\ caller # Free /\ ~reading /\ WriteOutput
    /\ reading' = TRUE /\ UNCHANGED <<caller, returned, buffered, tidy>>

\* What arrived may end in the middle of a response, which is then not there yet.
StreamRead ==
    /\ AtRead /\ buffered < Len(wire)
    /\ buffered' \in buffered..Len(wire) /\ reading' = FALSE
    /\ UNCHANGED <<vars, caller, returned, tidy>>

-----------------------------------------------------------------------------
(* Resolver *)

\* The IDLEs that are not known to be over.
IdleTags == {c \in 1..issued : kind[c] = "idle" /\ returned[c] # "ok"}

resolve(k) ==
    /\ caller = Free
    /\ enqueue_task(k)
    /\ caller' = Call("resolve", issued + 1)
    /\ tidy' = (tidy /\ IdleTags = {})
    /\ UNCHANGED <<returned, streamVars>>

Returns(c, how) ==
    caller' = Free /\ returned' = [returned EXCEPT ![c] = how]
Goes_on == UNCHANGED <<caller, returned>>

\* A slip: the token is never recognised.
Resolved_Deaf(c) ==
    IF event'.name \in {"Bye", "Flow", "UnexpectedTaggedResponse"}
    THEN Returns(c, "error") ELSE Goes_on

\* What ResolvingTask::next makes of what progress() returned: its own token
\* gives the output, any other token is dropped, BYE and errors end the call.
Resolved(c) ==
    CASE event' = Ended("TaskFinished", c) -> Returns(c, "output")
      [] event'.name \in {"Bye", "Flow", "UnexpectedTaggedResponse"} -> Returns(c, "error")
      [] OTHER -> Goes_on

ResolvingTask_next ==
    caller.op = "resolve" /\ progress /\ Resolved(caller.cmd) /\ StreamNext

-----------------------------------------------------------------------------
(* IDLE *)

\* The command goes straight to the engine: there is no task for it.
enqueue_idle ==
    /\ caller = Free /\ UsesIdle
    /\ enqueue_command("idle")
    /\ tidy' = (tidy /\ waiting = <<>> /\ active = <<>> /\ unsent = <<>>
                     /\ current = NoCommand /\ IdleTags = {})
    /\ UNCHANGED <<schedVars, caller, returned, streamVars>>

idle_call ==
    /\ caller = Free
    /\ \E c \in IdleTags : /\ caller' = Call("idle", c)
                          /\ tidy' = (tidy /\ returned[c] = "pending")
    /\ UNCHANGED <<vars, returned, streamVars>>

OwnTagged(r) == r.type = "tagged" /\ r.id = caller.cmd

\* The events idle and idle_done ignore, those of other commands included.
IgnoredSent(handle) ==
    \/ EventCommandSent(handle)
    \/ EventAuthenticateStarted(handle)
    \/ EventIdleCommandSent(handle)
    \/ EventIdleDoneSent(handle)
IgnoredReceived(r) ==
    \/ LiteralContinue(r)
    \/ EventCommandRejected(r)
    \/ \E handle \in Command :
          EventAuthenticateContinuationRequestReceived(handle, r) /\ UNCHANGED current
    \/ EventAuthenticateStatusReceived(r)
    \/ EventContinuationRequestReceived(r)
    \/ EventStatusReceived(r) /\ ~OwnTagged(r)
    \/ EventIdleAccepted(r)

\* A slip: any status ends the loop.
EndsIdle_Any(r) == EventStatusReceived(r) /\ Returns(caller.cmd, "ok")

EndsIdle(r) == EventStatusReceived(r) /\ OwnTagged(r) /\ Returns(caller.cmd, "ok")
FailsIdle(r) == ErrorMalformedMessage(r) /\ Returns(caller.cmd, "error")

\* Data: send DONE.
DataEndsIdle(r) ==
    Receive(r) /\ r.type = "data" /\ set_idle_done /\ UNCHANGED greeted

idle ==
    /\ caller.op = "idle"
    /\ \/ \E handle \in Command : IgnoredSent(handle) /\ Goes_on
       \/ /\ wire # <<>>
          /\ \/ IgnoredReceived(Head(wire)) /\ Goes_on
             \/ DataEndsIdle(Head(wire)) /\ Goes_on
             \/ EventIdleRejected(Head(wire)) /\ Returns(caller.cmd, "ok")
             \/ EndsIdle(Head(wire)) \/ FailsIdle(Head(wire))
    /\ StreamNext /\ UNCHANGED schedVars

\* Slips: the timeout ends the loop without DONE; it does nothing.
idle_timeout_Leaves ==
    /\ caller.op = "idle" /\ AtRead /\ Returns(caller.cmd, "ok")
    /\ reading' = FALSE /\ UNCHANGED <<vars, buffered, tidy>>
idle_timeout_NoDone ==
    /\ caller.op = "idle" /\ AtRead /\ reading' = FALSE
    /\ UNCHANGED <<vars, caller, returned, buffered, tidy>>

\* The timeout around stream.next, at its await.
idle_timeout ==
    /\ caller.op = "idle" /\ AtRead /\ set_idle_done /\ reading' = FALSE
    /\ NextUnchanged /\ UNCHANGED <<schedVars, caller, returned, buffered, tidy>>

idle_done_call ==
    /\ caller = Free
    /\ \E c \in IdleTags : /\ caller' = Call("idle_done", c)
                          /\ tidy' = (tidy /\ returned[c] = "dropped")
    /\ set_idle_done
    /\ NextUnchanged /\ UNCHANGED <<schedVars, returned, streamVars>>

idle_done ==
    /\ caller.op = "idle_done"
    /\ \/ \E handle \in Command : IgnoredSent(handle) /\ Goes_on
       \/ /\ wire # <<>>
          /\ \/ IgnoredReceived(Head(wire)) /\ Goes_on
             \/ EventDataReceived(Head(wire)) /\ Goes_on
             \/ EventIdleRejected(Head(wire)) /\ Goes_on
             \/ EndsIdle(Head(wire)) \/ FailsIdle(Head(wire))
    /\ StreamNext /\ UNCHANGED schedVars

-----------------------------------------------------------------------------
(* The end of a call, and the program *)

\* The connection is closed: read returns 0, the call ends with Error::Closed.
StreamClosed ==
    /\ AtRead /\ ~open /\ buffered = Len(wire)
    /\ Returns(caller.cmd, "error") /\ reading' = FALSE
    /\ UNCHANGED <<vars, buffered, tidy>>

\* A slip: the task goes away with the future.
Drop_Cancels ==
    /\ AtRead /\ Drops /\ caller.op = "resolve"
    /\ active' = SelectSeq(active, LAMBDA c : c # caller.cmd)
    /\ Returns(caller.cmd, "dropped") /\ reading' = FALSE
    /\ UNCHANGED <<nextVars, waiting, consumed, output, event, buffered, tidy>>

Accepted(c) ==
    unsent = <<>> /\ (current.cmd # c \/ current.phase \in {"idling", "done", "done_sent"})

\* The future of the call is dropped at its await.
Drop ==
    /\ AtRead /\ Drops
    /\ Returns(caller.cmd, "dropped") /\ reading' = FALSE
    /\ tidy' = (tidy /\ (caller.op = "idle" => Accepted(caller.cmd)))
    /\ UNCHANGED <<vars, buffered>>

Step ==
    \/ Alive /\ ((\E k \in Kinds : resolve(k)) \/ enqueue_idle)
    \/ Alive /\ (idle_call \/ idle_done_call)
    \/ ResolvingTask_next
    \/ idle
    \/ idle_timeout
    \/ idle_done
    \/ StreamWrite
    \/ StreamRead
    \/ StreamClosed
    \/ Drop
    \/ ServerStep /\ UNCHANGED callVars

\* The program has made all its calls: not a deadlock.
AllCalled == /\ ~Alive \/ (caller = Free /\ issued = MaxCommands)
             /\ UNCHANGED sessionVars

SessionNext == Step \/ AllCalled
SessionSpec == SessionInit /\ [][SessionNext]_sessionVars

\* The runtime polls the awaited call, the timer of idle() fires, the server
\* answers every command.
SessionFairSpec ==
    /\ SessionSpec
    /\ WF_sessionVars(ResolvingTask_next) /\ WF_sessionVars(idle)
    /\ WF_sessionVars(idle_timeout) /\ WF_sessionVars(idle_done)
    /\ WF_sessionVars(StreamWrite) /\ WF_sessionVars(StreamRead)
    /\ WF_sessionVars(StreamClosed)
    /\ \A c \in Command :
          WF_sessionVars(Owed(c) /\ UNCHANGED <<schedVars, callVars>>)

-----------------------------------------------------------------------------
(* Properties *)

\* "`active_tasks` contains all in-progress `Commands`" says the scheduler of
\* its map: of each command sent, reported and not yet answered, the task is
\* there.  Commands without a task (IDLE) aside.
Reported(c) == c <= issued /\ c # current.cmd /\ \A i \in DOMAIN unsent : unsent[i] # c
ActiveHoldsInProgress ==
    Alive => \A c \in Command :
      Reported(c) /\ kind[c] # "idle" /\ (~Answered(c) \/ VerdictsUnderWay(c) > 0)
        => Has(active, c)

\* A dropped call does not disturb the ones after it: the call awaited is for a
\* task that still waits for its verdict in one of the maps, so its token cannot
\* have been given to an earlier call and thrown away as an unexpected one.
AwaitedTaskIsPending ==
    Alive /\ caller.op = "resolve" =>
       Has(waiting, caller.cmd) \/ Has(active, caller.cmd)

\* When idle or idle_done returned Ok the IDLE is over on both sides: the server
\* has ended or refused it, its tagged response is consumed, and the engine is
\* not left in the middle of it, where every later command would be stuck.  Of an
\* IDLE that follows one left behind this is not so: see the README.
IdleIsOver ==
    tidy => \A c \in Command : returned[c] = "ok" =>
              Answered(c) /\ VerdictsUnderWay(c) = 0 /\ current.cmd # c

\* As long as IDLE is used as it is meant, going round the scheduler breaks none of
\* the unwraps that rely on the two queues: the only one to fail is that of a
\* command that was refused before it was reported as sent.
IdleKeepsUnwraps == tidy => Alive \/ \E i \in DOMAIN waiting : Answered(waiting[i])

\* Every call returns: resolve after drops of earlier calls, idle when the timer
\* fires even if the server says nothing, idle_done once IDLE was accepted; or the
\* program panics, or has used IDLE otherwise than it is meant (idle_done before
\* IDLE was accepted may wait for ever).
CallsReturn == \A c \in Command : caller.cmd = c ~> (caller.cmd # c \/ ~Alive \/ ~tidy)
=============================================================================
