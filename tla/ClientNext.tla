----------------------------- MODULE ClientNext -----------------------------
(***************************************************************************)
(* The environment of the crate, as src/ uses it: the sans-IO protocol     *)
(* engine imap_next::client::Client (external), and an IMAP server at the  *)
(* other end of a reliable FIFO connection (external).                     *)
(*                                                                         *)
(* The engine turns what happens on the connection into events, one action *)
(* per event here; the modules that EXTEND this one conjoin each of them   *)
(* with what the crate does on that event.                                 *)
(*                                                                         *)
(* A command is a number, in the order of enqueueing.  Its handle and its  *)
(* tag are that number too: the engine's handle generator and the tag      *)
(* generator of the scheduler are only ever advanced together.             *)
(***************************************************************************)
EXTENDS Tasks, FiniteSets

CONSTANTS
    MaxCommands,      \* bound on the commands enqueued
    Kinds,            \* the tasks callers enqueue
    Volunteered,      \* the <<type, status, what>> a server says unasked
    MaxExtra,         \* bound on volunteered responses and on challenges
    MaxGiven,         \* bound on the responses that answer one command
    Reorders,         \* may the server work on pipelined commands out of order?
    RejectsLiterals   \* may the server refuse the literal of a command?

ASSUME MaxCommandsAssumption == MaxCommands \in Nat \ {0}
ASSUME KindsAssumption == Kinds \subseteq TaskKinds
ASSUME BoundsAssumption == MaxExtra \in Nat /\ MaxGiven \in Nat
ASSUME PolicyAssumption == Reorders \in BOOLEAN /\ RejectsLiterals \in BOOLEAN
ASSUME VolunteeredAssumption ==
    Volunteered \subseteq {"data", "untagged", "bye", "continuation", "malformed", "close"}
                            \X {"-", "OK", "NO", "BAD"} \X What

VARIABLES
    greeted,    \* has the engine seen the greeting (or been told to skip it)?
    issued,     \* the number of commands enqueued
    kind,       \* the task each command was made for
    unsent,     \* the commands the engine has not begun to send
    current,    \* the command the engine is sending, or that holds the connection
    wire,       \* responses on their way to the client, and not yet processed
    server,     \* what the server does with each command
    given,      \* ghost: the responses with which it has answered each command
    budget,     \* how many more responses it may volunteer
    open        \* does the server still talk?

engineVars == <<greeted, unsent, current>>
serverVars == <<server, given, budget, open>>
nextVars == <<greeted, issued, kind, unsent, current, wire, server, given, budget, open>>

Command == 1..MaxCommands
NoCommand == [cmd |-> 0, phase |-> "none"]

\* literal: the first fragment is written, an invitation is awaited; rest: it
\* came; sent, auth_sent, idle_sent, done_sent: written, the event not yet
\* reported; auth: AUTHENTICATE runs; auth_data: data are to be written;
\* idle_asked, idling: IDLE not yet, or already, accepted; done: DONE is to
\* be written.
Phase == {"none", "literal", "rest", "sent", "auth_sent", "auth", "auth_data",
          "idle_sent", "idle_asked", "idling", "done", "done_sent"}

ServerPhase == {"unknown", "partial", "invited", "working", "auth", "challenged",
                "idle_asked", "idling", "ending", "OK", "NO", "BAD"}

Types == {"greeting", "data", "untagged", "bye", "continuation", "tagged", "malformed"}

\* A tagged response has a status, and the tag of a command.
Responses ==
    {r \in [type : Types, status : {"-", "OK", "NO", "BAD"}, what : What,
            id : 0..MaxCommands, n : Nat] :
        r.type = "tagged" => r.status # "-" /\ r.id # 0}

NextTypeOK ==
    /\ greeted \in BOOLEAN
    /\ issued \in 0..MaxCommands
    /\ kind \in [Command -> TaskKinds \cup {"none"}]
    /\ \A c \in 1..issued : kind[c] # "none"
    /\ unsent \in Seq(Command)
    /\ current \in [cmd : 0..MaxCommands, phase : Phase]
    /\ wire \in Seq(Responses)
    /\ server \in [Command -> ServerPhase]
    /\ given \in [Command -> Seq(Responses)]
    /\ budget \in Nat
    /\ open \in BOOLEAN

Greeting == Response("greeting", "OK", "-", 0, 0)

\* The greeting is about to be received, or the engine discards it (it is then
\* consumed with the STARTTLS prefix) and the client may write at once.
NextInit ==
    /\ issued = 0
    /\ kind = [c \in Command |-> "none"]
    /\ unsent = <<>>
    /\ current = NoCommand
    /\ \/ greeted = FALSE /\ wire = <<Greeting>>
       \/ greeted = TRUE /\ wire = <<>>
    /\ server = [c \in Command |-> "unknown"]
    /\ given = [c \in Command |-> <<>>]
    /\ budget = MaxExtra
    /\ open = TRUE

-----------------------------------------------------------------------------
(* The engine, driven by its owner.                                        *)

enqueue_command(k) ==
    /\ issued < MaxCommands
    /\ issued' = issued + 1
    /\ kind' = [kind EXCEPT ![issued + 1] = k]
    /\ unsent' = Append(unsent, issued + 1)
    /\ UNCHANGED <<greeted, current, wire, serverVars>>

set_authenticate_data ==
    current' = [current EXCEPT !.phase = "auth_data"]

\* No effect, and no error, unless the server has accepted IDLE.
set_idle_done ==
    current' = IF current.phase = "idling" THEN [current EXCEPT !.phase = "done"]
                                           ELSE current

\* Bytes wait to be written, an event waits to be reported: both come before
\* anything is made of the input.
CanWrite == greeted /\ \/ current.phase = "none" /\ unsent # <<>>
                       \/ current.phase \in {"rest", "auth_data", "done"}
EventPending == current.phase \in {"sent", "auth_sent", "idle_sent", "done_sent"}
CanReceive == wire # <<>> /\ ~CanWrite /\ ~EventPending

FirstPhase(k) == CASE Task[k].shape = "plain"   -> "sent"
                   [] Task[k].shape = "literal" -> "literal"
                   [] Task[k].shape = "auth"    -> "auth_sent"
                   [] Task[k].shape = "idle"    -> "idle_sent"
FirstServerPhase(k) == CASE Task[k].shape = "plain"   -> "working"
                         [] Task[k].shape = "literal" -> "partial"
                         [] Task[k].shape = "auth"    -> "auth"
                         [] Task[k].shape = "idle"    -> "idle_asked"

WriteCommand ==
    /\ greeted /\ current.phase = "none" /\ unsent # <<>>
    /\ current' = [cmd |-> Head(unsent), phase |-> FirstPhase(kind[Head(unsent)])]
    /\ unsent' = Tail(unsent)
    /\ server' = [server EXCEPT ![Head(unsent)] = FirstServerPhase(kind[Head(unsent)])]

WriteRest ==
    /\ current.phase = "rest"
    /\ current' = [current EXCEPT !.phase = "sent"]
    /\ server' = [server EXCEPT ![current.cmd] =
                     IF @ \in {"partial", "invited"} THEN "working" ELSE @]
    /\ UNCHANGED unsent

WriteAuthenticateData ==
    /\ current.phase = "auth_data"
    /\ current' = [current EXCEPT !.phase = "auth"]
    /\ server' = [server EXCEPT ![current.cmd] = IF @ = "challenged" THEN "auth" ELSE @]
    /\ UNCHANGED unsent

WriteDone ==
    /\ current.phase = "done"
    /\ current' = [current EXCEPT !.phase = "done_sent"]
    /\ server' = [server EXCEPT ![current.cmd] = IF @ = "idling" THEN "ending" ELSE @]
    /\ UNCHANGED unsent

\* The engine hands out bytes (Io::Output) and they are written.
Write ==
    /\ WriteCommand \/ WriteRest \/ WriteAuthenticateData \/ WriteDone
    /\ UNCHANGED <<greeted, issued, kind, wire, given, budget, open>>

-----------------------------------------------------------------------------
(* The events of the engine.                                               *)

Report(c, from, to) ==
    /\ current = [cmd |-> c, phase |-> from]
    /\ current' = to
    /\ UNCHANGED <<greeted, issued, kind, unsent, wire, serverVars>>

EventCommandSent(c) == Report(c, "sent", NoCommand)
EventAuthenticateStarted(c) == Report(c, "auth_sent", [cmd |-> c, phase |-> "auth"])
EventIdleCommandSent(c) == Report(c, "idle_sent", [cmd |-> c, phase |-> "idle_asked"])
EventIdleDoneSent(c) == Report(c, "done_sent", NoCommand)

Receive(r) ==
    /\ CanReceive
    /\ r = Head(wire)
    /\ wire' = Tail(wire)
    /\ UNCHANGED <<issued, kind, unsent, serverVars>>

\* The tagged response of the command that holds the connection.
Ends(r, phases, statuses) ==
    /\ r.type = "tagged" /\ r.id = current.cmd
    /\ current.phase \in phases /\ r.status \in statuses
LiteralRefused(r) == Ends(r, {"literal"}, {"NO", "BAD"})
AuthenticateEnded(r) == Ends(r, {"auth"}, {"OK", "NO", "BAD"})
IdleRefused(r) == Ends(r, {"idle_asked"}, {"NO", "BAD"})

EventGreetingReceived(r) ==
    /\ Receive(r) /\ r.type = "greeting"
    /\ greeted' = TRUE
    /\ UNCHANGED current
\* Not an event: the engine goes on with the command by itself.
LiteralContinue(r) ==
    /\ Receive(r) /\ r.type = "continuation" /\ current.phase = "literal"
    /\ current' = [current EXCEPT !.phase = "rest"]
    /\ UNCHANGED greeted
EventCommandRejected(r) ==
    Receive(r) /\ LiteralRefused(r) /\ current' = NoCommand /\ UNCHANGED greeted
EventAuthenticateContinuationRequestReceived(c, r) ==
    /\ Receive(r) /\ r.type = "continuation" /\ current = [cmd |-> c, phase |-> "auth"]
    /\ UNCHANGED greeted
EventAuthenticateStatusReceived(r) ==
    Receive(r) /\ AuthenticateEnded(r) /\ current' = NoCommand /\ UNCHANGED greeted
EventIdleAccepted(r) ==
    /\ Receive(r) /\ r.type = "continuation" /\ current.phase = "idle_asked"
    /\ current' = [current EXCEPT !.phase = "idling"]
    /\ UNCHANGED greeted
EventIdleRejected(r) ==
    Receive(r) /\ IdleRefused(r) /\ current' = NoCommand /\ UNCHANGED greeted
EventContinuationRequestReceived(r) ==
    /\ Receive(r) /\ r.type = "continuation"
    /\ current.phase \notin {"literal", "auth", "idle_asked"}
    /\ UNCHANGED engineVars
EventDataReceived(r) == Receive(r) /\ r.type = "data" /\ UNCHANGED engineVars
EventStatusReceived(r) ==
    /\ Receive(r) /\ r.type \in {"untagged", "bye", "tagged"}
    /\ ~LiteralRefused(r) /\ ~AuthenticateEnded(r) /\ ~IdleRefused(r)
    /\ UNCHANGED engineVars
ErrorMalformedMessage(r) == Receive(r) /\ r.type = "malformed" /\ UNCHANGED engineVars

-----------------------------------------------------------------------------
(* The server.                                                             *)

Answered(c) == server[c] \in {"OK", "NO", "BAD"}

\* A server that does not reorder finishes a command before it begins the next.
Turn(c) == open /\ (Reorders \/ \A d \in Command : d < c => Answered(d))

Say(type, status, what, c, n) == wire' = Append(wire, Response(type, status, what, c, n))

Invite(c, from, to) ==
    /\ Turn(c) /\ server[c] = from
    /\ server' = [server EXCEPT ![c] = to]
    /\ Say("continuation", "-", "-", c, 0)
    /\ UNCHANGED <<greeted, issued, kind, unsent, current, given, budget, open>>

GoAhead(c) == Invite(c, "partial", "invited")
AcceptIdle(c) == Invite(c, "idle_asked", "idling")
Challenge(c) ==
    /\ Turn(c) /\ server[c] = "auth" /\ budget > 0
    /\ server' = [server EXCEPT ![c] = "challenged"]
    /\ budget' = budget - 1
    /\ Say("continuation", "-", "-", c, 0)
    /\ UNCHANGED <<greeted, issued, kind, unsent, current, given, open>>

\* The responses that belong to a command: those its task is there for.
Wanted(k) == ({"data"} \X {"-"} \X Task[k].data)
                \cup {<<"untagged", u[1], u[2]>> : u \in Task[k].untagged}
                \cup (IF Task[k].bye THEN {<<"bye", "-", "-">>} ELSE {})

Provide(c, a) ==
    /\ Turn(c) /\ server[c] \in {"working", "auth"}
    /\ Len(given[c]) < MaxGiven
    /\ a \in Wanted(kind[c])
    /\ LET r == Response(a[1], a[2], a[3], c, Len(given[c]) + 1)
       IN  /\ wire' = Append(wire, r)
           /\ given' = [given EXCEPT ![c] = Append(@, r)]
    /\ UNCHANGED <<greeted, issued, kind, unsent, current, server, budget, open>>

Verdict(c, s) ==
    \/ server[c] \in {"working", "auth", "ending"}
    \/ server[c] = "partial" /\ RejectsLiterals /\ s \in {"NO", "BAD"}
    \/ server[c] = "idle_asked" /\ s \in {"NO", "BAD"}

Complete(c, s, code) ==
    /\ Turn(c) /\ Verdict(c, s)
    /\ server' = [server EXCEPT ![c] = s]
    /\ Say("tagged", s, code, c, Len(given[c]) + 1)
    /\ open' = ~(Task[kind[c]].shape = "plain" /\ Task[kind[c]].bye /\ s = "OK")
    /\ UNCHANGED <<greeted, issued, kind, unsent, current, given, budget>>

\* A server does not send a continuation request while a command waits for one.
\* "close": the connection ends without a word.
Volunteer(v) ==
    /\ open /\ budget > 0
    /\ v[1] = "continuation" =>
          \A c \in Command : server[c] \notin {"partial", "auth", "idle_asked"}
    /\ budget' = budget - 1
    /\ IF v[1] = "close" THEN UNCHANGED wire ELSE Say(v[1], v[2], v[3], 0, 0)
    /\ open' = (v[1] \notin {"bye", "close"})
    /\ UNCHANGED <<greeted, issued, kind, unsent, current, server, given>>

Answer(c) ==
    \/ GoAhead(c)
    \/ AcceptIdle(c)
    \/ Challenge(c)
    \/ \E a \in Wanted(kind[c]) : Provide(c, a)
    \/ \E s \in {"OK", "NO", "BAD"}, code \in {"-"} \cup Task[kind[c]].final :
          Complete(c, s, code)

\* What a server that does its work does not put off for ever.
Owed(c) ==
    \/ GoAhead(c) \/ AcceptIdle(c)
    \/ \E s \in {"OK", "NO", "BAD"} : Complete(c, s, "-")

Server ==
    \/ \E c \in 1..issued : Answer(c)
    \/ \E v \in Volunteered : Volunteer(v)
=============================================================================
