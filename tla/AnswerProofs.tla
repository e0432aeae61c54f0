---------------------------- MODULE AnswerProofs ----------------------------
(***************************************************************************)
(* Proofs, for every value of the constants, of what becomes of what the   *)
(* server says.                                                            *)
(*                                                                         *)
(* The first part is about its verdicts: each one is met by the task it is *)
(* for, and none of the unwraps on the maps fails but the one of a refused *)
(* literal.  So the scheduler implements the abstract service of           *)
(* TaskService.  The invariant is about the engine, the wire, the server   *)
(* and the outputs, not about the maps: it holds of every client of the    *)
(* engine that stores an output only when it receives the verdict, and     *)
(* SessionProofs uses its lemmas for calls that go round the scheduler.    *)
(*                                                                         *)
(* The second part is about its answers: with a server that works on       *)
(* pipelined commands in order each task consumes what the server gave to  *)
(* its own command, all of it and nothing else of its kind, and returns    *)
(* the latest of it, although untagged responses do not say what command   *)
(* they are for.  The argument: before the answers to a command, the wire  *)
(* carries the verdicts on all earlier ones.  When an answer is received,  *)
(* all tasks enqueued before its own have therefore finished, and as the   *)
(* active ones are in the order of enqueueing its own is the first that    *)
(* takes it.                                                               *)
(***************************************************************************)
EXTENDS SchedulerProofs

-----------------------------------------------------------------------------
(* The invariant of the verdicts *)

\* The engine sends the commands in the order of enqueueing.
UnsentInOrder ==
    /\ Increasing(unsent)
    /\ \A c \in Command : Has(unsent, c) => c <= issued

\* The server does nothing about a command that it has not received.
Unwritten(c) == c > issued \/ Has(unsent, c)
UnwrittenIsUnknown == \A c \in Command : Unwritten(c) => server[c] = "unknown"

\* A verdict under way is what the server decided, there is no other one for the
\* same command, and nobody has met it before.
Tagged(i) == wire[i].type = "tagged"
VerdictsAreOnce ==
    \A i \in DOMAIN wire : Tagged(i) =>
        /\ server[wire[i].id] = wire[i].status
        /\ output[wire[i].id] = NoOutput
        /\ \A j \in DOMAIN wire : Tagged(j) /\ wire[j].id = wire[i].id => j = i

OutputIsAnswer ==
    \A c \in Command : output[c] # NoOutput => Answered(c) /\ output[c].verdict # "none"

\* The command that holds the connection was written; while its literal is not, it
\* can only have been refused; while it authenticates, it has not finished.
AuthPhases == {"auth_sent", "auth", "auth_data"}
HeldIsWritten ==
    current.phase # "none" => greeted /\ current.cmd \in Command /\ ~Unwritten(current.cmd)
LiteralIsOpen ==
    current.phase = "literal" =>
        server[current.cmd] \in
            {"partial", "invited"} \cup (IF RejectsLiterals THEN {"NO", "BAD"} ELSE {})
AuthIsOpen == current.phase \in AuthPhases => output[current.cmd] = NoOutput

Sent == UnsentInOrder /\ UnwrittenIsUnknown
Decided == VerdictsAreOnce /\ OutputIsAnswer /\ VerdictIsTheServers
Held == HeldIsWritten /\ LiteralIsOpen /\ AuthIsOpen
VInv == Sent /\ Decided /\ Held

Final == {"OK", "NO", "BAD"}

-----------------------------------------------------------------------------
(* What the steps of engine and server do to it *)

\* It holds at first.
LEMMA InitVerdicts == Init => VInv
<1> SUFFICES ASSUME Init PROVE VInv
  OBVIOUS
<1> USE DEF Init, NextInit, SchedInit
<1>1. Sent
  BY MaxCommandsAssumption
     DEF Sent, UnsentInOrder, Increasing, Has, UnwrittenIsUnknown, Command
<1>2. \A i \in DOMAIN wire : ~Tagged(i)
  <2>1. CASE wire = <<>>
    BY <2>1
  <2>2. CASE wire = <<Greeting>>
    BY <2>2 DEF Tagged, Greeting, Response
  <2> QED
    BY <2>1, <2>2
<1>3. Decided
  BY <1>2 DEF Decided, VerdictsAreOnce, OutputIsAnswer, VerdictIsTheServers, NoOutput
<1>4. Held
  BY DEF Held, HeldIsWritten, LiteralIsOpen, AuthIsOpen, AuthPhases, NoCommand
<1> QED
  BY <1>1, <1>3, <1>4 DEF VInv

\* The tail of an increasing sequence has all of it but the head.
LEMMA TailProperties ==
    ASSUME NEW s \in Seq(Command), s # <<>>, Increasing(s)
    PROVE  /\ Increasing(Tail(s))
           /\ \A d : Has(Tail(s), d) <=> Has(s, d) /\ d # Head(s)
<1> DEFINE c == Head(s)
           t == Tail(s)
<1>1. c \in Command /\ t \in Seq(Command) /\ s = <<c>> \o t
  BY HeadAndTail
<1>2. Has(s, c) /\ remove_by_handle(s, c) = t
  <2> HIDE DEF c, t
  <2> QED
    BY <1>1, RemoveHead
<1> HIDE DEF c, t
<1>3. /\ Increasing(remove_by_handle(s, c))
      /\ \A d : Has(remove_by_handle(s, c), d) <=> Has(s, d) /\ d # c
  BY <1>2, RemoveProperties
<1> QED
  BY <1>2, <1>3 DEF c, t

\* The server goes on with a command it has received and not decided.
LEMMA ServerGoesOn ==
    ASSUME Sent, Decided, UNCHANGED <<issued, unsent, output, wire>>,
           \A d \in Command : server'[d] = server[d]
                                 \/ server[d] \notin Final \cup {"unknown"},
           NextTypeOK
    PROVE  Sent' /\ Decided'
<1>1. Sent'
  BY DEF Sent, UnsentInOrder, UnwrittenIsUnknown, Unwritten, Increasing, Has, Final
<1>2. VerdictsAreOnce'
  <2> SUFFICES ASSUME NEW i \in DOMAIN wire, wire[i].type = "tagged"
               PROVE  server'[wire[i].id] = wire[i].status
    BY DEF Decided, VerdictsAreOnce, Tagged
  <2>1. wire[i] \in Responses
    BY DEF NextTypeOK
  <2>2. wire[i].id \in Command /\ wire[i].status \in Final
    BY <2>1, MaxCommandsAssumption DEF Responses, Command, Final
  <2>3. server[wire[i].id] = wire[i].status
    BY DEF Decided, VerdictsAreOnce, Tagged
  <2> QED
    BY <2>2, <2>3
<1>3. OutputIsAnswer'
  BY DEF Decided, OutputIsAnswer, Answered, Final
<1>4. VerdictIsTheServers'
  BY DEF Decided, VerdictIsTheServers, Final
<1> QED
  BY <1>1, <1>2, <1>3, <1>4 DEF Decided

\* Enqueueing.
LEMMA EnqueueVerdicts ==
    ASSUME NextTypeOK, VInv, NEW k, enqueue_command(k), UNCHANGED output
    PROVE  VInv'
<1> DEFINE c == issued + 1
<1>1. /\ issued < MaxCommands /\ issued' = c
      /\ unsent' = push_back(unsent, c)
      /\ UNCHANGED <<greeted, current, wire, server, output>>
      /\ unsent \in Seq(Command) /\ issued \in Nat
  BY MaxCommandsAssumption DEF enqueue_command, serverVars, push_back, NextTypeOK
<1>2. c \in Command
  BY <1>1, MaxCommandsAssumption DEF Command
<1>3. \A d \in Command : Has(unsent, d) => d < c
  BY <1>1 DEF VInv, Sent, UnsentInOrder, Command
<1> HIDE DEF c
<1>4. /\ \A d : Has(unsent', d) <=> Has(unsent, d) \/ d = c
      /\ Increasing(unsent')
  <2> DEFINE t == push_back(unsent, c)
  <2>1. /\ \A d : Has(t, d) <=> Has(unsent, d) \/ d = c
        /\ Increasing(t)
    BY <1>1, <1>2, <1>3, PushBackProperties DEF VInv, Sent, UnsentInOrder
  <2>2. t = unsent'
    BY <1>1
  <2> HIDE DEF t
  <2> QED
    BY <2>1, <2>2
<1>5. \A d \in Command : Unwritten(d)' => Unwritten(d)
  BY <1>1, <1>4 DEF Unwritten, Command, c
<1>6. Sent'
  BY <1>1, <1>3, <1>4, <1>5 DEF VInv, Sent, UnsentInOrder, UnwrittenIsUnknown, Command, c
<1>7. Decided'
  BY <1>1 DEF VInv, Decided, VerdictsAreOnce, OutputIsAnswer, VerdictIsTheServers, Tagged,
              Answered
<1>8. Held'
  <2>1. \A d \in Command : ~Unwritten(d) => ~Unwritten(d)'
    BY <1>1, <1>4 DEF Unwritten, Command, c
  <2> QED
    BY <1>1, <2>1 DEF VInv, Held, HeldIsWritten, LiteralIsOpen, AuthIsOpen
<1> QED
  BY <1>6, <1>7, <1>8 DEF VInv

\* Writing.
LEMMA WriteVerdicts ==
    ASSUME NextTypeOK, VInv, Write, UNCHANGED output
    PROVE  VInv'
<1>1. /\ UNCHANGED <<greeted, issued, kind, wire, given, budget, open>>
      /\ unsent \in Seq(Command) /\ server \in [Command -> ServerPhase]
  BY DEF Write, NextTypeOK
<1>2. CASE WriteCommand
  <2>11. unsent # <<>> /\ Head(unsent) \in Command
    BY <1>1, <1>2, HeadAndTail DEF WriteCommand
  <2>12. PICK c \in Command : c = Head(unsent)
    BY <2>11
  <2>1. /\ unsent # <<>> /\ unsent' = Tail(unsent) /\ greeted
        /\ current' = [cmd |-> c, phase |-> FirstPhase(kind[c])]
        /\ server' = [server EXCEPT ![c] = FirstServerPhase(kind[c])]
    BY <1>2, <2>12 DEF WriteCommand
  <2>2. /\ Increasing(unsent')
        /\ \A d : Has(unsent', d) <=> Has(unsent, d) /\ d # c
    BY <1>1, <2>1, <2>12, TailProperties DEF VInv, Sent, UnsentInOrder
  <2>3. /\ FirstPhase(kind[c]) \in {"literal", "sent", "auth_sent", "idle_sent"}
        /\ FirstServerPhase(kind[c]) \in {"working", "partial", "auth", "idle_asked"}
        /\ FirstPhase(kind[c]) = "literal" => FirstServerPhase(kind[c]) = "partial"
    BY <1>2, <2>12, WriteCommandPhases DEF VInv, Sent, UnsentInOrder
  <2>4. Unwritten(c) /\ c <= issued
    BY <1>1, <2>1, <2>12, HeadAndTail DEF Unwritten, Has, VInv, Sent, UnsentInOrder
  <2> DEFINE p == FirstServerPhase(kind[c])
             q == FirstPhase(kind[c])
  <2> HIDE DEF p, q
  <2>5. /\ server[c] = "unknown" /\ server'[c] = p
        /\ \A d \in Command : d # c => server'[d] = server[d]
    BY <1>1, <2>1, <2>4 DEF VInv, Sent, UnwrittenIsUnknown, p
  <2>10. \A d \in Command : Unwritten(d)' <=> Unwritten(d) /\ d # c
    <3>1. c \in Nat /\ issued \in Nat /\ issued' = issued /\ c <= issued
      BY <1>1, <2>1, <2>4, MaxCommandsAssumption DEF NextTypeOK, Command
    <3> QED
      BY <2>2, <3>1 DEF Unwritten
  <2>6. Sent'
    BY <1>1, <2>2, <2>5, <2>10 DEF VInv, Sent, UnsentInOrder, UnwrittenIsUnknown
  <2>7. VerdictsAreOnce'
    <3> SUFFICES ASSUME NEW i \in DOMAIN wire, wire[i].type = "tagged"
                 PROVE  server'[wire[i].id] = wire[i].status
      BY <1>1 DEF VInv, Decided, VerdictsAreOnce, Tagged
    <3>1. wire[i] \in Responses
      BY DEF NextTypeOK
    <3>2. wire[i].id \in Command /\ wire[i].status \in Final
      BY <3>1, MaxCommandsAssumption DEF Responses, Command, Final
    <3>3. server[wire[i].id] = wire[i].status
      BY DEF VInv, Decided, VerdictsAreOnce, Tagged
    <3> QED
      BY <2>5, <3>2, <3>3 DEF Final
  <2>8. OutputIsAnswer' /\ VerdictIsTheServers' /\ output[c] = NoOutput
    BY <2>1, <2>5 DEF VInv, Decided, OutputIsAnswer, VerdictIsTheServers, Answered
  <2>9. Held'
    <3>1. ~Unwritten(c)' /\ c \in Command
      BY <2>10
    <3>2. current'.cmd = c /\ current'.phase = q
      BY <2>1 DEF q
    <3>3. q = "literal" => p = "partial"
      BY <2>3 DEF p, q
    <3> QED
      BY <1>1, <2>1, <2>5, <2>8, <3>1, <3>2, <3>3
         DEF Held, HeldIsWritten, LiteralIsOpen, AuthIsOpen
  <2> QED
    BY <2>6, <2>7, <2>8, <2>9 DEF VInv, Decided
<1>3. CASE WriteRest \/ WriteAuthenticateData \/ WriteDone
  <2>1. unsent' = unsent
    BY <1>3 DEF WriteRest, WriteAuthenticateData, WriteDone
  <2>2. \A d \in Command : server'[d] = server[d] \/ server[d] \notin Final \cup {"unknown"}
    BY <1>1, <1>3 DEF WriteRest, WriteAuthenticateData, WriteDone, Final
  <2>3. Sent' /\ Decided'
    BY <1>1, <2>1, <2>2, ServerGoesOn DEF VInv
  <2>4. /\ current'.cmd = current.cmd /\ current.phase # "none"
        /\ current'.phase \in {"sent", "auth", "done_sent"}
        /\ current'.phase = "auth" => current.phase = "auth_data"
    BY <1>3 DEF WriteRest, WriteAuthenticateData, WriteDone, NextTypeOK
  <2>5. Held'
    BY <1>1, <2>1, <2>4
       DEF VInv, Held, HeldIsWritten, LiteralIsOpen, AuthIsOpen, AuthPhases, Unwritten, Has
  <2> QED
    BY <2>3, <2>5 DEF VInv
<1> QED
  BY <1>2, <1>3 DEF Write

\* What the command that holds the connection may become when nothing is written.
CurrentGoesOn ==
    \/ current' = current
    \/ current'.phase = "none"
    \/ /\ current.phase # "none" /\ current'.cmd = current.cmd
       /\ current'.phase # "literal"
       /\ current'.phase \in AuthPhases => current.phase \in AuthPhases

\* What is left on the wire when something was received.
LEMMA TailOfWire ==
    ASSUME NextTypeOK, wire # <<>>, wire' = Tail(wire)
    PROVE  /\ Head(wire) = wire[1] /\ 1 \in DOMAIN wire /\ wire[1] \in Responses
           /\ wire \in Seq(Responses) /\ wire' \in Seq(Responses) /\ Len(wire') = Len(wire) - 1
           /\ \A i \in DOMAIN wire' : /\ i \in Nat /\ i + 1 \in DOMAIN wire
                                     /\ wire'[i] = wire[i + 1]
<1>1. /\ wire \in Seq(Responses) /\ Tail(wire) \in Seq(Responses)
      /\ Len(Tail(wire)) = Len(wire) - 1 /\ Head(wire) = wire[1] /\ 1 \in DOMAIN wire
      /\ wire[1] \in Responses
      /\ \A i \in 1..Len(wire) - 1 : Tail(wire)[i] = wire[i + 1]
  BY HeadAndTail DEF NextTypeOK
<1> QED
  BY <1>1

\* A step that neither writes, nor decides, nor makes an output.
LEMMA QuietVerdicts ==
    ASSUME NextTypeOK, VInv, UNCHANGED <<issued, unsent, server, output>>,
           greeted => greeted', CurrentGoesOn,
           wire' = wire \/ (wire # <<>> /\ wire' = Tail(wire))
    PROVE  VInv'
<1>1. Sent'
  BY DEF VInv, Sent, UnsentInOrder, UnwrittenIsUnknown, Unwritten, Increasing, Has
<1>2. VerdictsAreOnce'
  <2>1. CASE wire' = wire
    BY <2>1 DEF VInv, Decided, VerdictsAreOnce, Tagged
  <2>2. CASE wire # <<>> /\ wire' = Tail(wire)
    <3> SUFFICES ASSUME NEW i \in DOMAIN wire', wire'[i].type = "tagged"
                 PROVE  /\ server[wire'[i].id] = wire'[i].status
                        /\ output[wire'[i].id] = NoOutput
                        /\ \A j \in DOMAIN wire' :
                              wire'[j].type = "tagged" /\ wire'[j].id = wire'[i].id => j = i
      BY DEF VerdictsAreOnce, Tagged
    <3>1. \A j \in DOMAIN wire' : j \in Nat /\ j + 1 \in DOMAIN wire /\ wire'[j] = wire[j + 1]
      BY <2>2, TailOfWire
    <3>2. /\ server[wire[i + 1].id] = wire[i + 1].status
          /\ output[wire[i + 1].id] = NoOutput
          /\ \A k \in DOMAIN wire :
                wire[k].type = "tagged" /\ wire[k].id = wire[i + 1].id => k = i + 1
      BY <3>1 DEF VInv, Decided, VerdictsAreOnce, Tagged
    <3>3. wire'[i] = wire[i + 1] /\ UNCHANGED <<server, output>>
      BY <3>1
    <3>4. ASSUME NEW j \in DOMAIN wire', wire'[j].type = "tagged", wire'[j].id = wire'[i].id
          PROVE  j = i
      <4>1. j + 1 = i + 1
        BY <3>1, <3>2, <3>4
      <4> QED
        BY <3>1, <4>1
    <3> QED
      BY <3>2, <3>3, <3>4
  <2> QED
    BY <2>1, <2>2
<1>3. OutputIsAnswer' /\ VerdictIsTheServers'
  BY DEF VInv, Decided, OutputIsAnswer, VerdictIsTheServers, Answered
<1>4. Held'
  <2>1. \A c \in Command : ~Unwritten(c) => ~Unwritten(c)'
    BY DEF Unwritten, Has
  <2> QED
    BY <2>1 DEF CurrentGoesOn, VInv, Held, HeldIsWritten, LiteralIsOpen, AuthIsOpen, AuthPhases
<1> QED
  BY <1>1, <1>2, <1>3, <1>4 DEF VInv, Decided

\* The verdict of an output is made of the status of the tagged response.
LEMMA VerdictOfStatus ==
    ASSUME NEW k, NEW s, NEW r, r.status \in Final
    PROVE  LET v == process_tagged(k, s, r).verdict
           IN  /\ v # "none" /\ process_tagged(k, s, r) # NoOutput
               /\ v \in {"Ok", "MissingData"} => r.status = "OK"
               /\ v = "UnexpectedNoResponse" => r.status = "NO"
               /\ v = "UnexpectedBadResponse" => r.status = "BAD"
<1>1. CASE r.status = "OK"
  BY <1>1 DEF process_tagged, NoOutput
<1>2. CASE r.status = "NO"
  BY <1>2 DEF process_tagged, NoOutput
<1>3. CASE r.status = "BAD"
  BY <1>3 DEF process_tagged, NoOutput
<1> QED
  BY <1>1, <1>2, <1>3 DEF Final

\* The verdict on command c is received, and the output of c made of it.
LEMMA FinishVerdicts ==
    ASSUME NextTypeOK, SchedTypeOK, VInv, NEW r, Receive(r), r.type = "tagged",
           output' = [output EXCEPT ![r.id] = process_tagged(kind[r.id], consumed[r.id], r)],
           UNCHANGED greeted,
           \/ current' = NoCommand
           \/ current' = current /\ ~(current.phase = "auth" /\ r.id = current.cmd)
    PROVE  VInv'
<1>1. /\ UNCHANGED <<issued, unsent, server>> /\ CanReceive
      /\ wire # <<>> /\ wire' = Tail(wire) /\ r = Head(wire)
  BY DEF Receive, CanReceive, serverVars
<1>2. /\ r = wire[1] /\ 1 \in DOMAIN wire /\ r \in Responses
      /\ \A i \in DOMAIN wire' : i \in Nat /\ i + 1 \in DOMAIN wire /\ wire'[i] = wire[i + 1]
  BY <1>1, TailOfWire
<1>3. PICK c \in Command : c = r.id
  BY <1>2, MaxCommandsAssumption DEF Responses, Command
<1>4. r.status \in Final
  BY <1>2 DEF Responses, Final
<1> DEFINE o == process_tagged(kind[r.id], consumed[r.id], r)
<1>5. /\ o # NoOutput /\ o.verdict # "none"
      /\ o.verdict \in {"Ok", "MissingData"} => r.status = "OK"
      /\ o.verdict = "UnexpectedNoResponse" => r.status = "NO"
      /\ o.verdict = "UnexpectedBadResponse" => r.status = "BAD"
  BY <1>4, VerdictOfStatus
<1>6. output' = [output EXCEPT ![c] = o]
  BY <1>3
<1> HIDE DEF o
<1>7. output'[c] = o /\ \A d \in Command : d # c => output'[d] = output[d]
  BY <1>6 DEF SchedTypeOK
<1>8. /\ server[c] = r.status /\ output[c] = NoOutput
      /\ \A j \in DOMAIN wire : wire[j].type = "tagged" /\ wire[j].id = c => j = 1
  BY <1>2, <1>3 DEF VInv, Decided, VerdictsAreOnce, Tagged
<1>9. Sent'
  BY <1>1 DEF VInv, Sent, UnsentInOrder, UnwrittenIsUnknown, Unwritten, Increasing, Has
<1>10. VerdictsAreOnce'
  <2> SUFFICES ASSUME NEW i \in DOMAIN wire', wire'[i].type = "tagged"
               PROVE  /\ server[wire'[i].id] = wire'[i].status
                      /\ output'[wire'[i].id] = NoOutput
                      /\ \A j \in DOMAIN wire' :
                            wire'[j].type = "tagged" /\ wire'[j].id = wire'[i].id => j = i
    BY <1>1 DEF VerdictsAreOnce, Tagged
  <2>1. i \in Nat /\ i + 1 \in DOMAIN wire /\ wire'[i] = wire[i + 1]
    BY <1>2
  <2>2. /\ server[wire[i + 1].id] = wire[i + 1].status
        /\ output[wire[i + 1].id] = NoOutput
        /\ \A k \in DOMAIN wire :
              wire[k].type = "tagged" /\ wire[k].id = wire[i + 1].id => k = i + 1
    BY <2>1 DEF VInv, Decided, VerdictsAreOnce, Tagged
  <2>3. wire[i + 1] \in Responses /\ 1 \in DOMAIN wire' /\ i \in 1..Len(wire')
    BY <1>1, <2>1, TailOfWire DEF NextTypeOK
  <2>4. wire[i + 1].id \in Command /\ wire[i + 1].id # c
    <3>1. wire[i + 1].id \in Command
      BY <2>1, <2>3, MaxCommandsAssumption DEF Responses, Command
    <3>2. wire[i + 1].id = c => i + 1 = 1
      BY <1>8, <2>1
    <3>3. i >= 1
      BY <2>3
    <3> QED
      BY <2>1, <3>1, <3>2, <3>3
  <2>5. output'[wire[i + 1].id] = NoOutput
    BY <1>7, <2>2, <2>4
  <2>6. ASSUME NEW j \in DOMAIN wire', wire'[j].type = "tagged", wire'[j].id = wire'[i].id
        PROVE  j = i
    <3>1. j \in Nat /\ j + 1 = i + 1
      BY <1>2, <2>1, <2>2, <2>6
    <3> QED
      BY <2>1, <3>1
  <2> QED
    BY <2>1, <2>2, <2>5, <2>6
<1>11. OutputIsAnswer'
  BY <1>1, <1>4, <1>5, <1>7, <1>8 DEF VInv, Decided, OutputIsAnswer, Answered, Final
<1>12. VerdictIsTheServers'
  BY <1>1, <1>5, <1>7, <1>8 DEF VInv, Decided, VerdictIsTheServers
<1>13. Held'
  <2>1. CASE current' = NoCommand
    BY <2>1 DEF Held, HeldIsWritten, LiteralIsOpen, AuthIsOpen, AuthPhases, NoCommand
  <2>2. CASE current' = current /\ ~(current.phase = "auth" /\ c = current.cmd)
    <3>1. HeldIsWritten' /\ LiteralIsOpen'
      BY <1>1, <2>2 DEF VInv, Held, HeldIsWritten, LiteralIsOpen, Unwritten, Has
    <3>2. current.phase \in AuthPhases => current.phase = "auth" /\ current.cmd \in Command
      BY <1>1 DEF CanReceive, CanWrite, EventPending, AuthPhases, VInv, Held, HeldIsWritten
    <3>3. AuthIsOpen'
      BY <1>7, <2>2, <3>2 DEF VInv, Held, AuthIsOpen
    <3> QED
      BY <3>1, <3>3 DEF Held
  <2> QED
    BY <1>3, <2>1, <2>2
<1> QED
  BY <1>9, <1>10, <1>11, <1>12, <1>13 DEF VInv, Decided

\* A response is added to the wire; what is under way stays as it was.
LEMMA SayVerdicts ==
    ASSUME NextTypeOK, VInv, NEW c \in Command, NEW r \in Responses,
           UNCHANGED <<greeted, issued, unsent, current, output>>,
           wire' = wire \/ wire' = Append(wire, r),
           \/ r.type # "tagged" /\ server' = server
           \/ /\ r.type # "tagged" /\ server[c] \notin Final \cup {"unknown"}
              /\ \E p \in ServerPhase : server' = [server EXCEPT ![c] = p]
           \/ /\ r.type = "tagged" /\ r.id = c /\ server[c] \notin Final \cup {"unknown"}
              /\ server' = [server EXCEPT ![c] = r.status],
           LiteralIsOpen'
    PROVE  VInv'
<1>1. /\ \A d \in Command : d # c => server'[d] = server[d]
      /\ server'[c] # server[c] => server[c] \notin Final \cup {"unknown"}
      /\ server \in [Command -> ServerPhase] /\ wire \in Seq(Responses)
  BY DEF NextTypeOK
<1>2. Sent'
  BY <1>1 DEF VInv, Sent, UnsentInOrder, UnwrittenIsUnknown, Unwritten, Increasing, Has
<1>3. OutputIsAnswer' /\ VerdictIsTheServers'
  BY <1>1 DEF VInv, Decided, OutputIsAnswer, VerdictIsTheServers, Answered, Final
<1>4. Held'
  BY DEF VInv, Held, HeldIsWritten, AuthIsOpen, Unwritten, Has
<1>5. ASSUME NEW i \in DOMAIN wire, wire[i].type = "tagged"
      PROVE  /\ server'[wire[i].id] = wire[i].status /\ output[wire[i].id] = NoOutput
             /\ wire[i].id # c \/ server[c] \in Final
             /\ \A j \in DOMAIN wire :
                   wire[j].type = "tagged" /\ wire[j].id = wire[i].id => j = i
  <2>1. wire[i] \in Responses
    BY <1>1
  <2>2. wire[i].id \in Command /\ wire[i].status \in Final
    BY <1>5, <2>1, MaxCommandsAssumption DEF Responses, Command, Final
  <2>3. /\ server[wire[i].id] = wire[i].status /\ output[wire[i].id] = NoOutput
        /\ \A j \in DOMAIN wire :
              wire[j].type = "tagged" /\ wire[j].id = wire[i].id => j = i
    BY <1>5 DEF VInv, Decided, VerdictsAreOnce, Tagged
  <2> QED
    BY <1>1, <2>2, <2>3
<1>6. CASE wire' = wire
  <2>1. VerdictsAreOnce'
    BY <1>5, <1>6 DEF VerdictsAreOnce, Tagged
  <2> QED
    BY <1>2, <1>3, <1>4, <2>1 DEF VInv, Decided
<1>7. CASE wire' = Append(wire, r)
  <2> DEFINE n == Len(wire)
  <2>1. /\ n \in Nat /\ DOMAIN wire = 1..n /\ DOMAIN wire' = 1..n + 1 /\ wire'[n + 1] = r
        /\ \A i \in 1..n : wire'[i] = wire[i]
    BY <1>1, <1>7, AppendProperties
  <2> HIDE DEF n
  <2>2. VerdictsAreOnce'
    <3>1. CASE r.type # "tagged"
      <4>1. \A i \in DOMAIN wire' : wire'[i].type = "tagged" =>
               i \in DOMAIN wire /\ wire'[i] = wire[i]
        BY <2>1, <3>1
      <4> QED
        BY <1>5, <4>1 DEF VerdictsAreOnce, Tagged
    <3>2. CASE r.type = "tagged"
      <4>1. /\ r.id = c /\ server[c] \notin Final \cup {"unknown"} /\ server'[c] = r.status
        BY <1>1, <3>2
      <4>2. output[c] = NoOutput
        BY <4>1 DEF VInv, Decided, OutputIsAnswer, Answered, Final
      <4>3. \A i \in 1..n : wire[i].type = "tagged" => wire[i].id # c
        BY <1>5, <2>1, <4>1
      <4> SUFFICES ASSUME NEW i \in 1..n + 1, wire'[i].type = "tagged"
                   PROVE  /\ server'[wire'[i].id] = wire'[i].status
                          /\ output[wire'[i].id] = NoOutput
                          /\ \A j \in 1..n + 1 :
                                wire'[j].type = "tagged" /\ wire'[j].id = wire'[i].id => j = i
        BY <2>1 DEF VerdictsAreOnce, Tagged
      <4>4. CASE i = n + 1
        BY <2>1, <4>1, <4>2, <4>3, <4>4
      <4>5. CASE i # n + 1
        <5>1. i \in 1..n /\ wire'[i] = wire[i] /\ wire[i].id # c
          BY <2>1, <4>3, <4>5
        <5> QED
          BY <1>5, <2>1, <4>1, <5>1
      <4> QED
        BY <4>4, <4>5
    <3> QED
      BY <3>1, <3>2
  <2> QED
    BY <1>2, <1>3, <1>4, <2>2 DEF VInv, Decided
<1> QED
  BY <1>6, <1>7

\* What was appended to the wire is a response, if the wire is still well typed.
LEMMA SaidIsResponse ==
    ASSUME wire \in Seq(Responses), NEW r, wire' = Append(wire, r), wire' \in Seq(Responses)
    PROVE  r \in Responses
<1>1. Len(wire') = Len(wire) + 1 /\ wire'[Len(wire) + 1] = r
  OBVIOUS
<1>2. Len(wire) + 1 \in 1..Len(wire')
  BY <1>1
<1> QED
  BY <1>1, <1>2

\* The server says something.
LEMMA ServerVerdicts ==
    ASSUME NextTypeOK, VInv, Server, UNCHANGED output
    PROVE  VInv'
<1>1. /\ UNCHANGED <<greeted, issued, kind, unsent, current>>
      /\ server \in [Command -> ServerPhase] /\ wire \in Seq(Responses)
  BY DEF Server, Answer, GoAhead, AcceptIdle, Invite, Challenge, Provide, Complete, Volunteer,
         NextTypeOK
<1>2. wire' \in Seq(Responses)
  BY ServerTyped DEF NextTypeOK
<1>3. ASSUME server' = server PROVE LiteralIsOpen'
  BY <1>1, <1>3 DEF VInv, Held, LiteralIsOpen
<1>4. ASSUME NEW c \in Command, NEW p \in ServerPhase,
             server' = [server EXCEPT ![c] = p],
             \/ server[c] \notin {"partial", "invited"}
             \/ p \in {"partial", "invited"} \cup (IF RejectsLiterals THEN {"NO", "BAD"} ELSE {}),
             server[c] \notin Final
      PROVE  LiteralIsOpen'
  <2> SUFFICES ASSUME current.phase = "literal"
               PROVE  server'[current.cmd] \in {"partial", "invited"}
                          \cup (IF RejectsLiterals THEN {"NO", "BAD"} ELSE {})
    BY <1>1 DEF LiteralIsOpen
  <2>1. /\ current.cmd \in Command
        /\ server[current.cmd] \in {"partial", "invited"}
              \cup (IF RejectsLiterals THEN {"NO", "BAD"} ELSE {})
    BY DEF VInv, Held, HeldIsWritten, LiteralIsOpen
  <2>2. CASE current.cmd = c
    BY <1>1, <1>4, <2>1, <2>2 DEF Final
  <2>3. CASE current.cmd # c
    BY <1>1, <1>4, <2>1, <2>3
  <2> QED
    BY <2>2, <2>3
<1>5. ASSUME NEW c \in 1..issued, Answer(c) PROVE VInv'
  <2>1. c \in Command
    BY MaxCommandsAssumption DEF NextTypeOK, Command
  <2>2. ASSUME NEW from \in {"partial", "idle_asked"}, NEW to \in {"invited", "idling"},
               from = "partial" => to = "invited", Invite(c, from, to)
        PROVE  VInv'
    <3> DEFINE r == Response("continuation", "-", "-", c, 0)
    <3>1. server[c] = from /\ server' = [server EXCEPT ![c] = to] /\ wire' = Append(wire, r)
      BY <2>2 DEF Invite, Say
    <3>2. r \in Responses
      BY <1>1, <1>2, <3>1, SaidIsResponse
    <3>3. r.type # "tagged" /\ to \in ServerPhase
      BY DEF Response, ServerPhase
    <3>4. LiteralIsOpen'
      BY <1>4, <2>1, <2>2, <3>1, <3>3 DEF Final
    <3> HIDE DEF r
    <3>5. server[c] \notin Final \cup {"unknown"}
      BY <2>2, <3>1 DEF Final
    <3> QED
      BY <1>1, <2>1, <3>1, <3>2, <3>3, <3>4, <3>5, SayVerdicts
  <2>3. CASE Challenge(c)
    <3> DEFINE r == Response("continuation", "-", "-", c, 0)
    <3>1. /\ server[c] = "auth" /\ server' = [server EXCEPT ![c] = "challenged"]
          /\ wire' = Append(wire, r)
      BY <2>3 DEF Challenge, Say
    <3>2. r \in Responses
      BY <1>1, <1>2, <3>1, SaidIsResponse
    <3>3. r.type # "tagged" /\ "challenged" \in ServerPhase
      BY DEF Response, ServerPhase
    <3>4. LiteralIsOpen'
      BY <1>4, <2>1, <3>1, <3>3 DEF Final
    <3> HIDE DEF r
    <3> QED
      BY <1>1, <2>1, <3>1, <3>2, <3>3, <3>4, SayVerdicts DEF Final
  <2>4. ASSUME NEW a \in Wanted(kind[c]), Provide(c, a) PROVE VInv'
    <3> DEFINE r == Response(a[1], a[2], a[3], c, Len(given[c]) + 1)
    <3>1. server' = server /\ wire' = Append(wire, r)
      BY <2>4 DEF Provide
    <3>2. r \in Responses
      BY <1>1, <1>2, <3>1, SaidIsResponse
    <3>3. r.type # "tagged"
      <4>1. a[1] \in {"data", "untagged", "bye"}
        BY DEF Wanted
      <4> QED
        BY <4>1 DEF Response
    <3> HIDE DEF r
    <3> QED
      BY <1>1, <1>3, <2>1, <3>1, <3>2, <3>3, SayVerdicts
  <2>5. ASSUME NEW s \in {"OK", "NO", "BAD"}, NEW code, Complete(c, s, code) PROVE VInv'
    <3> DEFINE r == Response("tagged", s, code, c, Len(given[c]) + 1)
    <3>1. Verdict(c, s) /\ server' = [server EXCEPT ![c] = s] /\ wire' = Append(wire, r)
      BY <2>5 DEF Complete, Say
    <3>2. r \in Responses
      BY <1>1, <1>2, <3>1, SaidIsResponse
    <3>3. r.type = "tagged" /\ r.id = c /\ r.status = s /\ s \in ServerPhase
      BY DEF Response, ServerPhase
    <3>4. LiteralIsOpen'
      BY <1>4, <2>1, <3>1, <3>3 DEF Verdict, Final
    <3> HIDE DEF r
    <3>5. server[c] \notin Final \cup {"unknown"}
      BY <3>1 DEF Verdict, Final
    <3> QED
      BY <1>1, <2>1, <3>1, <3>2, <3>3, <3>4, <3>5, SayVerdicts
  <2> QED
    BY <1>5, <2>2, <2>3, <2>4, <2>5 DEF Answer, GoAhead, AcceptIdle
<1>6. ASSUME NEW v \in Volunteered, Volunteer(v) PROVE VInv'
  <2>1. v[1] \in {"data", "untagged", "bye", "continuation", "malformed", "close"}
    BY VolunteeredAssumption
  <2>2. server' = server
    BY <1>6 DEF Volunteer
  <2>3. 1 \in Command
    BY MaxCommandsAssumption DEF Command
  <2>4. CASE wire' = wire
    BY <1>1, <2>2, <2>4, QuietVerdicts DEF CurrentGoesOn
  <2>5. CASE wire' = Append(wire, Response(v[1], v[2], v[3], 0, 0))
    <3> DEFINE r == Response(v[1], v[2], v[3], 0, 0)
    <3>1. r \in Responses
      BY <1>1, <1>2, <2>5, SaidIsResponse
    <3>2. r.type # "tagged"
      BY <2>1 DEF Response
    <3>3. wire' = Append(wire, r)
      BY <2>5
    <3> HIDE DEF r
    <3> QED
      BY <1>1, <1>3, <2>2, <2>3, <3>1, <3>2, <3>3, SayVerdicts
  <2> QED
    BY <1>6, <2>4, <2>5 DEF Volunteer, Say
<1> QED
  BY <1>5, <1>6 DEF Server

-----------------------------------------------------------------------------
(* The scheduler *)

\* The response that an arm of progress() takes in, and what it does about it.
LEMMA ArmsReceive ==
    ASSUME NEW r, ReceiveEvent(r)
    PROVE  Receive(r)
BY DEF ReceiveEvent, GreetingReceived, CommandRejected, AuthenticateStatusReceived,
       AuthenticateContinuationRequestReceived, DataReceived, StatusReceived,
       ContinuationRequestReceived, TaggedReceived, IdleAccepted, IdleRejected,
       MalformedMessage, EventGreetingReceived, LiteralContinue, EventCommandRejected,
       EventAuthenticateContinuationRequestReceived, EventAuthenticateStatusReceived,
       EventIdleAccepted, EventIdleRejected, EventContinuationRequestReceived,
       EventDataReceived, EventStatusReceived, ErrorMalformedMessage

\* An event about what was sent, or about what was received without a verdict.
LEMMA ReportVerdicts ==
    ASSUME NextTypeOK, VInv, NEW c, NEW from, NEW to, Report(c, from, to), UNCHANGED output,
           from # "none", to = NoCommand \/ (to.cmd = c /\ to.phase # "literal"),
           to.phase \in AuthPhases => from \in AuthPhases
    PROVE  VInv'
BY QuietVerdicts DEF Report, CurrentGoesOn, serverVars, NoCommand

\* Where the task of a command is that was written and has no output.
LEMMA WrittenHasItsTask ==
    ASSUME IInv, Alive, NEW c \in Command, ~Unwritten(c), output[c] = NoOutput
    PROVE  \/ Has(active, c)
           \/ Has(waiting, c) /\ BeingSent = <<c>> /\ current.cmd = c
<1>1. c \in Nat /\ issued \in Nat /\ c <= issued /\ ~Has(unsent, c)
  BY MaxCommandsAssumption DEF Unwritten, IInv, TypeOK, NextTypeOK, Command
<1>2. Has(waiting, c) \/ Has(active, c)
  BY <1>1 DEF IInv, EveryCommandHasItsTask
<1>3. waiting = BeingSent \o unsent /\ unsent \in Seq(Command)
  BY DEF IInv, WaitingIsUnsent, TypeOK, NextTypeOK
<1>4. CASE BeingSent = <<>>
  <2>1. waiting = unsent
    BY <1>3, <1>4
  <2> QED
    BY <1>1, <1>2, <2>1
<1>5. CASE BeingSent = <<current.cmd>>
  <2> DEFINE d == current.cmd
  <2>1. waiting = <<d>> \o unsent
    BY <1>3, <1>5
  <2> HIDE DEF d
  <2>2. ASSUME Has(waiting, c) PROVE d = c
    <3>1. PICK i \in DOMAIN waiting : waiting[i] = c
      BY <2>2 DEF Has
    <3>2. i = 1 \/ (i - 1 \in DOMAIN unsent /\ waiting[i] = unsent[i - 1])
      BY <1>3, <2>1, <3>1
    <3>3. waiting[1] = d
      BY <1>3, <2>1
    <3> QED
      BY <1>1, <3>1, <3>2, <3>3 DEF Has
  <2> QED
    BY <1>2, <1>5, <2>2 DEF d
<1> QED
  BY <1>4, <1>5 DEF BeingSent

\* A tagged response is the server's verdict, and nobody has met it yet.
LEMMA TaggedIsVerdict ==
    ASSUME NextTypeOK, VInv, NEW r, Receive(r), r.type = "tagged"
    PROVE  /\ r \in Responses /\ r.id \in Command /\ r.status \in Final
           /\ server[r.id] = r.status /\ output[r.id] = NoOutput /\ ~Unwritten(r.id)
<1>1. wire # <<>> /\ r = Head(wire) /\ wire' = Tail(wire)
  BY DEF Receive, CanReceive
<1>2. r = wire[1] /\ 1 \in DOMAIN wire /\ r \in Responses
  BY <1>1, TailOfWire
<1>3. r.status \in Final /\ r.id \in Command
  BY <1>2, MaxCommandsAssumption DEF Responses, Final, Command
<1>4. server[r.id] = r.status /\ output[r.id] = NoOutput
  BY <1>2 DEF VInv, Decided, VerdictsAreOnce, Tagged
<1>5. ~Unwritten(r.id)
  BY <1>3, <1>4 DEF VInv, Sent, UnwrittenIsUnknown, Final
<1> QED
  BY <1>2, <1>3, <1>4, <1>5

\* A tagged response finds its task among the active, unless it refuses the
\* literal of a command that is still being sent.
LEMMA TaggedFindsItsTask ==
    ASSUME IInv, VInv, Alive, NEW r, Receive(r), r.type = "tagged"
    PROVE  /\ r.id \in Command /\ r.status \in Final
           /\ server[r.id] = r.status /\ output[r.id] = NoOutput
           /\ \/ Has(active, r.id)
              \/ RejectsLiterals /\ LiteralRefused(r) /\ Has(waiting, r.id)
<1>1. CanReceive /\ NextTypeOK
  BY DEF Receive, IInv, TypeOK
<1>2. /\ r.id \in Command /\ r.status \in Final
      /\ server[r.id] = r.status /\ output[r.id] = NoOutput /\ ~Unwritten(r.id)
  BY <1>1, TaggedIsVerdict
<1>3. ASSUME ~Has(active, r.id)
      PROVE  RejectsLiterals /\ LiteralRefused(r) /\ Has(waiting, r.id)
  <2>1. Has(waiting, r.id) /\ BeingSent = <<r.id>> /\ current.cmd = r.id
    BY <1>2, <1>3, WrittenHasItsTask
  <2>2. current.phase \in {"literal", "rest", "sent", "auth_sent", "idle_sent"}
    <3>1. <<r.id>> # <<>>
      OBVIOUS
    <3> QED
      BY <2>1, <3>1 DEF BeingSent
  <2>3. greeted
    BY <2>2 DEF VInv, Held, HeldIsWritten
  <2>4. current.phase = "literal"
    BY <1>1, <2>2, <2>3 DEF CanReceive, CanWrite, EventPending
  <2>5. RejectsLiterals /\ r.status \in {"NO", "BAD"}
    BY <1>2, <2>1, <2>4 DEF VInv, Held, LiteralIsOpen, Final
  <2> QED
    BY <2>1, <2>4, <2>5 DEF LiteralRefused, Ends
<1> QED
  BY <1>2, <1>3

\* A response is received.
LEMMA ReceiveVerdicts ==
    ASSUME NextTypeOK, SchedTypeOK, VInv, NEW r, ReceiveEvent(r)
    PROVE  VInv'
<1>1. /\ Receive(r)
      /\ UNCHANGED <<issued, unsent, server>> /\ wire # <<>> /\ wire' = Tail(wire)
  BY ArmsReceive DEF Receive, CanReceive, serverVars
<1>2. ASSUME UNCHANGED output, greeted => greeted', CurrentGoesOn PROVE VInv'
  BY <1>1, <1>2, QuietVerdicts
<1>3. ASSUME UNCHANGED greeted, current' = NoCommand, r.type = "tagged",
             FinishByHandle(r.id, r)
      PROVE  VInv'
  <2>1. CASE Has(active, r.id)
    BY <1>1, <1>3, <2>1, FinishVerdicts DEF FinishByHandle, Finish
  <2>2. CASE ~Has(active, r.id)
    BY <1>2, <1>3, <2>2 DEF FinishByHandle, Panic, CurrentGoesOn, NoCommand
  <2> QED
    BY <2>1, <2>2
<1>4. ASSUME UNCHANGED engineVars, Route(r) PROVE VInv'
  BY <1>2, <1>4 DEF Route, Return, engineVars, CurrentGoesOn
<1>5. CASE GreetingReceived(r)
  BY <1>2, <1>5 DEF GreetingReceived, EventGreetingReceived, Return, CurrentGoesOn
<1>6. CASE LiteralContinue(r) /\ Return("continue")
  BY <1>1, <1>2, <1>6 DEF LiteralContinue, Return, CurrentGoesOn, AuthPhases, NextTypeOK
<1>7. CASE CommandRejected(r)
  BY <1>3, <1>7 DEF CommandRejected, EventCommandRejected, LiteralRefused, Ends
<1>8. ASSUME NEW handle \in Command, AuthenticateContinuationRequestReceived(handle, r)
      PROVE  VInv'
  <2>1. UNCHANGED <<greeted, output>> /\ current.phase = "auth"
    BY <1>8 DEF AuthenticateContinuationRequestReceived, Panic, Return,
                EventAuthenticateContinuationRequestReceived
  <2>2. current' = current \/ current' = [current EXCEPT !.phase = "auth_data"]
    BY <1>8 DEF AuthenticateContinuationRequestReceived, set_authenticate_data
  <2>3. CurrentGoesOn
    BY <1>1, <2>1, <2>2 DEF CurrentGoesOn, AuthPhases, NextTypeOK
  <2> QED
    BY <1>2, <2>1, <2>3
<1>9. CASE AuthenticateStatusReceived(r)
  BY <1>3, <1>9 DEF AuthenticateStatusReceived, EventAuthenticateStatusReceived,
                    AuthenticateEnded, Ends
<1>10. CASE DataReceived(r)
  BY <1>4, <1>10 DEF DataReceived, EventDataReceived
<1>11. CASE ContinuationRequestReceived(r)
  BY <1>4, <1>11 DEF ContinuationRequestReceived, EventContinuationRequestReceived
<1>12. CASE StatusReceived(r)
  BY <1>4, <1>12 DEF StatusReceived, EventStatusReceived
<1>13. CASE TaggedReceived(r)
  <2>1. /\ r.type = "tagged" /\ UNCHANGED <<greeted, current>> /\ ~AuthenticateEnded(r)
        /\ r.status \in Final
    BY <1>1, <1>13, TaggedIsVerdict DEF TaggedReceived, EventStatusReceived, engineVars
  <2>2. ~(current.phase = "auth" /\ r.id = current.cmd)
    BY <2>1 DEF AuthenticateEnded, Ends, Final
  <2>3. CASE Has(active, r.id)
    BY <1>1, <1>13, <2>1, <2>2, <2>3, FinishVerdicts DEF TaggedReceived, Finish
  <2>4. CASE ~Has(active, r.id)
    BY <1>2, <1>13, <2>1, <2>4 DEF TaggedReceived, Return, CurrentGoesOn
  <2> QED
    BY <2>3, <2>4
<1>14. CASE IdleAccepted(r)
  BY <1>1, <1>2, <1>14
     DEF IdleAccepted, EventIdleAccepted, Return, CurrentGoesOn, AuthPhases, NextTypeOK
<1>15. CASE IdleRejected(r)
  BY <1>3, <1>15 DEF IdleRejected, EventIdleRejected, IdleRefused, Ends
<1>16. CASE MalformedMessage(r)
  BY <1>2, <1>16
     DEF MalformedMessage, ErrorMalformedMessage, Return, CurrentGoesOn, engineVars
<1> QED
  BY <1>5, <1>6, <1>7, <1>8, <1>9, <1>10, <1>11, <1>12, <1>13, <1>14, <1>15, <1>16
     DEF ReceiveEvent

\* An event about what was sent.
LEMMA SendVerdicts ==
    ASSUME NextTypeOK, VInv, NEW c \in Command, SendEvent(c)
    PROVE  VInv'
<1>1. UNCHANGED output
  BY DEF SendEvent, CommandSent, AuthenticateStarted, IdleCommandSent, IdleDoneSent, Start,
         Panic, Return
<1>2. ASSUME NEW from \in {"sent", "idle_sent", "done_sent"}, Report(c, from, NoCommand)
      PROVE  VInv'
  BY <1>1, <1>2, ReportVerdicts DEF NoCommand, AuthPhases
<1>3. ASSUME NEW from \in {"auth_sent", "idle_sent"}, NEW to \in {"auth", "idle_asked"},
             to = "auth" => from = "auth_sent", Report(c, from, [cmd |-> c, phase |-> to])
      PROVE  VInv'
  BY <1>1, <1>3, ReportVerdicts DEF AuthPhases
<1> QED
  BY <1>2, <1>3
     DEF SendEvent, CommandSent, AuthenticateStarted, IdleCommandSent, IdleDoneSent,
         EventCommandSent, EventAuthenticateStarted, EventIdleCommandSent, EventIdleDoneSent

\* Every step.
LEMMA NextVerdicts ==
    ASSUME IInv, VInv, [Next]_vars
    PROVE  VInv'
<1>1. NextTypeOK /\ SchedTypeOK
  BY DEF IInv, TypeOK
<1>2. CASE Enqueue
  BY <1>1, <1>2, EnqueueVerdicts DEF Enqueue, enqueue_task
<1>3. CASE progress
  BY <1>1, <1>3, SendVerdicts, ReceiveVerdicts DEF progress
<1>4. CASE WriteOutput
  BY <1>1, <1>4, WriteVerdicts DEF WriteOutput, schedVars
<1>5. CASE EndIdle
  BY <1>1, <1>5, QuietVerdicts
     DEF EndIdle, set_idle_done, schedVars, serverVars, CurrentGoesOn, AuthPhases, NextTypeOK
<1>6. CASE ServerStep
  BY <1>1, <1>6, ServerVerdicts DEF ServerStep, schedVars
<1>7. CASE UNCHANGED vars
  BY <1>1, <1>7, QuietVerdicts DEF vars, CurrentGoesOn
<1> QED
  BY <1>2, <1>3, <1>4, <1>5, <1>6, <1>7 DEF Next, Rest

LEMMA VerdictInvariance == Spec => [](IInv /\ VInv)
<1>1. Init => IInv /\ VInv
  BY InitIInv, InitVerdicts
<1>2. IInv /\ VInv /\ [Next]_vars => IInv' /\ VInv'
  BY NextIInv, NextVerdicts
<1> QED
  BY <1>1, <1>2, PTL DEF Spec

\* A task ends with the verdict of its own command: no response is taken for
\* the completion of another command, whatever is pipelined, refused, reordered
\* by the server or abandoned in the middle (the arms of mod.rs:153-243).
THEOREM VerdictIsTheServersHolds == Spec => []VerdictIsTheServers
<1>1. VInv => VerdictIsTheServers
  BY DEF VInv, Decided
<1> QED
  BY <1>1, VerdictInvariance, PTL

-----------------------------------------------------------------------------
(* What the last iteration of progress() may have ended with *)

\* The only unwrap that can fail: the task of a command whose literal the server
\* refuses is still waiting when its completion is received.
RefusedInWaiting == RejectsLiterals /\ \E c \in Command : Answered(c) /\ Has(waiting, c)
EndsWell == NoUnexpectedTagged /\ (~UnwrapsHold => RefusedInWaiting)

\* What the server decided it does not take back.
LEMMA AnsweredStays ==
    ASSUME NextTypeOK, Server, NEW d \in Command, Answered(d)
    PROVE  Answered(d)'
<1>1. server \in [Command -> ServerPhase]
  BY DEF NextTypeOK
<1>2. ASSUME NEW c \in 1..issued, Answer(c) PROVE server'[d] = server[d]
  <2>1. CASE GoAhead(c) \/ AcceptIdle(c) \/ Challenge(c)
    BY <1>1, <2>1 DEF GoAhead, AcceptIdle, Invite, Challenge, Answered
  <2>2. ASSUME NEW a, Provide(c, a) PROVE server'[d] = server[d]
    BY <2>2 DEF Provide
  <2>3. ASSUME NEW s, NEW code, Complete(c, s, code) PROVE server'[d] = server[d]
    BY <1>1, <2>3 DEF Complete, Verdict, Answered
  <2> QED
    BY <1>2, <2>1, <2>2, <2>3 DEF Answer
<1>3. ASSUME NEW v \in Volunteered, Volunteer(v) PROVE server'[d] = server[d]
  BY <1>3 DEF Volunteer
<1> QED
  BY <1>2, <1>3 DEF Server, Answered

\* The unwrap of an AUTHENTICATE continuation finds its task.
LEMMA AuthenticatesActive ==
    ASSUME IInv, VInv, Alive, NEW c \in Command, current = [cmd |-> c, phase |-> "auth"]
    PROVE  Has(active, c)
<1>1. ~Unwritten(c) /\ output[c] = NoOutput
  BY DEF VInv, Held, HeldIsWritten, AuthIsOpen, AuthPhases
<1>2. BeingSent = <<>> /\ <<c>> # <<>>
  BY DEF BeingSent
<1> QED
  BY <1>1, <1>2, WrittenHasItsTask

\* Receiving a response ends the iteration well.
LEMMA ReceiveEndsWell ==
    ASSUME IInv, VInv, Alive, NEW r, ReceiveEvent(r)
    PROVE  EndsWell'
<1>1. Receive(r) /\ UNCHANGED server
  BY ArmsReceive DEF Receive, serverVars
<1>2. ASSUME NEW name \in EventNames \ {"panic", "UnexpectedTaggedResponse"},
             NEW c, event' = Ended(name, c)
      PROVE  EndsWell'
  BY <1>2 DEF EndsWell, NoUnexpectedTagged, UnwrapsHold, Alive, Ended
<1>3. ASSUME NEW name \in EventNames \ {"panic", "UnexpectedTaggedResponse"}, Return(name)
      PROVE  EndsWell'
  BY <1>2, <1>3 DEF Return
<1>4. ASSUME NEW c, NEW rest, Finish(c, r, rest) PROVE EndsWell'
  <2>1. event' = Ended("TaskFinished", c)
    BY <1>4 DEF Finish
  <2> QED
    BY <1>2, <2>1 DEF EventNames
<1>5. ASSUME FinishByHandle(r.id, r), r.type = "tagged" PROVE EndsWell'
  <2>1. CASE Has(active, r.id)
    BY <1>4, <1>5, <2>1 DEF FinishByHandle
  <2>2. CASE ~Has(active, r.id)
    <3>1. Panic
      BY <1>5, <2>2 DEF FinishByHandle
    <3>2. /\ RejectsLiterals /\ Has(waiting, r.id) /\ r.id \in Command
          /\ server[r.id] \in Final
      BY <1>1, <1>5, <2>2, TaggedFindsItsTask
    <3>3. RefusedInWaiting'
      BY <1>1, <3>1, <3>2 DEF Panic, RefusedInWaiting, Answered, Final
    <3> QED
      BY <3>1, <3>3 DEF Panic, EndsWell, NoUnexpectedTagged, Ended
  <2> QED
    BY <2>1, <2>2
<1>6. ASSUME Route(r) PROVE EndsWell'
  BY <1>2, <1>3, <1>6 DEF Route, EventNames, Continue
<1>7. ASSUME NEW handle \in Command, AuthenticateContinuationRequestReceived(handle, r)
      PROVE  EndsWell'
  <2>1. Has(active, handle)
    BY <1>7, AuthenticatesActive
       DEF AuthenticateContinuationRequestReceived,
           EventAuthenticateContinuationRequestReceived
  <2>2. Return("continue") \/ Return("Unsolicited")
    BY <1>7, <2>1 DEF AuthenticateContinuationRequestReceived
  <2> QED
    BY <1>3, <2>2 DEF EventNames
<1>8. CASE TaggedReceived(r)
  <2>1. r.type = "tagged" /\ ~LiteralRefused(r)
    BY <1>8 DEF TaggedReceived, EventStatusReceived
  <2>2. Has(active, r.id)
    BY <1>1, <2>1, TaggedFindsItsTask
  <2> QED
    BY <1>4, <1>8, <2>2 DEF TaggedReceived
<1>9. CASE CommandRejected(r) \/ AuthenticateStatusReceived(r) \/ IdleRejected(r)
  BY <1>5, <1>9
     DEF CommandRejected, EventCommandRejected, LiteralRefused, IdleRejected,
         EventIdleRejected, IdleRefused, AuthenticateStatusReceived,
         EventAuthenticateStatusReceived, AuthenticateEnded, Ends
<1>10. CASE DataReceived(r) \/ ContinuationRequestReceived(r) \/ StatusReceived(r)
  BY <1>6, <1>10 DEF DataReceived, ContinuationRequestReceived, StatusReceived
<1>11. CASE \/ GreetingReceived(r) \/ MalformedMessage(r) \/ IdleAccepted(r)
            \/ LiteralContinue(r) /\ Return("continue")
  BY <1>3, <1>11 DEF GreetingReceived, MalformedMessage, IdleAccepted, EventNames
<1> QED
  BY <1>7, <1>8, <1>9, <1>10, <1>11 DEF ReceiveEvent

\* So does reporting what was sent: the unwrap on waiting_tasks holds.
LEMMA SendEndsWell ==
    ASSUME IInv, VInv, Alive, NEW c \in Command, SendEvent(c)
    PROVE  EndsWell'
<1>1. CASE IdleDoneSent(c)
  BY <1>1 DEF IdleDoneSent, Return, EndsWell, NoUnexpectedTagged, UnwrapsHold, Alive, Ended
<1>2. CASE CommandSent(c) \/ AuthenticateStarted(c) \/ IdleCommandSent(c)
  <2>1. Start(c) /\ BeingSent = <<c>> /\ unsent \in Seq(Command)
    BY <1>2 DEF CommandSent, AuthenticateStarted, IdleCommandSent, EventCommandSent,
                EventAuthenticateStarted, EventIdleCommandSent, Report, BeingSent, IInv,
                TypeOK, NextTypeOK
  <2>2. Has(waiting, c)
    BY <2>1, RemoveHead DEF IInv, WaitingIsUnsent
  <2> QED
    BY <2>1, <2>2
       DEF Start, EndsWell, NoUnexpectedTagged, UnwrapsHold, Alive, Ended, Continue
<1> QED
  BY <1>1, <1>2 DEF SendEvent

\* Every step.
LEMMA NextEndsWell ==
    ASSUME IInv, VInv, EndsWell, [Next]_vars
    PROVE  EndsWell'
<1>1. NextTypeOK
  BY DEF IInv, TypeOK
<1>2. ASSUME Alive, UNCHANGED event PROVE EndsWell'
  BY <1>2 DEF EndsWell, NoUnexpectedTagged, UnwrapsHold, Alive
<1>3. CASE Enqueue
  BY <1>2, <1>3 DEF Enqueue, enqueue_task
<1>4. CASE progress
  BY <1>4, SendEndsWell, ReceiveEndsWell DEF progress
<1>5. CASE WriteOutput \/ EndIdle
  BY <1>2, <1>5 DEF WriteOutput, EndIdle, schedVars
<1>6. CASE ServerStep
  BY <1>1, <1>6, AnsweredStays
     DEF ServerStep, schedVars, EndsWell, NoUnexpectedTagged, UnwrapsHold, Alive,
         RefusedInWaiting
<1>7. CASE UNCHANGED vars
  BY <1>7 DEF vars, EndsWell, NoUnexpectedTagged, UnwrapsHold, Alive, RefusedInWaiting,
              Answered
<1> QED
  BY <1>3, <1>4, <1>5, <1>6, <1>7 DEF Next, Rest

LEMMA EndsWellInvariance == Spec => []EndsWell
<1>1. Init => EndsWell
  BY DEF Init, SchedInit, EndsWell, NoUnexpectedTagged, UnwrapsHold, Alive, Continue, Ended
<1> QED
  BY <1>1, NextEndsWell, VerdictInvariance, PTL DEF Spec

\* No tagged response is unexpected: progress() never returns the error that its
\* doc blames on the scheduler (mod.rs:376), in whatever order the server answers.
THEOREM NoUnexpectedTaggedHolds == Spec => []NoUnexpectedTagged
<1>1. EndsWell => NoUnexpectedTagged
  BY DEF EndsWell
<1> QED
  BY <1>1, EndsWellInvariance, PTL

\* No unwrap on the maps fails (mod.rs:163-216) but on a refused literal: the
\* task of the refused command is then still among the waiting.
THEOREM PanicMeansRefused == Spec => [](UnwrapsHold \/ RefusedInWaiting)
<1>1. EndsWell => UnwrapsHold \/ RefusedInWaiting
  BY DEF EndsWell
<1> QED
  BY <1>1, EndsWellInvariance, PTL

\* With a server that invites every literal none of them fails.
THEOREM UnwrapsHoldIfInvited == ~RejectsLiterals => (Spec => []UnwrapsHold)
<1> SUFFICES ASSUME ~RejectsLiterals PROVE Spec => []UnwrapsHold
  OBVIOUS
<1>1. EndsWell => UnwrapsHold
  BY DEF EndsWell, RefusedInWaiting
<1> QED
  BY <1>1, EndsWellInvariance, PTL

-----------------------------------------------------------------------------
(* The scheduler implements the service of TaskService: its initial states *)
(* are initial states of the service, and every step of the engine, of     *)
(* progress(), of a caller or of the server is a step of the service or    *)
(* leaves it alone.                                                        *)

Running == {active[i] : i \in DOMAIN active}
Decision == [c \in Command |-> IF Answered(c) THEN server[c] ELSE "none"]
Result == [c \in Command |-> output[c].verdict]

\* What the server works on has left the queue, or is being sent: it is never
\* ahead of the scheduler by more than one command.
UnderWay(c) == server[c] \notin Final \cup {"unknown"}
UnderWayIsStarted ==
    \A c \in Command : UnderWay(c) =>
        Has(active, c) \/ (waiting # <<>> /\ Head(waiting) = c)

SInv == IInv /\ VInv /\ UnderWayIsStarted

LEMMA RunningIsActive == \A c : c \in Running <=> Has(active, c)
BY DEF Running, Has

\* A program that did not panic keeps the task of every command under way.
LEMMA AliveIsStarted ==
    ASSUME IInv, VInv, Alive
    PROVE  UnderWayIsStarted
<1> SUFFICES ASSUME NEW c \in Command, UnderWay(c), ~Has(active, c)
             PROVE  waiting # <<>> /\ Head(waiting) = c
  BY DEF UnderWayIsStarted
<1>1. ~Unwritten(c) /\ output[c] = NoOutput
  BY DEF UnderWay, VInv, Sent, UnwrittenIsUnknown, Decided, OutputIsAnswer, Answered, Final
<1>2. BeingSent = <<c>>
  BY <1>1, WrittenHasItsTask
<1>3. waiting = <<c>> \o unsent /\ unsent \in Seq(Command)
  BY <1>2 DEF IInv, WaitingIsUnsent, TypeOK, NextTypeOK
<1> QED
  BY <1>3

\* The server goes on with what it has received, and with nothing else.
LEMMA ServerFollows ==
    ASSUME NextTypeOK, Server, NEW d \in Command
    PROVE  UnderWay(d)' => UnderWay(d)
<1>1. server \in [Command -> ServerPhase]
  BY DEF NextTypeOK
<1>2. ASSUME NEW c \in 1..issued, Answer(c) PROVE UnderWay(d)' => UnderWay(d)
  <2>1. CASE GoAhead(c) \/ AcceptIdle(c) \/ Challenge(c)
    BY <1>1, <2>1 DEF GoAhead, AcceptIdle, Invite, Challenge, UnderWay, Final
  <2>2. ASSUME NEW a, Provide(c, a) PROVE UnderWay(d)' => UnderWay(d)
    BY <2>2 DEF Provide, UnderWay
  <2>3. ASSUME NEW s, NEW code, Complete(c, s, code) PROVE UnderWay(d)' => UnderWay(d)
    BY <1>1, <2>3 DEF Complete, Verdict, UnderWay, Final
  <2> QED
    BY <1>2, <2>1, <2>2, <2>3 DEF Answer
<1>3. ASSUME NEW v \in Volunteered, Volunteer(v) PROVE UnderWay(d)' => UnderWay(d)
  BY <1>3 DEF Volunteer, UnderWay
<1> QED
  BY <1>2, <1>3 DEF Server

\* An iteration that panics leaves both maps and the server as they are.
LEMMA PanicLeaves ==
    ASSUME progress, ~Alive'
    PROVE  UNCHANGED <<waiting, active, server>>
<1>1. ASSUME NEW name, Return(name) PROVE UNCHANGED <<waiting, active>>
  BY <1>1 DEF Return
<1>2. ASSUME NEW c, Start(c) PROVE UNCHANGED <<waiting, active>>
  BY <1>2 DEF Start, Alive, Continue, Ended, Panic
<1>3. ASSUME NEW c, NEW r, NEW rest PROVE ~Finish(c, r, rest)
  BY DEF Finish, Alive, Ended
<1>4. ASSUME NEW c, NEW r, FinishByHandle(c, r) PROVE UNCHANGED <<waiting, active>>
  BY <1>3, <1>4 DEF FinishByHandle, Panic
<1>5. ASSUME NEW r, Route(r) PROVE UNCHANGED <<waiting, active>>
  BY <1>5 DEF Route, Return
<1>6. ASSUME NEW c \in Command, SendEvent(c) PROVE UNCHANGED <<waiting, active, server>>
  BY <1>1, <1>2, <1>6
     DEF SendEvent, CommandSent, AuthenticateStarted, IdleCommandSent, IdleDoneSent,
         EventCommandSent, EventAuthenticateStarted, EventIdleCommandSent,
         EventIdleDoneSent, Report, serverVars
<1>7. ASSUME NEW r, ReceiveEvent(r) PROVE UNCHANGED <<waiting, active, server>>
  <2>1. UNCHANGED server
    BY <1>7, ArmsReceive DEF Receive, serverVars
  <2>2. ASSUME NEW handle \in Command, AuthenticateContinuationRequestReceived(handle, r)
        PROVE  UNCHANGED <<waiting, active>>
    BY <2>2 DEF AuthenticateContinuationRequestReceived, Panic, Return
  <2>3. CASE CommandRejected(r) \/ AuthenticateStatusReceived(r) \/ IdleRejected(r)
    BY <1>4, <2>1, <2>3 DEF CommandRejected, AuthenticateStatusReceived, IdleRejected
  <2>4. CASE DataReceived(r) \/ ContinuationRequestReceived(r) \/ StatusReceived(r)
    BY <1>5, <2>1, <2>4 DEF DataReceived, ContinuationRequestReceived, StatusReceived
  <2>5. CASE TaggedReceived(r)
    BY <1>1, <1>3, <2>1, <2>5 DEF TaggedReceived
  <2>6. CASE \/ GreetingReceived(r) \/ MalformedMessage(r) \/ IdleAccepted(r)
             \/ LiteralContinue(r) /\ Return("continue")
    BY <1>1, <2>1, <2>6 DEF GreetingReceived, MalformedMessage, IdleAccepted
  <2> QED
    BY <1>7, <2>1, <2>2, <2>3, <2>4, <2>5, <2>6 DEF ReceiveEvent
<1> QED
  BY <1>6, <1>7 DEF progress

\* Every step.
LEMMA NextStarted ==
    ASSUME SInv, [Next]_vars
    PROVE  SInv'
<1>1. IInv' /\ VInv'
  BY NextIInv, NextVerdicts DEF SInv
<1>2. CASE Alive'
  BY <1>1, <1>2, AliveIsStarted, PTL DEF SInv
<1>3. CASE ~Alive'
  <2>1. CASE UNCHANGED <<waiting, active, server>>
    BY <1>1, <2>1 DEF SInv, UnderWayIsStarted, UnderWay, Has
  <2>2. CASE ServerStep
    <3>1. UNCHANGED <<waiting, active>> /\ NextTypeOK /\ Server
      BY <2>2 DEF ServerStep, schedVars, SInv, IInv, TypeOK
    <3> QED
      BY <1>1, <3>1, ServerFollows DEF SInv, UnderWayIsStarted, Has
  <2> QED
    BY <1>3, <2>1, <2>2, PanicLeaves
       DEF Next, Enqueue, enqueue_task, WriteOutput, EndIdle, Rest, Alive, schedVars, vars
<1> QED
  BY <1>2, <1>3

-----------------------------------------------------------------------------
(* The steps of the service *)

\* What the maps, the server and the outputs are to the service.
serviceState == <<waiting, Running, Decision, Result>>

LEMMA DecisionOf ==
    \A c \in Command : /\ Decision[c] = IF server[c] \in Final THEN server[c] ELSE "none"
                       /\ Decision[c] # "none" <=> server[c] \in Final
BY DEF Decision, Answered, Final

\* Nothing is decided by a step of the server after which the same is answered.
LEMMA DecisionStays ==
    ASSUME \A c \in Command : server'[c] = server[c]
                                 \/ (server[c] \notin Final /\ server'[c] \notin Final)
    PROVE  Decision' = Decision
BY DEF Decision, Answered, Final

LEMMA ResultOf ==
    ASSUME VInv
    PROVE  \A c \in Command : Result[c] = "none" <=> output[c] = NoOutput
BY DEF VInv, Decided, OutputIsAnswer, Result, NoOutput

\* Enqueueing submits the next task.
LEMMA EnqueueSubmits ==
    ASSUME SInv, Enqueue
    PROVE  \E c \in Command : Service!Submit(c)
<1> DEFINE c == issued + 1
<1>1. /\ Alive /\ issued < MaxCommands /\ issued \in Nat /\ waiting' = Append(waiting, c)
      /\ UNCHANGED <<active, output, server>>
  BY DEF Enqueue, enqueue_task, enqueue_command, push_back, serverVars, SInv, IInv, TypeOK,
         NextTypeOK
<1>2. c \in Command
  BY <1>1, MaxCommandsAssumption DEF Command
<1> DEFINE Known(d) == Has(waiting, d) \/ Has(active, d) \/ output[d] # NoOutput
<1>3. \A d \in Command : d <= issued <=> Known(d)
  BY <1>1 DEF SInv, IInv, EveryCommandHasItsTask
<1>4. server[c] = "unknown"
  BY <1>1, <1>2 DEF SInv, VInv, Sent, UnwrittenIsUnknown, Unwritten
<1>5. ~(c <= issued) /\ \A d \in Command : d < c => d <= issued
  BY <1>1, MaxCommandsAssumption DEF Command
<1> HIDE DEF c
<1>6. ~Service!Submitted(c)
  BY <1>2, <1>3, <1>4, <1>5, DecisionOf, ResultOf, RunningIsActive
     DEF Service!Submitted, Decision, Result, Running, SInv, Has, Final
<1>7. \A d \in Command : d < c => Service!Submitted(d)
  BY <1>2, <1>3, <1>5, ResultOf, RunningIsActive
     DEF Service!Submitted, Result, Running, SInv, Has
<1> QED
  BY <1>1, <1>2, <1>6, <1>7 DEF Service!Submit, Answered

\* A task starts when the report comes that its command was sent.
LEMMA StartStarts ==
    ASSUME SInv, Alive, NEW c \in Command, BeingSent = <<c>>, Start(c), UNCHANGED server
    PROVE  Service!Start
<1>1. /\ waiting = <<c>> \o unsent /\ unsent \in Seq(Command) /\ active \in Seq(Command)
  BY DEF SInv, IInv, WaitingIsUnsent, TypeOK, NextTypeOK, SchedTypeOK
<1>2. Has(waiting, c) /\ remove_by_handle(waiting, c) = unsent
  BY <1>1, RemoveHead
<1>3. waiting # <<>> /\ Head(waiting) = c /\ Tail(waiting) = unsent
  BY <1>1
<1>4. /\ waiting' = Tail(waiting) /\ active' = push_back(active, c) /\ UNCHANGED output
  BY <1>2, <1>3 DEF Start
<1>5. Running' = Running \cup {Head(waiting)}
  <2>1. \A d : Has(push_back(active, c), d) <=> Has(active, d) \/ d = c
    BY <1>1, PushBackProperties
  <2>2. \A d : Has(active', d) <=> Has(active, d) \/ d = c
    BY <1>4, <2>1
  <2>3. \A d : d \in Running' <=> Has(active', d)
    BY DEF Running, Has
  <2> QED
    BY <1>3, <2>2, <2>3, RunningIsActive
<1> QED
  BY <1>3, <1>4, <1>5 DEF Service!Start, Running, Answered

\* A task finishes with a verdict made of the decision on its command.
LEMMA FinishFinishes ==
    ASSUME SInv, Alive, NEW r, Receive(r), r.type = "tagged", Has(active, r.id),
           Finish(r.id, r, remove_by_handle(active, r.id))
    PROVE  r.id \in Command /\ Service!Finish(r.id)
<1> DEFINE c == r.id
           v == process_tagged(kind[c], consumed[c], r).verdict
<1>1. c \in Command /\ r.status \in Final /\ server[c] = r.status
  BY TaggedFindsItsTask DEF SInv
<1>2. /\ active' = remove_by_handle(active, c) /\ UNCHANGED <<waiting, server>>
      /\ output' = [output EXCEPT ![c] = process_tagged(kind[c], consumed[c], r)]
      /\ active \in Seq(Command) /\ Increasing(active)
      /\ output \in [Command -> [verdict : Verdicts, items : SUBSET Responses]]
  BY DEF Finish, Receive, serverVars, SInv, IInv, TypeOK, SchedTypeOK, EveryCommandHasItsTask
<1>3. v \in Service!Made(Decision[c])
  <2>1. Decision[c] = r.status
    BY <1>1, DecisionOf
  <2>2. /\ r.status = "OK" => v \in {"Ok", "MissingData"}
        /\ r.status = "NO" => v = "UnexpectedNoResponse"
        /\ r.status = "BAD" => v = "UnexpectedBadResponse"
    BY DEF process_tagged
  <2> QED
    BY <1>1, <2>1, <2>2 DEF Service!Made, Final
<1>4. Result' = [Result EXCEPT ![c] = v]
  BY <1>1, <1>2 DEF Result
<1>5. Running' = Running \ {c}
  <2>1. \A d : Has(active', d) <=> Has(active, d) /\ d # c
    BY <1>2, RemoveProperties
  <2>2. \A d : d \in Running' <=> Has(active', d)
    BY DEF Running, Has
  <2> QED
    BY <2>1, <2>2, RunningIsActive
<1>6. c \in Running /\ Decision' = Decision
  BY <1>2, RunningIsActive DEF Decision, Answered
<1> HIDE DEF v
<1> QED
  BY <1>1, <1>2, <1>3, <1>4, <1>5, <1>6 DEF Service!Finish, Result, Running, Decision

\* What leaves the maps, the outputs and the server alone, the service does not see.
LEMMA Unseen ==
    ASSUME UNCHANGED <<waiting, active, output>>,
           \A c \in Command : server'[c] = server[c]
                                 \/ (server[c] \notin Final /\ server'[c] \notin Final)
    PROVE  UNCHANGED serviceState
<1>1. Decision' = Decision
  BY DecisionStays
<1> QED
  BY <1>1 DEF serviceState, Running, Result

\* A response finishes a task or changes nothing.
LEMMA ReceiveServes ==
    ASSUME SInv, Alive, NEW r, ReceiveEvent(r)
    PROVE  (\E c \in Command : Service!Finish(c)) \/ UNCHANGED serviceState
<1>1. Receive(r) /\ UNCHANGED server
  BY ArmsReceive DEF Receive, serverVars
<1>2. ASSUME UNCHANGED <<waiting, active, output>> PROVE UNCHANGED serviceState
  BY <1>1, <1>2, Unseen
<1>3. ASSUME NEW name, Return(name) PROVE UNCHANGED serviceState
  BY <1>2, <1>3 DEF Return
<1>4. ASSUME r.type = "tagged", FinishByHandle(r.id, r)
      PROVE  (\E c \in Command : Service!Finish(c)) \/ UNCHANGED serviceState
  BY <1>1, <1>2, <1>4, FinishFinishes DEF FinishByHandle, Panic
<1>5. CASE CommandRejected(r) \/ AuthenticateStatusReceived(r) \/ IdleRejected(r)
  BY <1>4, <1>5
     DEF CommandRejected, EventCommandRejected, LiteralRefused, IdleRejected,
         EventIdleRejected, IdleRefused, AuthenticateStatusReceived,
         EventAuthenticateStatusReceived, AuthenticateEnded, Ends
<1>6. CASE TaggedReceived(r)
  BY <1>1, <1>3, <1>6, FinishFinishes
     DEF TaggedReceived, remove_by_tag, remove_by_handle
<1>7. CASE DataReceived(r) \/ ContinuationRequestReceived(r) \/ StatusReceived(r)
  BY <1>2, <1>7
     DEF DataReceived, ContinuationRequestReceived, StatusReceived, Route, Return
<1>8. ASSUME NEW handle \in Command, AuthenticateContinuationRequestReceived(handle, r)
      PROVE  UNCHANGED serviceState
  BY <1>2, <1>8 DEF AuthenticateContinuationRequestReceived, Panic, Return
<1>9. CASE \/ GreetingReceived(r) \/ MalformedMessage(r) \/ IdleAccepted(r)
           \/ LiteralContinue(r) /\ Return("continue")
  BY <1>3, <1>9 DEF GreetingReceived, MalformedMessage, IdleAccepted
<1> QED
  BY <1>5, <1>6, <1>7, <1>8, <1>9 DEF ReceiveEvent

\* A report starts a task or changes nothing.
LEMMA SendServes ==
    ASSUME SInv, Alive, NEW c \in Command, SendEvent(c)
    PROVE  Service!Start \/ UNCHANGED serviceState
<1>1. CASE IdleDoneSent(c)
  BY <1>1, Unseen DEF IdleDoneSent, EventIdleDoneSent, Report, serverVars, Return
<1>2. CASE CommandSent(c) \/ AuthenticateStarted(c) \/ IdleCommandSent(c)
  BY <1>2, StartStarts
     DEF CommandSent, AuthenticateStarted, IdleCommandSent, EventCommandSent, serverVars,
         EventAuthenticateStarted, EventIdleCommandSent, Report, BeingSent
<1> QED
  BY <1>1, <1>2 DEF SendEvent

\* Writing changes nothing: the server has only begun, or goes on.
LEMMA WriteServes ==
    ASSUME SInv, WriteOutput
    PROVE  UNCHANGED serviceState
<1>1. /\ NextTypeOK /\ Write /\ UNCHANGED <<waiting, active, output>>
      /\ server \in [Command -> ServerPhase]
  BY DEF WriteOutput, schedVars, SInv, IInv, TypeOK, NextTypeOK
<1>2. CASE WriteCommand
  <2>1. unsent # <<>> /\ unsent \in Seq(Command)
    BY <1>1, <1>2 DEF WriteCommand, NextTypeOK
  <2>2. Has(unsent, Head(unsent)) /\ Head(unsent) \in Command
    BY <2>1, HeadAndTail DEF Has
  <2>3. server[Head(unsent)] = "unknown"
    BY <2>2 DEF SInv, VInv, Sent, UnwrittenIsUnknown, Unwritten
  <2>4. FirstServerPhase(kind[Head(unsent)]) \notin Final
    BY <1>1, <1>2, WriteCommandPhases DEF SInv, VInv, Sent, UnsentInOrder, Final
  <2> QED
    BY <1>1, <1>2, <2>2, <2>3, <2>4, Unseen DEF WriteCommand, Final
<1>3. CASE WriteRest \/ WriteAuthenticateData \/ WriteDone
  <2>1. \A d \in Command : server'[d] = server[d]
                             \/ (server[d] \notin Final /\ server'[d] \notin Final)
    BY <1>1, <1>3 DEF WriteRest, WriteAuthenticateData, WriteDone, Final
  <2> QED
    BY <1>1, <2>1, Unseen
<1> QED
  BY <1>1, <1>2, <1>3 DEF Write

\* The server decides or changes nothing.
LEMMA ServerServes ==
    ASSUME SInv, ServerStep
    PROVE  \/ \E c \in Command : \E v \in Service!Verdict : Service!Decide(c, v)
           \/ UNCHANGED serviceState
<1>1. /\ NextTypeOK /\ Server /\ UNCHANGED <<waiting, active, output>>
      /\ server \in [Command -> ServerPhase] /\ issued \in 0..MaxCommands
  BY DEF ServerStep, schedVars, SInv, IInv, TypeOK, NextTypeOK
<1>2. ASSUME NEW c \in 1..issued, NEW s \in {"OK", "NO", "BAD"}, NEW code, Complete(c, s, code)
      PROVE  Service!Decide(c, s) /\ c \in Command
  <2>1. c \in Command
    BY <1>1, MaxCommandsAssumption DEF Command
  <2>2. UnderWay(c) /\ server' = [server EXCEPT ![c] = s]
    BY <1>2 DEF Complete, Verdict, UnderWay, Final
  <2>3. c \in Running \/ (waiting # <<>> /\ Head(waiting) = c)
    BY <2>1, <2>2, RunningIsActive DEF SInv, UnderWayIsStarted
  <2>4. Decision[c] = "none" /\ Decision' = [Decision EXCEPT ![c] = s]
    BY <1>1, <2>1, <2>2 DEF Decision, Answered, UnderWay, Final
  <2>5. UNCHANGED <<waiting, Running, Result>>
    BY <1>1 DEF Running, Result
  <2> QED
    BY <2>1, <2>3, <2>4, <2>5 DEF Service!Decide, Decision, Running, Result
<1>3. ASSUME NEW c \in 1..issued, NEW d \in Command,
             \/ GoAhead(c) \/ AcceptIdle(c) \/ Challenge(c)
             \/ \E a \in Wanted(kind[c]) : Provide(c, a)
      PROVE  server'[d] = server[d] \/ (server[d] \notin Final /\ server'[d] \notin Final)
  BY <1>1, <1>3 DEF GoAhead, AcceptIdle, Invite, Challenge, Provide, Final
<1>4. ASSUME NEW v \in Volunteered, Volunteer(v) PROVE server' = server
  BY <1>4 DEF Volunteer
<1>5. CASE \E c \in 1..issued : \E s \in {"OK", "NO", "BAD"} : \E code : Complete(c, s, code)
  BY <1>2, <1>5 DEF Service!Verdict
<1>6. CASE \A d \in Command : server'[d] = server[d]
                                \/ (server[d] \notin Final /\ server'[d] \notin Final)
  BY <1>1, <1>6, Unseen
<1> QED
  BY <1>1, <1>3, <1>4, <1>5, <1>6 DEF Server, Answer

\* Every step is one of the service's or changes nothing of it.
LEMMA NextServes ==
    ASSUME SInv, [Next]_vars
    PROVE  Service!Next \/ UNCHANGED serviceState
<1>1. CASE Enqueue
  BY <1>1, EnqueueSubmits DEF Service!Next
<1>2. CASE progress
  BY <1>2, SendServes, ReceiveServes DEF progress, Service!Next
<1>3. CASE WriteOutput
  BY <1>3, WriteServes
<1>4. CASE EndIdle \/ UNCHANGED vars
  BY <1>4, Unseen DEF EndIdle, schedVars, serverVars, vars
<1>5. CASE ServerStep
  BY <1>5, ServerServes DEF Service!Next
<1> QED
  BY <1>1, <1>2, <1>3, <1>4, <1>5 DEF Next, Rest

LEMMA InitServes == Init => SInv /\ Service!Init
<1> SUFFICES ASSUME Init PROVE SInv /\ Service!Init
  OBVIOUS
<1>1. IInv /\ VInv
  BY InitIInv, InitVerdicts
<1>2. \A c \in Command : server[c] = "unknown" /\ output[c] = NoOutput
  BY DEF Init, NextInit, SchedInit
<1>3. UnderWayIsStarted
  BY <1>2 DEF UnderWayIsStarted, UnderWay
<1>4. Service!Init
  BY <1>2 DEF Service!Init, Init, SchedInit, Answered, NoOutput
<1> QED
  BY <1>1, <1>3, <1>4 DEF SInv

\* The scheduler implements the service: whatever it does with its two maps and
\* with the responses that trickle down them (mod.rs:100-280), a program sees tasks that
\* leave the queue in order and finish once, with the verdict on their own
\* command.
THEOREM ImplementsService == Spec => Service!Spec
<1>1. Init => SInv /\ Service!Init
  BY InitServes
<1>2. SInv /\ [Next]_vars => SInv'
  BY NextStarted
<1>3. SInv /\ [Next]_vars => [Service!Next]_(Service!serviceVars)
  BY NextServes DEF Service!serviceVars, serviceState, Running, Decision, Result
<1> QED
  BY <1>1, <1>2, <1>3, PTL DEF Spec, Service!Spec

-----------------------------------------------------------------------------
(* The invariant of the answers *)

\* An untagged response that answers the command whose number it bears.
AnswerTypes == {"data", "untagged", "bye"}
IsAnswer(r) == r.type \in AnswerTypes /\ r.id # 0

\* What a command was given: numbered, its own, and wanted by its task.
GivenIsWanted ==
    \A c \in Command : \A n \in DOMAIN given[c] :
        /\ given[c][n].n = n /\ given[c][n].id = c /\ given[c][n].type \in AnswerTypes
        /\ Consumes(kind[c], given[c][n])
GivenOnceServed ==
    /\ \A c \in Command : server[c] \in {"unknown", "partial", "invited"} => given[c] = <<>>
    /\ current.phase = "literal" => given[current.cmd] = <<>>

\* It is on the wire in order, before the verdict, which is numbered after it.
WireIsGiven ==
    \A i \in DOMAIN wire : IsAnswer(wire[i]) =>
        /\ wire[i].id \in Command /\ wire[i].n \in DOMAIN given[wire[i].id]
        /\ wire[i] = given[wire[i].id][wire[i].n]
        /\ output[wire[i].id] = NoOutput
        /\ \A j \in DOMAIN wire :
              IsAnswer(wire[j]) /\ wire[j].id = wire[i].id /\ i < j => wire[i].n < wire[j].n
VerdictIsLast ==
    \A i \in DOMAIN wire : Tagged(i) =>
        /\ wire[i].n = Len(given[wire[i].id]) + 1
        /\ \A j \in DOMAIN wire : IsAnswer(wire[j]) /\ wire[j].id = wire[i].id => j < i

\* What its task consumed of it, in order, is what is not on the wire any more.
ConsumedIsGiven ==
    \A c \in Command :
        /\ \A i \in DOMAIN consumed[c] : consumed[c][i].id \in {0, c}
        /\ \A i \in OwnAnswers(c) :
              /\ consumed[c][i].n \in DOMAIN given[c]
              /\ consumed[c][i] = given[c][consumed[c][i].n]
              /\ \A j \in OwnAnswers(c) : i < j => consumed[c][i].n < consumed[c][j].n
              /\ \A j \in DOMAIN wire : IsAnswer(wire[j]) /\ wire[j].id = c =>
                    consumed[c][i].n < wire[j].n
GivenIsThere ==
    \A c \in Command : \A n \in DOMAIN given[c] :
        \/ \E i \in OwnAnswers(c) : consumed[c][i].n = n
        \/ \E i \in DOMAIN wire : IsAnswer(wire[i]) /\ wire[i].id = c /\ wire[i].n = n

\* Before the answers to a command come the verdicts on all earlier ones.
Met(d, i) == output[d] # NoOutput \/ \E j \in DOMAIN wire : j < i /\ Tagged(j) /\ wire[j].id = d
VerdictsComeFirst ==
    Alive =>
      /\ \A c \in Command : Answered(c) => Met(c, Len(wire) + 1)
      /\ \A i \in DOMAIN wire : IsAnswer(wire[i]) =>
            \A d \in Command : d < wire[i].id => Met(d, i)

AInv ==
    /\ GivenIsWanted /\ GivenOnceServed
    /\ WireIsGiven /\ VerdictIsLast
    /\ ConsumedIsGiven /\ GivenIsThere
    /\ VerdictsComeFirst

\* At first nothing was given.
LEMMA InitAnswers == Init => AInv
<1> SUFFICES ASSUME Init PROVE AInv
  OBVIOUS
<1> USE DEF Init, NextInit, SchedInit
<1>1. \A i \in DOMAIN wire : ~IsAnswer(wire[i]) /\ ~Tagged(i)
  <2>1. CASE wire = <<>>
    BY <2>1
  <2>2. CASE wire = <<Greeting>>
    BY <2>2 DEF Tagged, IsAnswer, AnswerTypes, Greeting, Response
  <2> QED
    BY <2>1, <2>2
<1>2. GivenIsWanted /\ GivenOnceServed /\ GivenIsThere
  BY DEF GivenIsWanted, GivenOnceServed, GivenIsThere, NoCommand
<1>3. WireIsGiven /\ VerdictIsLast
  BY <1>1 DEF WireIsGiven, VerdictIsLast
<1>4. ConsumedIsGiven
  BY DEF ConsumedIsGiven, OwnAnswers
<1>5. VerdictsComeFirst
  BY <1>1 DEF VerdictsComeFirst, Answered
<1> QED
  BY <1>2, <1>3, <1>4, <1>5 DEF AInv

\* Enqueueing, writing, reporting: nothing is given, decided, received or finished.
LEMMA QuietAnswers ==
    ASSUME AInv, UNCHANGED <<given, wire, consumed, output>>,
           \A c \in Command : kind'[c] = kind[c] \/ given[c] = <<>>,
           \A c \in Command : server'[c] = server[c]
                                \/ /\ ~Answered(c) /\ ~Answered(c)'
                                   /\ \/ server'[c] \notin {"unknown", "partial", "invited"}
                                      \/ server[c] \in {"unknown", "partial", "invited"},
           current'.phase = "literal" => given[current'.cmd] = <<>>,
           Alive' => Alive
    PROVE  AInv'
<1>1. GivenIsWanted' /\ GivenOnceServed'
  BY DEF AInv, GivenIsWanted, GivenOnceServed
<1>2. WireIsGiven' /\ VerdictIsLast'
  BY DEF AInv, WireIsGiven, VerdictIsLast, Tagged
<1>3. ConsumedIsGiven' /\ GivenIsThere'
  BY DEF AInv, ConsumedIsGiven, GivenIsThere, OwnAnswers
<1>4. VerdictsComeFirst'
  BY DEF AInv, VerdictsComeFirst, Met, Tagged, Answered
<1> QED
  BY <1>1, <1>2, <1>3, <1>4 DEF AInv

-----------------------------------------------------------------------------
(* What the server does to it *)

\* What is sent comes behind all that is under way.
LEMMA WireGrows ==
    ASSUME wire \in Seq(Responses), NEW r \in Responses, wire' = Append(wire, r)
    PROVE  /\ wire' \in Seq(Responses) /\ Len(wire') = Len(wire) + 1
           /\ Len(wire) \in Nat /\ DOMAIN wire = 1..Len(wire)
           /\ Len(wire) + 1 \in DOMAIN wire' /\ wire'[Len(wire) + 1] = r
           /\ \A i \in DOMAIN wire : i \in DOMAIN wire' /\ i \in Nat /\ i < Len(wire) + 1
                                     /\ wire'[i] = wire[i]
           /\ \A i \in DOMAIN wire' : i \in Nat /\ (i \in DOMAIN wire \/ i = Len(wire) + 1)
OBVIOUS

\* What came before something still does.
LEMMA MetStays ==
    ASSUME wire \in Seq(Responses), UNCHANGED output,
           wire' = wire \/ \E r \in Responses : wire' = Append(wire, r)
    PROVE  /\ \A d, i : Met(d, i) => Met(d, i)'
           /\ \A d : Met(d, Len(wire) + 1) => Met(d, Len(wire) + 1)'
<1>1. CASE wire' = wire
  <2>1. \A i : Tagged(i)' = Tagged(i)
    BY <1>1 DEF Tagged
  <2> QED
    BY <1>1, <2>1 DEF Met
<1>2. CASE \E r \in Responses : wire' = Append(wire, r)
  <2>1. PICK r \in Responses : wire' = Append(wire, r)
    BY <1>2
  <2>2. /\ Len(wire') = Len(wire) + 1 /\ Len(wire) \in Nat
        /\ \A i \in DOMAIN wire : i \in DOMAIN wire' /\ i \in Nat /\ i < Len(wire) + 1
                                  /\ wire'[i] = wire[i]
    BY <2>1, WireGrows
  <2>3. ASSUME NEW d, NEW i, Met(d, i) PROVE Met(d, i)'
    <3>1. CASE output[d] # NoOutput
      BY <3>1 DEF Met
    <3>2. CASE \E j \in DOMAIN wire : j < i /\ Tagged(j) /\ wire[j].id = d
      BY <2>2, <3>2 DEF Met, Tagged
    <3> QED
      BY <2>3, <3>1, <3>2 DEF Met
  <2>4. ASSUME NEW d, Met(d, Len(wire) + 1) PROVE Met(d, Len(wire) + 1)'
    <3>1. CASE output[d] # NoOutput
      BY <3>1 DEF Met
    <3>2. CASE \E j \in DOMAIN wire : j < Len(wire) + 1 /\ Tagged(j) /\ wire[j].id = d
      <4>1. PICK j \in DOMAIN wire : j < Len(wire) + 1 /\ Tagged(j) /\ wire[j].id = d
        BY <3>2
      <4>2. j \in DOMAIN wire' /\ j < Len(wire') + 1 /\ wire'[j] = wire[j]
        BY <2>2, <4>1
      <4> QED
        BY <4>1, <4>2 DEF Met, Tagged
    <3> QED
      BY <2>4, <3>1, <3>2 DEF Met
  <2> QED
    BY <2>3, <2>4
<1> QED
  BY <1>1, <1>2

\* It says something that neither answers nor decides a command.
LEMMA SayAnswers ==
    ASSUME NextTypeOK, AInv, NEW r \in Responses, r.type # "tagged", ~IsAnswer(r),
           wire' = wire \/ wire' = Append(wire, r),
           UNCHANGED <<kind, current, given, consumed, output, event>>,
           \A c \in Command : server'[c] = server[c]
                                \/ /\ ~Answered(c) /\ ~Answered(c)'
                                   /\ \/ server'[c] \notin {"unknown", "partial", "invited"}
                                      \/ server[c] \in {"unknown", "partial", "invited"}
    PROVE  AInv'
<1>1. CASE wire' = wire
  BY <1>1, QuietAnswers DEF Alive, AInv, GivenOnceServed
<1>2. CASE wire' = Append(wire, r)
  <2> DEFINE k == Len(wire) + 1
  <2>1. /\ k \in DOMAIN wire' /\ wire'[k] = r /\ wire \in Seq(Responses)
        /\ \A i \in DOMAIN wire : i \in DOMAIN wire' /\ i \in Nat /\ i < k
                                  /\ wire'[i] = wire[i]
        /\ \A i \in DOMAIN wire' : i \in Nat /\ (i \in DOMAIN wire \/ i = k)
    BY <1>2, WireGrows DEF NextTypeOK
  <2>2. \A i \in DOMAIN wire' : IsAnswer(wire'[i]) \/ wire'[i].type = "tagged"
                                  => i \in DOMAIN wire /\ wire'[i] = wire[i]
    BY <2>1
  <2> HIDE DEF k
  <2>3. GivenIsWanted' /\ GivenOnceServed'
    BY DEF AInv, GivenIsWanted, GivenOnceServed
  <2>4. WireIsGiven' /\ VerdictIsLast'
    BY <2>1, <2>2 DEF AInv, WireIsGiven, VerdictIsLast, Tagged
  <2>5. ConsumedIsGiven' /\ GivenIsThere'
    BY <2>1, <2>2 DEF AInv, ConsumedIsGiven, GivenIsThere, OwnAnswers
  <2>6. VerdictsComeFirst'
    BY <1>2, <2>1, <2>2, MetStays DEF AInv, VerdictsComeFirst, Answered, Alive
  <2> QED
    BY <2>3, <2>4, <2>5, <2>6 DEF AInv
<1> QED
  BY <1>1, <1>2

\* It answers a command: all earlier ones are decided, this one is not.
LEMMA ProvideAnswers ==
    ASSUME NextTypeOK, VInv, AInv, ~Reorders, NEW c \in Command, kind[c] \in TaskKinds,
           NEW a, Provide(c, a), NextTypeOK', UNCHANGED <<consumed, output, event>>
    PROVE  AInv'
<1> DEFINE n == Len(given[c]) + 1
           r == Response(a[1], a[2], a[3], c, n)
           k == Len(wire) + 1
<1>1. /\ wire' = Append(wire, r) /\ given' = [given EXCEPT ![c] = Append(@, r)]
      /\ UNCHANGED <<kind, current, server>> /\ server[c] \in {"working", "auth"}
      /\ a \in Wanted(kind[c]) /\ wire \in Seq(Responses) /\ wire' \in Seq(Responses)
      /\ given \in [Command -> Seq(Responses)]
  BY DEF Provide, NextTypeOK
<1>2. r \in Responses
  BY <1>1, SaidIsResponse
<1>3. /\ r.n = n /\ r.id = c /\ r.type = a[1] /\ r.status = a[2] /\ r.what = a[3]
  BY DEF Response
<1>4. r.type \in AnswerTypes /\ Consumes(kind[c], r)
  <2>1. CASE a \in {"data"} \X {"-"} \X Task[kind[c]].data
    BY <1>3, <2>1 DEF Consumes, AnswerTypes
  <2>2. CASE a \in {<<"untagged", u[1], u[2]>> : u \in Task[kind[c]].untagged}
    <3>1. r.type = "untagged" /\ <<r.status, r.what>> \in Task[kind[c]].untagged
      <4>1. PICK u \in Task[kind[c]].untagged : a = <<"untagged", u[1], u[2]>>
        BY <2>2
      <4>2. u \in {"OK", "NO", "BAD"} \X Codes
        BY <4>1, TasksTyped DEF TaskType
      <4> QED
        BY <1>3, <4>1, <4>2
    <3> QED
      BY <3>1 DEF Consumes, AnswerTypes
  <2>3. CASE Task[kind[c]].bye /\ a = <<"bye", "-", "-">>
    BY <1>3, <2>3 DEF Consumes, AnswerTypes
  <2> QED
    BY <1>1, <2>1, <2>2, <2>3 DEF Wanted
<1>5. IsAnswer(r) /\ r.type # "tagged"
  BY <1>3, <1>4, MaxCommandsAssumption DEF IsAnswer, AnswerTypes, Command
<1>6. /\ given'[c] = Append(given[c], r) /\ given[c] \in Seq(Responses)
      /\ \A d \in Command : d # c => given'[d] = given[d]
  BY <1>1
<1>7. /\ n \in Nat /\ DOMAIN given[c] = 1..(n - 1) /\ DOMAIN given'[c] = 1..n
      /\ given'[c][n] = r /\ Len(given[c]) = n - 1
      /\ \A m \in 1..(n - 1) : given'[c][m] = given[c][m]
  BY <1>2, <1>6
<1>8. /\ k \in DOMAIN wire' /\ wire'[k] = r
      /\ \A i \in DOMAIN wire : i \in DOMAIN wire' /\ i \in Nat /\ i < k
                                /\ wire'[i] = wire[i]
      /\ \A i \in DOMAIN wire' : i \in Nat /\ (i \in DOMAIN wire \/ i = k)
  BY <1>1, <1>2, WireGrows
<1>9. ~Answered(c) /\ output[c] = NoOutput
  BY <1>1 DEF Answered, VInv, Decided, OutputIsAnswer
<1>10. \A i \in DOMAIN wire : Tagged(i) => wire[i].id # c /\ wire[i].id \in Command
  <2> SUFFICES ASSUME NEW i \in DOMAIN wire, Tagged(i)
               PROVE  wire[i].id # c /\ wire[i].id \in Command
    OBVIOUS
  <2>1. wire[i] \in Responses
    BY <1>1
  <2>2. wire[i].status \in Final /\ wire[i].id \in Command
    BY <2>1, MaxCommandsAssumption DEF Responses, Final, Tagged, Command
  <2> QED
    BY <1>1, <2>2 DEF VInv, Decided, VerdictsAreOnce, Final
<1>11. current.phase = "literal" => current.cmd # c /\ current.cmd \in Command
  BY <1>1 DEF VInv, Held, LiteralIsOpen, HeldIsWritten
<1>12. \A d \in Command : d < c => Answered(d)
  BY DEF Provide, Turn
<1> HIDE DEF r, n, k
<1>13. GivenIsWanted'
  BY <1>1, <1>3, <1>4, <1>6, <1>7 DEF AInv, GivenIsWanted
<1>14. GivenOnceServed'
  BY <1>1, <1>6, <1>11 DEF AInv, GivenOnceServed
<1>15. WireIsGiven'
  <2>1. \A i \in DOMAIN wire : IsAnswer(wire[i]) =>
           /\ wire[i].id \in Command /\ wire[i].n \in DOMAIN given'[wire[i].id]
           /\ wire[i].n \in DOMAIN given[wire[i].id]
           /\ wire[i] = given'[wire[i].id][wire[i].n]
    <3> SUFFICES ASSUME NEW i \in DOMAIN wire, IsAnswer(wire[i])
                 PROVE  /\ wire[i].id \in Command /\ wire[i].n \in DOMAIN given'[wire[i].id]
                        /\ wire[i].n \in DOMAIN given[wire[i].id]
                        /\ wire[i] = given'[wire[i].id][wire[i].n]
      OBVIOUS
    <3>1. /\ wire[i].id \in Command /\ wire[i].n \in DOMAIN given[wire[i].id]
          /\ wire[i] = given[wire[i].id][wire[i].n]
      BY DEF AInv, WireIsGiven
    <3>2. CASE wire[i].id = c
      <4>1. wire[i].n \in 1..(n - 1) /\ wire[i] = given[c][wire[i].n]
        BY <1>7, <3>1, <3>2
      <4>2. wire[i].n \in 1..n /\ given'[c][wire[i].n] = given[c][wire[i].n]
        BY <1>7, <4>1
      <4> QED
        BY <1>7, <3>1, <3>2, <4>1, <4>2
    <3>3. CASE wire[i].id # c
      BY <1>6, <3>1, <3>3
    <3> QED
      BY <3>2, <3>3
  <2>2. \A i \in DOMAIN wire : IsAnswer(wire[i]) /\ wire[i].id = c => wire[i].n < n
    BY <1>7, <2>1
  <2> QED
    BY <1>3, <1>5, <1>7, <1>8, <1>9, <2>1, <2>2 DEF AInv, WireIsGiven
<1>16. VerdictIsLast'
  <2> SUFFICES ASSUME NEW i \in DOMAIN wire', wire'[i].type = "tagged"
               PROVE  /\ wire'[i].n = Len(given'[wire'[i].id]) + 1
                      /\ \A j \in DOMAIN wire' :
                            IsAnswer(wire'[j]) /\ wire'[j].id = wire'[i].id => j < i
    BY DEF VerdictIsLast, Tagged
  <2>1. i \in DOMAIN wire /\ wire'[i] = wire[i] /\ Tagged(i)
    BY <1>5, <1>8 DEF Tagged
  <2>2. wire[i].id # c /\ given'[wire[i].id] = given[wire[i].id]
    BY <1>6, <1>10, <2>1
  <2>3. /\ wire[i].n = Len(given[wire[i].id]) + 1
        /\ \A j \in DOMAIN wire : IsAnswer(wire[j]) /\ wire[j].id = wire[i].id => j < i
    BY <2>1 DEF AInv, VerdictIsLast
  <2> QED
    BY <1>3, <1>8, <2>1, <2>2, <2>3
<1>17. ConsumedIsGiven'
  <2>1. \A d \in Command : \A i \in OwnAnswers(d) :
           /\ consumed[d][i].n \in DOMAIN given'[d]
           /\ consumed[d][i] = given'[d][consumed[d][i].n]
           /\ d = c => consumed[d][i].n < n
    <3> SUFFICES ASSUME NEW d \in Command, NEW i \in OwnAnswers(d)
                 PROVE  /\ consumed[d][i].n \in DOMAIN given'[d]
                        /\ consumed[d][i] = given'[d][consumed[d][i].n]
                        /\ d = c => consumed[d][i].n < n
      OBVIOUS
    <3>1. /\ consumed[d][i].n \in DOMAIN given[d]
          /\ consumed[d][i] = given[d][consumed[d][i].n]
      BY DEF AInv, ConsumedIsGiven
    <3>2. CASE d = c
      <4>1. PICK m : m = consumed[c][i].n
        OBVIOUS
      <4>2. m \in 1..(n - 1) /\ consumed[c][i] = given[c][m]
        BY <1>7, <3>1, <3>2, <4>1
      <4>3. m \in 1..n /\ given'[c][m] = given[c][m] /\ m < n
        BY <1>7, <4>2
      <4> QED
        BY <1>7, <3>2, <4>1, <4>2, <4>3
    <3>3. CASE d # c
      BY <1>6, <3>1, <3>3
    <3> QED
      BY <3>2, <3>3
  <2> QED
    BY <1>3, <1>5, <1>8, <2>1 DEF AInv, ConsumedIsGiven, OwnAnswers
<1>18. GivenIsThere'
  <2> SUFFICES ASSUME NEW d \in Command, NEW m \in DOMAIN given'[d]
               PROVE  \/ \E i \in OwnAnswers(d) : consumed[d][i].n = m
                      \/ \E i \in DOMAIN wire' :
                            IsAnswer(wire'[i]) /\ wire'[i].id = d /\ wire'[i].n = m
    BY DEF GivenIsThere, OwnAnswers
  <2>1. CASE d = c /\ m = n
    BY <1>3, <1>5, <1>8, <2>1
  <2>2. CASE ~(d = c /\ m = n)
    <3>1. m \in DOMAIN given[d]
      BY <1>6, <1>7, <2>2
    <3> QED
      BY <1>8, <3>1 DEF AInv, GivenIsThere
  <2> QED
    BY <2>1, <2>2
<1>19. VerdictsComeFirst'
  <2> SUFFICES ASSUME Alive PROVE VerdictsComeFirst'
    BY DEF VerdictsComeFirst, Alive
  <2>0. PICK m \in Nat : m = k
    BY <1>8
  <2>1. \A d \in Command : Answered(d) => Met(d, m)' /\ Met(d, Len(wire) + 1)'
    <3>1. \A d \in Command : Answered(d) => Met(d, m) /\ Met(d, Len(wire) + 1)
      BY <2>0 DEF AInv, VerdictsComeFirst, k
    <3> QED
      BY <1>1, <1>2, <3>1, MetStays
  <2>2. \A d \in Command : Answered(d)' = Answered(d)
    BY <1>1 DEF Answered
  <2>3. \A d \in Command : d < c => Met(d, m)'
    BY <1>12, <2>1
  <2>4. \A i \in DOMAIN wire : IsAnswer(wire[i]) =>
            \A d \in Command : d < wire[i].id => Met(d, i)'
    BY <1>1, <1>2, MetStays DEF AInv, VerdictsComeFirst
  <2> QED
    BY <1>3, <1>8, <2>0, <2>1, <2>2, <2>3, <2>4 DEF VerdictsComeFirst
<1> QED
  BY <1>13, <1>14, <1>15, <1>16, <1>17, <1>18, <1>19 DEF AInv

\* It decides a command.
LEMMA CompleteAnswers ==
    ASSUME NextTypeOK, VInv, AInv, NEW c \in Command, NEW s \in Final, NEW code,
           Complete(c, s, code), NextTypeOK', UNCHANGED <<consumed, output, event>>
    PROVE  AInv'
<1> DEFINE r == Response("tagged", s, code, c, Len(given[c]) + 1)
           k == Len(wire) + 1
<1>1. /\ wire' = Append(wire, r) /\ UNCHANGED <<kind, current, given>>
      /\ server' = [server EXCEPT ![c] = s] /\ server \in [Command -> ServerPhase]
      /\ wire \in Seq(Responses) /\ wire' \in Seq(Responses)
  BY DEF Complete, Say, NextTypeOK
<1>2. r \in Responses
  BY <1>1, SaidIsResponse
<1>3. r.n = Len(given[c]) + 1 /\ r.id = c /\ r.type = "tagged" /\ ~IsAnswer(r)
  BY DEF Response, IsAnswer, AnswerTypes
<1>4. /\ k \in DOMAIN wire' /\ wire'[k] = r /\ Len(wire') = k /\ k \in Nat
      /\ \A i \in DOMAIN wire : i \in DOMAIN wire' /\ i \in Nat /\ i < k
                                /\ wire'[i] = wire[i]
      /\ \A i \in DOMAIN wire' : i \in Nat /\ (i \in DOMAIN wire \/ i = k)
  BY <1>1, <1>2, WireGrows
<1>5. server'[c] = s /\ \A d \in Command : d # c => server'[d] = server[d]
  BY <1>1
<1> HIDE DEF r, k
<1>6. GivenIsWanted' /\ GivenOnceServed'
  BY <1>1, <1>5 DEF AInv, GivenIsWanted, GivenOnceServed, Final
<1>7. WireIsGiven' /\ VerdictIsLast'
  BY <1>1, <1>3, <1>4 DEF AInv, WireIsGiven, VerdictIsLast, Tagged
<1>8. ConsumedIsGiven' /\ GivenIsThere'
  BY <1>1, <1>3, <1>4 DEF AInv, ConsumedIsGiven, GivenIsThere, OwnAnswers
<1>9. VerdictsComeFirst'
  <2> SUFFICES ASSUME Alive PROVE VerdictsComeFirst'
    BY DEF VerdictsComeFirst, Alive
  <2>1. Met(c, Len(wire) + 1)'
    <3>1. k \in DOMAIN wire' /\ k < Len(wire') + 1 /\ wire'[k] = r
      BY <1>4
    <3> QED
      BY <1>3, <3>1 DEF Met, Tagged
  <2>2. \A d \in Command : d # c /\ Answered(d)' => Met(d, Len(wire) + 1)'
    BY <1>1, <1>2, <1>5, MetStays DEF AInv, VerdictsComeFirst, Answered
  <2>3. \A i \in DOMAIN wire : IsAnswer(wire[i]) =>
            \A d \in Command : d < wire[i].id => Met(d, i)'
    BY <1>1, <1>2, MetStays DEF AInv, VerdictsComeFirst
  <2> QED
    BY <1>3, <1>4, <2>1, <2>2, <2>3 DEF VerdictsComeFirst
<1> QED
  BY <1>6, <1>7, <1>8, <1>9 DEF AInv

\* A step of the server.
LEMMA ServerAnswers ==
    ASSUME NextTypeOK, VInv, AInv, ~Reorders, Server, UNCHANGED <<consumed, output, event>>
    PROVE  AInv'
<1>1. NextTypeOK' /\ wire \in Seq(Responses) /\ wire' \in Seq(Responses)
      /\ server \in [Command -> ServerPhase] /\ issued \in 0..MaxCommands
  BY ServerTyped DEF NextTypeOK
<1>2. \A c \in 1..issued : c \in Command
  BY <1>1, MaxCommandsAssumption DEF Command
<1>3. ASSUME NEW c \in Command, GoAhead(c) \/ AcceptIdle(c) \/ Challenge(c) PROVE AInv'
  <2> DEFINE r == Response("continuation", "-", "-", c, 0)
  <2>1. /\ wire' = Append(wire, r) /\ UNCHANGED <<kind, current, given>>
        /\ \E p \in {"invited", "idling", "challenged"} :
              /\ server' = [server EXCEPT ![c] = p]
              /\ p = "invited" => server[c] = "partial"
        /\ ~Answered(c)
    BY <1>3 DEF GoAhead, AcceptIdle, Challenge, Invite, Say, Answered
  <2>2. r \in Responses
    BY <1>1, <2>1, SaidIsResponse
  <2>3. r.type # "tagged" /\ ~IsAnswer(r)
    BY DEF Response, IsAnswer, AnswerTypes
  <2>4. \A d \in Command : server'[d] = server[d]
                             \/ /\ ~Answered(d) /\ ~Answered(d)'
                                /\ \/ server'[d] \notin {"unknown", "partial", "invited"}
                                   \/ server[d] \in {"unknown", "partial", "invited"}
    BY <1>1, <2>1 DEF Answered
  <2> HIDE DEF r
  <2> QED
    BY <2>1, <2>2, <2>3, <2>4, SayAnswers
<1>4. ASSUME NEW c \in 1..issued, NEW a, Provide(c, a) PROVE AInv'
  <2>1. c \in Command /\ kind[c] \in TaskKinds \cup {"none"} /\ kind[c] # "none"
    BY <1>2 DEF NextTypeOK
  <2> QED
    BY <1>1, <1>4, <2>1, ProvideAnswers
<1>5. ASSUME NEW c \in Command, NEW s \in {"OK", "NO", "BAD"}, NEW code, Complete(c, s, code)
      PROVE  AInv'
  BY <1>1, <1>5, CompleteAnswers DEF Final
<1>6. ASSUME NEW v \in Volunteered, Volunteer(v) PROVE AInv'
  <2> DEFINE r == Response(v[1], v[2], v[3], 0, 0)
  <2>1. /\ UNCHANGED <<kind, current, given, server>>
        /\ wire' = wire \/ wire' = Append(wire, r)
    BY <1>6 DEF Volunteer, Say
  <2>2. r.type # "tagged" /\ ~IsAnswer(r)
    BY VolunteeredAssumption DEF Response, IsAnswer
  <2>3. CASE wire' = wire
    <3>1. Greeting \in Responses /\ Greeting.type # "tagged" /\ ~IsAnswer(Greeting)
      BY MaxCommandsAssumption
         DEF Greeting, Response, Responses, Types, What, IsAnswer, AnswerTypes
    <3> QED
      BY <2>1, <2>3, <3>1, SayAnswers
  <2>4. CASE wire' = Append(wire, r)
    <3>1. r \in Responses
      BY <1>1, <2>4, SaidIsResponse
    <3> HIDE DEF r
    <3> QED
      BY <2>1, <2>2, <2>4, <3>1, SayAnswers
  <2> QED
    BY <2>1, <2>3, <2>4
<1> QED
  BY <1>2, <1>3, <1>4, <1>5, <1>6 DEF Server, Answer

-----------------------------------------------------------------------------
(* What is received *)

\* What is received leaves the wire, the rest moves up.
LEMMA WireShrinks ==
    ASSUME NextTypeOK, wire # <<>>, wire' = Tail(wire)
    PROVE  /\ 1 \in DOMAIN wire /\ wire[1] \in Responses
           /\ Len(wire) \in Nat /\ Len(wire') = Len(wire) - 1
           /\ \A i \in DOMAIN wire' : i \in Nat /\ i + 1 \in DOMAIN wire /\ wire'[i] = wire[i + 1]
           /\ \A j \in DOMAIN wire : j # 1 => \E i \in DOMAIN wire' : j = i + 1 /\ wire'[i] = wire[j]
           /\ \A i \in DOMAIN wire : i \in Nat /\ i >= 1
<1>1. /\ 1 \in DOMAIN wire /\ wire[1] \in Responses
      /\ wire \in Seq(Responses) /\ wire' \in Seq(Responses) /\ Len(wire') = Len(wire) - 1
      /\ \A i \in DOMAIN wire' : i \in Nat /\ i + 1 \in DOMAIN wire /\ wire'[i] = wire[i + 1]
  BY TailOfWire
<1>2. \A i \in DOMAIN wire : i \in Nat /\ i >= 1
  BY <1>1
<1>3. ASSUME NEW j \in DOMAIN wire, j # 1
      PROVE  \E i \in DOMAIN wire' : j = i + 1 /\ wire'[i] = wire[j]
  <2>1. j \in 2..Len(wire) /\ DOMAIN wire' = 1..(Len(wire) - 1) /\ Len(wire) \in Nat
    BY <1>1, <1>3
  <2>2. j - 1 \in DOMAIN wire' /\ j = (j - 1) + 1
    BY <2>1
  <2>3. wire'[j - 1] = wire[j]
    BY <1>1, <2>2
  <2> QED
    BY <2>2, <2>3
<1>4. Len(wire) \in Nat
  BY <1>1
<1> QED
  BY <1>1, <1>2, <1>3, <1>4

\* A verdict that was met stays met, if its task has finished when it is received.
LEMMA MetGoesOn ==
    ASSUME NextTypeOK, wire # <<>>, wire' = Tail(wire), NEW d \in Command,
           output[d] # NoOutput => output'[d] # NoOutput,
           wire[1].type = "tagged" /\ wire[1].id = d => output'[d] # NoOutput
    PROVE  /\ \A i \in Nat : Met(d, i + 1) => Met(d, i)'
           /\ Met(d, Len(wire) + 1) => Met(d, Len(wire) + 1)'
<1>1. ASSUME NEW i \in Nat, Met(d, i + 1) PROVE Met(d, i)'
  <2>1. CASE output'[d] # NoOutput
    BY <2>1 DEF Met
  <2>2. CASE output'[d] = NoOutput
    <3>1. PICK j \in DOMAIN wire : j < i + 1 /\ Tagged(j) /\ wire[j].id = d
      BY <1>1, <2>2 DEF Met
    <3>2. j # 1
      BY <2>2, <3>1 DEF Tagged
    <3>3. PICK l \in DOMAIN wire' : j = l + 1 /\ wire'[l] = wire[j]
      BY <3>2, WireShrinks
    <3>4. l < i
      BY <3>1, <3>3, WireShrinks
    <3> QED
      BY <3>1, <3>3, <3>4 DEF Met, Tagged
  <2> QED
    BY <2>1, <2>2
<1>2. Len(wire') \in Nat /\ Len(wire) = Len(wire') + 1
  <2>1. wire' \in Seq(Responses) /\ Len(wire') = Len(wire) - 1 /\ Len(wire) \in Nat
    BY TailOfWire, WireShrinks
  <2> QED
    BY <2>1
<1>3. PICK n : n = Len(wire') + 1
  OBVIOUS
<1>4. n \in Nat
  BY <1>2, <1>3
<1>5. Met(d, Len(wire) + 1) => Met(d, n)'
  BY <1>1, <1>2, <1>3, <1>4
<1> QED
  BY <1>1, <1>3, <1>5

\* What was given stays, when what is received answers nothing.
LEMMA GivenStaysThere ==
    ASSUME NextTypeOK, AInv, wire # <<>>, wire' = Tail(wire), ~IsAnswer(wire[1]),
           UNCHANGED <<given, consumed>>
    PROVE  GivenIsThere'
<1> SUFFICES ASSUME NEW d \in Command, NEW n \in DOMAIN given[d],
                    ~ \E i \in OwnAnswers(d) : consumed[d][i].n = n
             PROVE  \E i \in DOMAIN wire' :
                       IsAnswer(wire'[i]) /\ wire'[i].id = d /\ wire'[i].n = n
  BY DEF GivenIsThere, OwnAnswers
<1>1. PICK i \in DOMAIN wire : IsAnswer(wire[i]) /\ wire[i].id = d /\ wire[i].n = n
  BY DEF AInv, GivenIsThere
<1>2. PICK l \in DOMAIN wire' : wire'[l] = wire[i]
  BY <1>1, WireShrinks
<1> QED
  BY <1>1, <1>2

\* A response is received that answers nothing and decides nothing, or at which
\* the program ends.
LEMMA PassedAnswers ==
    ASSUME NextTypeOK, AInv, wire # <<>>, wire' = Tail(wire), ~IsAnswer(wire[1]),
           UNCHANGED <<kind, server, given, consumed, output>>,
           wire[1].type = "tagged" => ~Alive', Alive' => Alive,
           current'.phase = "literal" => current' = current
    PROVE  AInv'
<1>1. /\ 1 \in DOMAIN wire
      /\ \A i \in DOMAIN wire' : i \in Nat /\ i + 1 \in DOMAIN wire /\ wire'[i] = wire[i + 1]
      /\ \A j \in DOMAIN wire : j # 1 => \E i \in DOMAIN wire' : j = i + 1 /\ wire'[i] = wire[j]
      /\ \A i \in DOMAIN wire : i \in Nat /\ i >= 1
  BY WireShrinks
<1>2. GivenIsWanted' /\ GivenOnceServed'
  BY DEF AInv, GivenIsWanted, GivenOnceServed
<1>3. WireIsGiven' /\ VerdictIsLast'
  BY <1>1 DEF AInv, WireIsGiven, VerdictIsLast, Tagged
<1>4. ConsumedIsGiven'
  BY <1>1 DEF AInv, ConsumedIsGiven, OwnAnswers
<1>5. GivenIsThere'
  BY GivenStaysThere
<1>6. VerdictsComeFirst'
  <2> SUFFICES ASSUME Alive', wire[1].type # "tagged" PROVE VerdictsComeFirst'
    BY DEF VerdictsComeFirst
  <2>1. ASSUME NEW d \in Command
        PROVE  /\ \A i \in Nat : Met(d, i + 1) => Met(d, i)'
               /\ Met(d, Len(wire) + 1) => Met(d, Len(wire) + 1)'
    BY MetGoesOn
  <2> QED
    BY <1>1, <2>1 DEF AInv, VerdictsComeFirst, Answered
<1> QED
  BY <1>2, <1>3, <1>4, <1>5, <1>6 DEF AInv

\* A task consumes an answer to its own command, or what answers none.
LEMMA TakenAnswers ==
    ASSUME NextTypeOK, SchedTypeOK, AInv, wire # <<>>, wire' = Tail(wire),
           NEW c \in Command, consumed' = [consumed EXCEPT ![c] = Append(@, wire[1])],
           UNCHANGED <<kind, server, current, given, output>>, Alive' => Alive,
           wire[1].type \in AnswerTypes, wire[1].id \in {0, c}
    PROVE  AInv'
<1>1. /\ 1 \in DOMAIN wire /\ wire[1] \in Responses
      /\ \A i \in DOMAIN wire' : i \in Nat /\ i + 1 \in DOMAIN wire /\ wire'[i] = wire[i + 1]
      /\ \A j \in DOMAIN wire : j # 1 => \E i \in DOMAIN wire' : j = i + 1 /\ wire'[i] = wire[j]
      /\ \A i \in DOMAIN wire : i \in Nat /\ i >= 1
  BY WireShrinks
<1>2. PICK r : r = wire[1]
  OBVIOUS
<1>3. r.id = c <=> IsAnswer(r)
  BY <1>2, MaxCommandsAssumption DEF IsAnswer, Command
<1>4. consumed \in [Command -> Seq(Responses)] /\ r \in Responses
  BY <1>1, <1>2 DEF SchedTypeOK
<1>5. PICK k \in Nat : k = Len(consumed[c]) + 1
  BY <1>4
<1>6. /\ \A d \in Command : d # c => consumed'[d] = consumed[d]
      /\ k \in DOMAIN consumed'[c] /\ consumed'[c][k] = r
      /\ \A i \in DOMAIN consumed[c] :
            i \in Nat /\ i < k /\ i \in DOMAIN consumed'[c] /\ consumed'[c][i] = consumed[c][i]
      /\ \A i \in DOMAIN consumed'[c] : i = k \/ i \in DOMAIN consumed[c]
  BY <1>2, <1>4, <1>5
<1>7. /\ IsAnswer(r) => /\ r.n \in DOMAIN given[c] /\ r = given[c][r.n]
                        /\ \A j \in DOMAIN wire :
                              IsAnswer(wire[j]) /\ wire[j].id = c /\ 1 < j => r.n < wire[j].n
                        /\ \A i \in OwnAnswers(c) : consumed[c][i].n < r.n
  BY <1>1, <1>2, <1>3 DEF AInv, WireIsGiven, ConsumedIsGiven
<1>8. GivenIsWanted' /\ GivenOnceServed'
  BY DEF AInv, GivenIsWanted, GivenOnceServed
<1>9. WireIsGiven' /\ VerdictIsLast'
  BY <1>1 DEF AInv, WireIsGiven, VerdictIsLast, Tagged
<1>10. ConsumedIsGiven'
  <2>1. ASSUME NEW d \in Command, d # c
        PROVE  /\ \A i \in DOMAIN consumed'[d] : consumed'[d][i].id \in {0, d}
               /\ \A i \in OwnAnswers(d)' :
                     /\ consumed'[d][i].n \in DOMAIN given'[d]
                     /\ consumed'[d][i] = given'[d][consumed'[d][i].n]
                     /\ \A j \in OwnAnswers(d)' : i < j => consumed'[d][i].n < consumed'[d][j].n
                     /\ \A j \in DOMAIN wire' : IsAnswer(wire'[j]) /\ wire'[j].id = d =>
                           consumed'[d][i].n < wire'[j].n
    BY <1>1, <1>6, <2>1 DEF AInv, ConsumedIsGiven, OwnAnswers
  <2>2. \A i \in DOMAIN consumed'[c] : consumed'[c][i].id \in {0, c}
    BY <1>2, <1>6 DEF AInv, ConsumedIsGiven
  <2>3. \A i \in OwnAnswers(c)' : \/ i \in OwnAnswers(c) /\ consumed'[c][i] = consumed[c][i]
                                     /\ i < k
                                  \/ i = k /\ consumed'[c][i] = r /\ IsAnswer(r)
    BY <1>3, <1>6 DEF OwnAnswers
  <2>4. \A i \in OwnAnswers(c)' : /\ consumed'[c][i].n \in DOMAIN given[c]
                                  /\ consumed'[c][i] = given[c][consumed'[c][i].n]
    BY <1>7, <2>3 DEF AInv, ConsumedIsGiven
  <2>5. \A i, j \in OwnAnswers(c)' : i < j => consumed'[c][i].n < consumed'[c][j].n
    BY <1>5, <1>7, <2>3 DEF AInv, ConsumedIsGiven, OwnAnswers
  <2>6. \A i \in OwnAnswers(c)' : \A j \in DOMAIN wire' :
           IsAnswer(wire'[j]) /\ wire'[j].id = c => consumed'[c][i].n < wire'[j].n
    <3> SUFFICES ASSUME NEW i \in OwnAnswers(c)', NEW j \in DOMAIN wire',
                        IsAnswer(wire'[j]), wire'[j].id = c
                 PROVE  consumed'[c][i].n < wire'[j].n
      OBVIOUS
    <3>1. PICK l \in DOMAIN wire : l = j + 1 /\ wire[l] = wire'[j] /\ 1 < l
      BY <1>1
    <3>2. CASE i = k /\ consumed'[c][i] = r /\ IsAnswer(r)
      BY <1>7, <3>1, <3>2
    <3>3. CASE i \in OwnAnswers(c) /\ consumed'[c][i] = consumed[c][i]
      <4>1. IsAnswer(wire[l]) /\ wire[l].id = c
        BY <3>1
      <4>2. consumed[c][i].n < wire[l].n
        BY ONLY AInv, c \in Command, <3>3, <4>1, l \in DOMAIN wire DEF AInv, ConsumedIsGiven
      <4> QED
        BY <3>1, <3>3, <4>2
    <3> QED
      BY <2>3, <3>2, <3>3
  <2>7. \A i \in OwnAnswers(c)' :
           /\ consumed'[c][i].n \in DOMAIN given'[c]
           /\ consumed'[c][i] = given'[c][consumed'[c][i].n]
           /\ \A j \in OwnAnswers(c)' : i < j => consumed'[c][i].n < consumed'[c][j].n
           /\ \A j \in DOMAIN wire' : IsAnswer(wire'[j]) /\ wire'[j].id = c =>
                 consumed'[c][i].n < wire'[j].n
    <3>1. given' = given
      OBVIOUS
    <3> QED
      BY ONLY <3>1, <2>4, <2>5, <2>6
  <2> QED
    BY ONLY <2>1, <2>2, <2>7 DEF ConsumedIsGiven
<1>11. GivenIsThere'
  <2> SUFFICES ASSUME NEW d \in Command, NEW n \in DOMAIN given[d]
               PROVE  \/ \E i \in OwnAnswers(d)' : consumed'[d][i].n = n
                      \/ \E i \in DOMAIN wire' :
                            IsAnswer(wire'[i]) /\ wire'[i].id = d /\ wire'[i].n = n
    BY DEF GivenIsThere
  <2>1. CASE \E i \in OwnAnswers(d) : consumed[d][i].n = n
    BY <1>6, <2>1 DEF OwnAnswers
  <2>2. CASE \E i \in DOMAIN wire : IsAnswer(wire[i]) /\ wire[i].id = d /\ wire[i].n = n
    <3>1. PICK i \in DOMAIN wire : IsAnswer(wire[i]) /\ wire[i].id = d /\ wire[i].n = n
      BY <2>2
    <3>2. CASE i = 1
      <4>1. d = c /\ k \in OwnAnswers(c)' /\ consumed'[c][k].n = n
        BY <1>2, <1>3, <1>6, <3>1, <3>2 DEF OwnAnswers
      <4> QED
        BY <4>1
    <3>3. CASE i # 1
      BY <1>1, <3>1, <3>3
    <3> QED
      BY <3>2, <3>3
  <2> QED
    BY <2>1, <2>2 DEF AInv, GivenIsThere
<1>12. VerdictsComeFirst'
  <2> SUFFICES ASSUME Alive' PROVE VerdictsComeFirst'
    BY DEF VerdictsComeFirst
  <2>0. wire[1].type # "tagged"
    BY DEF AnswerTypes
  <2>1. ASSUME NEW d \in Command
        PROVE  /\ \A i \in Nat : Met(d, i + 1) => Met(d, i)'
               /\ Met(d, Len(wire) + 1) => Met(d, Len(wire) + 1)'
    BY <2>0, MetGoesOn
  <2> QED
    BY <1>1, <2>1 DEF AInv, VerdictsComeFirst, Answered
<1> QED
  BY <1>8, <1>9, <1>10, <1>11, <1>12 DEF AInv

\* A task finishes with the verdict: nothing is on the wire that answers it.
LEMMA FinishAnswers ==
    ASSUME NextTypeOK, SchedTypeOK, AInv, wire # <<>>, wire' = Tail(wire),
           NEW o, o # NoOutput, output' = [output EXCEPT ![wire[1].id] = o],
           UNCHANGED <<kind, server, given, consumed>>, Alive' => Alive,
           wire[1].type = "tagged", current' = current \/ current' = NoCommand
    PROVE  AInv'
<1>1. /\ 1 \in DOMAIN wire /\ wire[1] \in Responses
      /\ \A i \in DOMAIN wire' : i \in Nat /\ i + 1 \in DOMAIN wire /\ wire'[i] = wire[i + 1]
      /\ \A j \in DOMAIN wire : j # 1 => \E i \in DOMAIN wire' : j = i + 1 /\ wire'[i] = wire[j]
      /\ \A i \in DOMAIN wire : i \in Nat /\ i >= 1
  BY WireShrinks
<1>2. PICK c \in Command : c = wire[1].id
  BY <1>1, MaxCommandsAssumption DEF Responses, Command
<1>3. /\ output'[c] # NoOutput
      /\ \A d \in Command : d # c => output'[d] = output[d]
  BY <1>2 DEF SchedTypeOK
<1>4. \A j \in DOMAIN wire : IsAnswer(wire[j]) => wire[j].id # c
  BY <1>1, <1>2 DEF AInv, VerdictIsLast, Tagged
<1>5. ~IsAnswer(wire[1])
  BY DEF IsAnswer, AnswerTypes
<1>6. GivenIsWanted' /\ GivenOnceServed'
  BY DEF AInv, GivenIsWanted, GivenOnceServed, NoCommand
<1>7. WireIsGiven' /\ VerdictIsLast'
  BY <1>1, <1>3, <1>4 DEF AInv, WireIsGiven, VerdictIsLast, Tagged
<1>8. ConsumedIsGiven'
  BY <1>1 DEF AInv, ConsumedIsGiven, OwnAnswers
<1>9. GivenIsThere'
  BY <1>5, GivenStaysThere
<1>10. VerdictsComeFirst'
  <2> SUFFICES ASSUME Alive' PROVE VerdictsComeFirst'
    BY DEF VerdictsComeFirst
  <2>1. ASSUME NEW d \in Command
        PROVE  /\ \A i \in Nat : Met(d, i + 1) => Met(d, i)'
               /\ Met(d, Len(wire) + 1) => Met(d, Len(wire) + 1)'
    BY <1>2, <1>3, MetGoesOn
  <2> QED
    BY <1>1, <2>1 DEF AInv, VerdictsComeFirst, Answered
<1> QED
  BY <1>6, <1>7, <1>8, <1>9, <1>10 DEF AInv

\* What trickles down is consumed by a task that wants it.
LEMMA TakerConsumes ==
    ASSUME active \in Seq(Command), NEW r, trickle_down(active, r) # 0
    PROVE  Consumes(kind[trickle_down(active, r)], r)
<1> DEFINE S == Takers(active, r)
<1>1. S \in SUBSET Nat /\ S \subseteq DOMAIN active
  BY DEF Takers
<1>2. S # {} /\ trickle_down(active, r) = active[CHOOSE i \in S : \A j \in S : i <= j]
  BY DEF trickle_down
<1>3. \E i \in S : \A j \in S : i <= j
  BY <1>1, <1>2, LeastExists
<1>4. (CHOOSE i \in S : \A j \in S : i <= j) \in S
  BY <1>3
<1> QED
  BY <1>2, <1>4 DEF Takers

\* An answer finds its own task active, and no other one before it.
LEMMA AnswerFindsItsTask ==
    ASSUME IInv, VInv, AInv, Alive, CanReceive, IsAnswer(wire[1])
    PROVE  wire[1].id \in Command /\ trickle_down(active, wire[1]) = wire[1].id
<1>1. wire # <<>> /\ wire \in Seq(Responses) /\ NextTypeOK /\ active \in Seq(Command)
  BY DEF CanReceive, IInv, TypeOK, NextTypeOK, SchedTypeOK
<1>2. 1 \in DOMAIN wire /\ \A j \in DOMAIN wire : ~(j < 1)
  BY <1>1
<1>3. PICK r : r = wire[1]
  OBVIOUS
<1>4. PICK c \in Command : c = r.id
  BY <1>2, <1>3 DEF AInv, WireIsGiven
<1>5. /\ r.n \in DOMAIN given[c] /\ r = given[c][r.n] /\ output[c] = NoOutput
  BY <1>2, <1>3, <1>4 DEF AInv, WireIsGiven
<1>6. Consumes(kind[c], r) /\ given[c] # <<>>
  BY <1>5 DEF AInv, GivenIsWanted
<1>7. ~Unwritten(c)
  BY <1>6 DEF AInv, GivenOnceServed, VInv, Sent, UnwrittenIsUnknown
<1>8. Has(active, c)
  <2>1. ~(BeingSent = <<c>> /\ current.cmd = c)
    <3> SUFFICES ASSUME BeingSent = <<c>>, current.cmd = c PROVE FALSE
      OBVIOUS
    <3>1. current.phase \in {"literal", "rest", "sent", "auth_sent", "idle_sent"}
      BY DEF BeingSent
    <3>2. greeted
      BY <3>1 DEF VInv, Held, HeldIsWritten
    <3>3. current.phase = "literal"
      BY <3>1, <3>2 DEF CanReceive, CanWrite, EventPending
    <3> QED
      BY <1>6, <3>3 DEF AInv, GivenOnceServed
  <2> QED
    BY <1>5, <1>7, <2>1, WrittenHasItsTask
<1>9. \A d \in Command : d < c => ~Has(active, d)
  <2>1. \A d \in Command : d < c => Met(d, 1)
    BY <1>2, <1>3, <1>4 DEF AInv, VerdictsComeFirst
  <2>2. \A d \in Command : d < c => output[d] # NoOutput
    BY <1>2, <2>1 DEF Met
  <2> QED
    BY <2>2 DEF IInv, EveryCommandHasItsTask
<1>10. 1 \in DOMAIN active /\ active[1] = c /\ \A j \in DOMAIN active : j \in Nat /\ 1 <= j
  <2>1. PICK p \in DOMAIN active : active[p] = c
    BY <1>8 DEF Has
  <2>2. 1 \in DOMAIN active /\ p \in Nat /\ 1 <= p /\ active[1] \in Command
    BY <1>1
  <2>3. 1 < p => active[1] < c
    BY <2>1, <2>2 DEF IInv, EveryCommandHasItsTask, Increasing
  <2>4. ~(1 < p)
    BY <1>9, <2>2, <2>3 DEF Has
  <2>5. \A j \in DOMAIN active : j \in Nat /\ 1 <= j
    BY <1>1
  <2> QED
    BY <2>1, <2>2, <2>4, <2>5
<1>11. 1 \in Takers(active, r) /\ Takers(active, r) \subseteq DOMAIN active
  BY <1>6, <1>10 DEF Takers
<1>12. (CHOOSE i \in Takers(active, r) : \A j \in Takers(active, r) : i <= j) = 1
  <2> DEFINE S == Takers(active, r)
  <2>1. \E i \in S : \A j \in S : i <= j
    BY <1>10, <1>11
  <2>2. PICK m : m = CHOOSE i \in S : \A j \in S : i <= j
    OBVIOUS
  <2>3. m \in S /\ \A j \in S : m <= j
    BY <2>1, <2>2
  <2>4. m \in Nat /\ 1 <= m /\ m <= 1
    BY <1>10, <1>11, <2>3
  <2> QED
    BY <2>2, <2>4
<1> QED
  BY <1>3, <1>4, <1>10, <1>11, <1>12 DEF trickle_down

\* What is not for one task trickles down.
LEMMA RouteAnswers ==
    ASSUME IInv, VInv, AInv, Alive, NEW r, Receive(r), Route(r), r.type # "tagged",
           UNCHANGED current
    PROVE  AInv'
<1>1. /\ CanReceive /\ wire # <<>> /\ wire' = Tail(wire) /\ r = wire[1] /\ r \in Responses
      /\ UNCHANGED <<kind, server, given>>
      /\ NextTypeOK /\ SchedTypeOK /\ active \in Seq(Command)
  BY TailOfWire DEF Receive, CanReceive, serverVars, IInv, TypeOK, SchedTypeOK
<1> DEFINE c == trickle_down(active, r)
<1>2. CASE c = 0
  <2>1. UNCHANGED <<consumed, output>>
    BY <1>2 DEF Route, Return
  <2>2. ~IsAnswer(wire[1])
    BY <1>1, <1>2, AnswerFindsItsTask DEF Command
  <2> QED
    BY <1>1, <2>1, <2>2, PassedAnswers
<1>3. CASE c # 0
  <2>1. consumed' = [consumed EXCEPT ![c] = Append(@, r)] /\ UNCHANGED output
    BY <1>3 DEF Route
  <2>2. Has(active, c) /\ Consumes(kind[c], r)
    BY <1>1, <1>3, TakerIsActive, TakerConsumes
  <2> HIDE DEF c
  <2>3. c \in Command /\ r.type \in AnswerTypes
    BY <1>1, <2>2 DEF Has, Consumes, AnswerTypes
  <2>4. wire[1].id \in {0, c}
    BY <1>1, <2>3, AnswerFindsItsTask DEF IsAnswer, c
  <2> QED
    BY <1>1, <2>1, <2>3, <2>4, TakenAnswers
<1> QED
  BY <1>2, <1>3

\* A verdict finishes its own task, and no other response does.
LEMMA VerdictAnswers ==
    ASSUME NextTypeOK, SchedTypeOK, AInv, Alive, NEW r, Receive(r), r.type = "tagged",
           current' = current \/ current' = NoCommand,
           \/ \E rest : Finish(r.id, r, rest)
           \/ Panic
    PROVE  AInv'
<1>1. /\ wire # <<>> /\ wire' = Tail(wire) /\ r = wire[1] /\ r \in Responses
      /\ UNCHANGED <<kind, server, given>>
  BY TailOfWire DEF Receive, CanReceive, serverVars
<1>2. CASE \E rest : Finish(r.id, r, rest)
  <2> DEFINE o == process_tagged(kind[r.id], consumed[r.id], r)
  <2>1. output' = [output EXCEPT ![r.id] = o] /\ UNCHANGED consumed /\ Alive'
    BY <1>2 DEF Finish, Alive, Ended
  <2>2. o # NoOutput
    BY <1>1, VerdictOfStatus DEF Responses, Final
  <2> HIDE DEF o
  <2> QED
    BY <1>1, <2>1, <2>2, FinishAnswers
<1>3. CASE Panic
  <2>1. ~Alive' /\ ~IsAnswer(wire[1])
    BY <1>1, <1>3 DEF Panic, Alive, Ended, IsAnswer, AnswerTypes
  <2> QED
    BY <1>1, <1>3, <2>1, PassedAnswers DEF Panic, NoCommand
<1> QED
  BY <1>2, <1>3

\* A response is received.
LEMMA ReceiveAnswers ==
    ASSUME IInv, VInv, AInv, Alive, NEW r, ReceiveEvent(r)
    PROVE  AInv'
<1>1. /\ Receive(r) /\ CanReceive /\ wire # <<>> /\ wire' = Tail(wire) /\ r = wire[1]
      /\ UNCHANGED <<kind, server, given>> /\ NextTypeOK /\ SchedTypeOK
  BY ArmsReceive, TailOfWire DEF Receive, CanReceive, serverVars, IInv, TypeOK
<1>2. ASSUME r.type \in {"greeting", "continuation", "malformed"},
             UNCHANGED <<consumed, output>>,
             current'.phase = "literal" => current' = current
      PROVE  AInv'
  BY <1>1, <1>2, PassedAnswers DEF IsAnswer, AnswerTypes
<1>3. ASSUME r.type = "tagged", current' = NoCommand, FinishByHandle(r.id, r)
      PROVE  AInv'
  BY <1>1, <1>3, VerdictAnswers DEF FinishByHandle
<1>4. CASE GreetingReceived(r)
  BY <1>2, <1>4 DEF GreetingReceived, EventGreetingReceived, Return
<1>5. CASE LiteralContinue(r) /\ Return("continue")
  BY <1>1, <1>2, <1>5 DEF LiteralContinue, Return, NextTypeOK
<1>6. CASE CommandRejected(r) \/ AuthenticateStatusReceived(r) \/ IdleRejected(r)
  BY <1>3, <1>6 DEF CommandRejected, AuthenticateStatusReceived, IdleRejected,
                    EventCommandRejected, EventAuthenticateStatusReceived,
                    EventIdleRejected, LiteralRefused, AuthenticateEnded, IdleRefused, Ends
<1>7. ASSUME NEW c \in Command, AuthenticateContinuationRequestReceived(c, r) PROVE AInv'
  <2>1. /\ r.type = "continuation" /\ UNCHANGED <<consumed, output>>
        /\ current' = current \/ current' = [current EXCEPT !.phase = "auth_data"]
    BY <1>7 DEF AuthenticateContinuationRequestReceived, set_authenticate_data, Return, Panic,
                EventAuthenticateContinuationRequestReceived
  <2>2. current'.phase = "literal" => current' = current
    BY <1>1, <2>1 DEF NextTypeOK
  <2> QED
    BY <1>2, <2>1, <2>2
<1>8. CASE DataReceived(r) \/ ContinuationRequestReceived(r) \/ StatusReceived(r)
  BY <1>1, <1>8, RouteAnswers
     DEF DataReceived, ContinuationRequestReceived, StatusReceived, EventDataReceived,
         EventContinuationRequestReceived, EventStatusReceived, engineVars
<1>9. CASE TaggedReceived(r)
  <2>1. r.type = "tagged" /\ UNCHANGED current /\ ~LiteralRefused(r)
    BY <1>9 DEF TaggedReceived, EventStatusReceived, engineVars
  <2>2. Has(active, r.id)
    BY <1>1, <2>1, TaggedFindsItsTask
  <2> QED
    BY <1>1, <1>9, <2>1, <2>2, VerdictAnswers DEF TaggedReceived
<1>10. CASE IdleAccepted(r)
  BY <1>1, <1>2, <1>10 DEF IdleAccepted, EventIdleAccepted, Return, NextTypeOK
<1>11. CASE MalformedMessage(r)
  BY <1>2, <1>11 DEF MalformedMessage, ErrorMalformedMessage, engineVars, Return
<1> QED
  BY <1>4, <1>5, <1>6, <1>7, <1>8, <1>9, <1>10, <1>11 DEF ReceiveEvent

\* The engine reports what was sent.
LEMMA SendAnswers ==
    ASSUME NextTypeOK, AInv, Alive, NEW c \in Command, SendEvent(c)
    PROVE  AInv'
<1>1. /\ UNCHANGED <<kind, wire, server, given, consumed, output>>
      /\ current'.phase # "literal"
  BY DEF SendEvent, CommandSent, AuthenticateStarted, IdleCommandSent, IdleDoneSent,
         EventCommandSent, EventAuthenticateStarted, EventIdleCommandSent, EventIdleDoneSent,
         Report, NoCommand, Start, Panic, Return, serverVars
<1> QED
  BY <1>1, QuietAnswers

\* The engine writes: nothing was given to a command that is written only now.
LEMMA WriteAnswers ==
    ASSUME NextTypeOK, VInv, AInv, Write, UNCHANGED <<consumed, output, event>>
    PROVE  AInv'
<1>1. /\ UNCHANGED <<kind, wire, given>> /\ server \in [Command -> ServerPhase]
      /\ unsent \in Seq(Command) /\ current \in [cmd : 0..MaxCommands, phase : Phase]
  BY DEF Write, NextTypeOK
<1>2. CASE WriteCommand
  <2>1. PICK c \in Command : c = Head(unsent) /\ Has(unsent, c)
    BY <1>1, <1>2, HeadAndTail DEF WriteCommand, Has
  <2>2. server[c] = "unknown" /\ given[c] = <<>>
    BY <2>1 DEF VInv, Sent, UnwrittenIsUnknown, Unwritten, AInv, GivenOnceServed
  <2>3. FirstServerPhase(kind[c]) \in {"working", "partial", "auth", "idle_asked"}
    BY <1>2, <2>1, WriteCommandPhases DEF VInv, Sent, UnsentInOrder
  <2>4. PICK p \in {"working", "partial", "auth", "idle_asked"} : p = FirstServerPhase(kind[c])
    BY <2>3
  <2>5. server' = [server EXCEPT ![c] = p] /\ current'.cmd = c
    BY <1>2, <2>1, <2>4 DEF WriteCommand
  <2>6. \A d \in Command : server'[d] = server[d]
                             \/ /\ ~Answered(d) /\ ~Answered(d)'
                                /\ \/ server'[d] \notin {"unknown", "partial", "invited"}
                                   \/ server[d] \in {"unknown", "partial", "invited"}
    BY <1>1, <2>2, <2>5 DEF Answered
  <2> QED
    BY <1>1, <2>2, <2>5, <2>6, QuietAnswers DEF Alive
<1>3. CASE WriteRest \/ WriteAuthenticateData \/ WriteDone
  <2>1. current'.phase # "literal"
    BY <1>1, <1>3 DEF WriteRest, WriteAuthenticateData, WriteDone
  <2>2. \A d \in Command : server'[d] = server[d]
                             \/ /\ ~Answered(d) /\ ~Answered(d)'
                                /\ \/ server'[d] \notin {"unknown", "partial", "invited"}
                                   \/ server[d] \in {"unknown", "partial", "invited"}
    BY <1>1, <1>3 DEF WriteRest, WriteAuthenticateData, WriteDone, Answered
  <2> QED
    BY <1>1, <2>1, <2>2, QuietAnswers DEF Alive
<1> QED
  BY <1>2, <1>3 DEF Write

\* The invariant is inductive.
LEMMA NextAnswers ==
    ASSUME IInv, VInv, AInv, ~Reorders, [Next]_vars
    PROVE  AInv'
<1>1. NextTypeOK /\ SchedTypeOK
  BY DEF IInv, TypeOK
<1>2. CASE Enqueue
  <2>1. PICK k \in Kinds : enqueue_command(k) /\ UNCHANGED <<active, consumed, output, event>>
    BY <1>2 DEF Enqueue, enqueue_task
  <2>2. /\ UNCHANGED <<wire, current, server, given, consumed, output, event>>
        /\ issued < MaxCommands /\ kind' = [kind EXCEPT ![issued + 1] = k]
    BY <2>1 DEF enqueue_command, serverVars
  <2>3. PICK c \in Command : c = issued + 1
    BY <1>1, <2>2, MaxCommandsAssumption DEF NextTypeOK, Command
  <2>4. given[c] = <<>>
    <3>1. Unwritten(c)
      BY <1>1, <2>3, MaxCommandsAssumption DEF Unwritten, NextTypeOK
    <3> QED
      BY <3>1 DEF VInv, Sent, UnwrittenIsUnknown, AInv, GivenOnceServed
  <2>5. \A d \in Command : kind'[d] = kind[d] \/ given[d] = <<>>
    BY <1>1, <2>2, <2>3, <2>4 DEF NextTypeOK
  <2> QED
    BY <2>2, <2>5, QuietAnswers DEF Alive, AInv, GivenOnceServed
<1>3. CASE progress
  BY <1>1, <1>3, SendAnswers, ReceiveAnswers DEF progress
<1>4. CASE WriteOutput
  BY <1>1, <1>4, WriteAnswers DEF WriteOutput, schedVars
<1>5. CASE EndIdle
  <2>1. /\ UNCHANGED <<kind, wire, server, given, consumed, output, event>>
        /\ current' = [current EXCEPT !.phase = "done"]
    BY <1>5 DEF EndIdle, set_idle_done, serverVars, schedVars
  <2>2. current'.phase # "literal"
    BY <1>1, <2>1 DEF NextTypeOK
  <2> QED
    BY <2>1, <2>2, QuietAnswers DEF Alive
<1>6. CASE ServerStep
  BY <1>1, <1>6, ServerAnswers DEF ServerStep, schedVars
<1>7. CASE UNCHANGED vars
  BY <1>7, QuietAnswers DEF vars, Alive, AInv, GivenOnceServed
<1> QED
  BY <1>2, <1>3, <1>4, <1>5, <1>6, <1>7 DEF Next, Rest

LEMMA AnswerInvariance == ~Reorders => (Spec => [](IInv /\ VInv /\ AInv))
<1> SUFFICES ASSUME ~Reorders PROVE Spec => [](IInv /\ VInv /\ AInv)
  OBVIOUS
<1>1. Init => IInv /\ VInv /\ AInv
  BY InitIInv, InitVerdicts, InitAnswers
<1>2. IInv /\ VInv /\ AInv /\ [Next]_vars => IInv' /\ VInv' /\ AInv'
  BY NextIInv, NextVerdicts, NextAnswers
<1> QED
  BY <1>1, <1>2, PTL DEF Spec

\* What was given to a command has reached its task when the task has an output.
LEMMA GivenIsConsumed ==
    ASSUME AInv, NEW c \in Command,
           \A i \in DOMAIN wire : IsAnswer(wire[i]) => wire[i].id # c
    PROVE  \A n \in DOMAIN given[c] :
              \E i \in OwnAnswers(c) : consumed[c][i] = given[c][n] /\ given[c][n].n = n
<1> SUFFICES ASSUME NEW n \in DOMAIN given[c]
             PROVE  \E i \in OwnAnswers(c) : consumed[c][i] = given[c][n] /\ given[c][n].n = n
  OBVIOUS
<1>1. PICK i \in OwnAnswers(c) : consumed[c][i].n = n
  BY DEF AInv, GivenIsThere
<1> QED
  BY <1>1 DEF AInv, ConsumedIsGiven, GivenIsWanted

\* Pipelined tasks do not take each other's answers, though nothing in an untagged
\* response says whose it is: the order of the active tasks (mod.rs:231-262) and
\* that of the server's work are enough.
THEOREM AnswersReachTheirTaskHolds == ~Reorders => (Spec => []AnswersReachTheirTask)
<1> SUFFICES ASSUME ~Reorders PROVE Spec => []AnswersReachTheirTask
  OBVIOUS
<1>1. ASSUME AInv PROVE AnswersReachTheirTask
  <2>1. ASSUME NEW c \in Command, output[c] # NoOutput
        PROVE  {consumed[c][i] : i \in OwnAnswers(c)} = {given[c][n] : n \in DOMAIN given[c]}
    <3>1. \A i \in DOMAIN wire : IsAnswer(wire[i]) => wire[i].id # c
      BY <1>1, <2>1 DEF AInv, WireIsGiven
    <3>2. \A n \in DOMAIN given[c] : \E i \in OwnAnswers(c) : consumed[c][i] = given[c][n]
      BY <1>1, <3>1, GivenIsConsumed
    <3>3. \A i \in OwnAnswers(c) : \E n \in DOMAIN given[c] : consumed[c][i] = given[c][n]
      BY <1>1 DEF AInv, ConsumedIsGiven
    <3> QED
      BY <3>2, <3>3
  <2>2. \A c \in Command : /\ \A i \in DOMAIN consumed[c] : consumed[c][i].id \in {0, c}
                           /\ \A i, j \in OwnAnswers(c) :
                                 i < j => consumed[c][i].n < consumed[c][j].n
    BY <1>1 DEF AInv, ConsumedIsGiven
  <2> QED
    BY <2>1, <2>2 DEF AnswersReachTheirTask
<1> QED
  BY <1>1, AnswerInvariance, PTL

-----------------------------------------------------------------------------
(* What a task makes of its answers *)

\* A set of numbers up to a number has a greatest one.
LEMMA GreatestExists ==
    ASSUME NEW n \in Nat, NEW S \in SUBSET (1..n), S # {}
    PROVE  \E i \in S : \A j \in S : j <= i
<1> DEFINE T == {n - j : j \in S}
<1>1. T \in SUBSET Nat /\ T # {}
  <2>1. \A j \in 1..n : n - j \in Nat
    OBVIOUS
  <2> QED
    BY <2>1
<1>2. PICK t \in T : \A u \in T : t <= u
  BY <1>1, LeastExists
<1>3. PICK i \in S : t = n - i
  BY <1>2
<1>4. \A j \in S : n - i <= n - j
  BY <1>2, <1>3
<1> QED
  BY <1>4

\* Only tasks that keep the one latest answer take one from the completion result,
\* or cannot do without it; or those that keep none.
KeepsEnough(t) ==
    /\ t.final # {} => t.keeps \in {"none", "one"}
    /\ t.needs => t.keeps = "one"

LEMMA TasksKeep == \A k \in TaskKinds : KeepsEnough(Task[k])
<1>1. /\ KeepsEnough(AppendTask) /\ KeepsEnough(PostAppendNoOpTask)
      /\ KeepsEnough(PostAppendCheckTask) /\ KeepsEnough(AppendUidTask)
      /\ KeepsEnough(AuthenticateTask) /\ KeepsEnough(CapabilityTask)
      /\ KeepsEnough(CheckTask)
  BY DEF KeepsEnough, Plain, AppendTask, PostAppendNoOpTask,
         PostAppendCheckTask, AppendUidTask, AuthenticateTask, CapabilityTask,
         CheckTask
<1>2. /\ KeepsEnough(CopyTask) /\ KeepsEnough(CreateTask)
      /\ KeepsEnough(DeleteTask) /\ KeepsEnough(EnableTask)
      /\ KeepsEnough(ExpungeTask) /\ KeepsEnough(FetchTask)
      /\ KeepsEnough(FetchFirstTask)
  BY DEF KeepsEnough, Plain, CopyTask, CreateTask, DeleteTask, EnableTask,
         ExpungeTask, FetchTask, FetchFirstTask
<1>3. /\ KeepsEnough(IdTask) /\ KeepsEnough(ListTask)
      /\ KeepsEnough(LoginTask) /\ KeepsEnough(LogoutTask)
      /\ KeepsEnough(MoveTask) /\ KeepsEnough(NoOpTask)
      /\ KeepsEnough(SearchTask)
  BY DEF KeepsEnough, Plain, IdTask, ListTask, LoginTask, LogoutTask, MoveTask,
         NoOpTask, SearchTask
<1>4. /\ KeepsEnough(SelectTask) /\ KeepsEnough(SortTask)
      /\ KeepsEnough(StoreTask) /\ KeepsEnough(SilentStoreTask)
      /\ KeepsEnough(ThreadTask) /\ KeepsEnough(OwnIdleTask)
      /\ KeepsEnough(OwnAuthenticateTask)
  BY DEF KeepsEnough, Plain, SelectTask, SortTask, StoreTask, SilentStoreTask,
         ThreadTask, OwnIdleTask, OwnAuthenticateTask
<1> QED
  BY <1>1, <1>2, <1>3, <1>4 DEF TaskKinds, Task

\* What is consumed is kept, or one about the same thing that was consumed later.
LEMMA KeptIsLatest ==
    ASSUME NEW k \in TaskKinds, NEW s \in Seq(Responses), NEW j \in DOMAIN s,
           Task[k].keeps # "none"
    PROVE  \/ s[j] \in Kept(k, s)
           \/ \E l \in DOMAIN s :
                 /\ j < l /\ s[l] \in Kept(k, s)
                 /\ Task[k].keeps = "one" \/ (Task[k].keeps = "latest" /\ s[l].what = s[j].what)
<1>1. Task[k].keeps \in {"one", "latest", "all"}
  BY TasksTyped DEF TaskType
<1>2. j \in 1..Len(s) /\ Len(s) \in Nat /\ Len(s) \in DOMAIN s /\ s # <<>>
  OBVIOUS
<1>3. CASE Task[k].keeps = "one"
  BY <1>2, <1>3 DEF Kept
<1>4. CASE Task[k].keeps = "latest"
  <2> DEFINE S == {l \in 1..Len(s) : s[l].what = s[j].what}
  <2>1. S \in SUBSET (1..Len(s)) /\ j \in S
    BY <1>2
  <2>2. PICK l \in S : \A m \in S : m <= l
    BY <1>2, <2>1, GreatestExists
  <2>3. /\ l \in DOMAIN s /\ j <= l /\ s[l].what = s[j].what
        /\ \A m \in DOMAIN s : m > l => s[m].what # s[l].what
    BY <1>2, <2>1, <2>2
  <2>4. s[l] \in Kept(k, s)
    BY <1>4, <2>3 DEF Kept
  <2>5. j = l \/ j < l
    BY <1>2, <2>3
  <2> QED
    BY <1>4, <2>3, <2>4, <2>5
<1>5. CASE Task[k].keeps = "all"
  BY <1>2, <1>5 DEF Kept
<1> QED
  BY <1>1, <1>3, <1>4, <1>5

\* The output o is made of the latest that was given to c.
Latest(c, o) ==
    /\ o.verdict = "Ok" /\ Task[kind[c]].keeps # "none" =>
          \A i \in DOMAIN given[c] :
             given[c][i] \in o.items \/ \E r \in o.items : Displaces(c, r, given[c][i])
    /\ o.verdict = "MissingData" => given[c] = <<>>

\* Such is the output that a task returns on the verdict.
LEMMA ReturnsLatest ==
    ASSUME NextTypeOK, SchedTypeOK, AInv, wire # <<>>, NEW r, r = wire[1], r.type = "tagged",
           r.id \in Command, kind[r.id] \in TaskKinds
    PROVE  Latest(r.id, process_tagged(kind[r.id], consumed[r.id], r))
<1>1. PICK c \in Command : c = r.id
  OBVIOUS
<1>2. PICK k \in TaskKinds : k = kind[c]
  BY <1>1
<1>3. PICK s \in Seq(Responses) : s = consumed[c]
  BY <1>1 DEF SchedTypeOK
<1>4. 1 \in DOMAIN wire /\ r \in Responses /\ \A j \in DOMAIN wire : ~(j < 1)
  BY DEF NextTypeOK
<1>5. r.n = Len(given[c]) + 1 /\ \A j \in DOMAIN wire : IsAnswer(wire[j]) => wire[j].id # c
  BY <1>1, <1>4 DEF AInv, VerdictIsLast, Tagged
<1>6. \A n \in DOMAIN given[c] :
         given[c][n].n = n /\ \E j \in OwnAnswers(c) : s[j] = given[c][n]
  BY <1>3, <1>5, GivenIsConsumed
<1>7. given[c] \in Seq(Responses)
  BY DEF NextTypeOK
<1>8. r.status \in {"OK", "NO", "BAD"}
  BY <1>4 DEF Responses
<1> DEFINE o == process_tagged(k, s, r)
<1>9. CASE r.status # "OK"
  <2>1. o.verdict \notin {"Ok", "MissingData"}
    BY <1>8, <1>9 DEF process_tagged
  <2> QED
    BY <1>1, <1>2, <1>3, <2>1 DEF Latest
<1>10. CASE r.status = "OK" /\ Task[k].needs /\ OkItems(k, s, r) = {}
  <2>1. o.verdict = "MissingData"
    BY <1>10 DEF process_tagged
  <2>2. Kept(k, s) = {} /\ Task[k].keeps = "one"
    BY <1>10, TasksKeep DEF OkItems, KeepsEnough
  <2>3. s = <<>>
    BY <2>2 DEF Kept
  <2>4. \A n \in DOMAIN given[c] : FALSE
    BY <1>3, <1>6, <2>3 DEF OwnAnswers
  <2>5. given[c] = <<>>
    <3>1. Len(given[c]) \in Nat /\ DOMAIN given[c] = 1..Len(given[c])
      BY <1>7
    <3>2. ~(Len(given[c]) >= 1)
      BY <2>4, <3>1
    <3>3. Len(given[c]) = 0
      BY <3>1, <3>2
    <3> QED
      BY <1>7, <3>3
  <2> QED
    BY <1>1, <1>2, <1>3, <2>1, <2>5 DEF Latest
<1>11. CASE r.status = "OK" /\ ~(Task[k].needs /\ OkItems(k, s, r) = {})
  <2>1. o = [verdict |-> "Ok", items |-> OkItems(k, s, r)]
    BY <1>11 DEF process_tagged
  <2> SUFFICES ASSUME Task[k].keeps # "none", NEW n \in DOMAIN given[c]
               PROVE  \/ given[c][n] \in OkItems(k, s, r)
                      \/ \E q \in OkItems(k, s, r) : Displaces(c, q, given[c][n])
    BY <1>1, <1>2, <1>3, <2>1 DEF Latest
  <2>2. PICK j \in OwnAnswers(c) : s[j] = given[c][n] /\ given[c][n].n = n
    BY <1>6
  <2>3. CASE OkItems(k, s, r) = {r} /\ r.what \in Task[k].final
    <3>1. Task[k].keeps = "one"
      BY <2>3, TasksKeep DEF KeepsEnough
    <3>2. r.n > n
      BY <1>5, <1>7
    <3> QED
      BY <1>1, <1>2, <2>2, <2>3, <3>1, <3>2 DEF Displaces
  <2>4. CASE OkItems(k, s, r) = Kept(k, s)
    <3>1. j \in DOMAIN s
      BY <1>3 DEF OwnAnswers
    <3>2. CASE s[j] \in Kept(k, s)
      BY <2>2, <2>4, <3>2
    <3>3. ASSUME NEW l \in DOMAIN s, j < l, s[l] \in Kept(k, s),
                 Task[k].keeps = "one" \/ (Task[k].keeps = "latest" /\ s[l].what = s[j].what)
          PROVE  Displaces(c, s[l], given[c][n])
      <4>1. ASSUME s[l].id = c PROVE s[l].n > given[c][n].n
        <5>1. l \in OwnAnswers(c)
          BY <1>3, <4>1 DEF OwnAnswers
        <5>2. s[j].n < s[l].n
          BY <1>3, <3>3, <5>1 DEF AInv, ConsumedIsGiven
        <5> QED
          BY <2>2, <5>2, <1>3, <3>1 DEF Responses
      <4> QED
        BY <1>2, <1>3, <2>2, <3>1, <3>3, <4>1 DEF Displaces
    <3> QED
      BY <2>4, <3>1, <3>2, <3>3, KeptIsLatest
  <2> QED
    BY <2>3, <2>4 DEF OkItems
<1> QED
  BY <1>8, <1>9, <1>10, <1>11

\* An output is made in one way only, of the verdict that is received.
MakesOutput(c) ==
    /\ wire # <<>> /\ wire[1].type = "tagged" /\ wire[1].id = c
    /\ output' = [output EXCEPT ![c] = process_tagged(kind[c], consumed[c], wire[1])]
    /\ UNCHANGED <<kind, given, consumed>> /\ kind[c] \in TaskKinds

LEMMA OutputStep ==
    ASSUME IInv, VInv, [Next]_vars
    PROVE  output' = output \/ \E c \in Command : MakesOutput(c)
<1>1. CASE Enqueue \/ WriteOutput \/ EndIdle \/ ServerStep \/ UNCHANGED vars
  BY <1>1 DEF Enqueue, enqueue_task, WriteOutput, EndIdle, ServerStep, schedVars, vars
<1>2. ASSUME Alive, NEW c \in Command, SendEvent(c) PROVE output' = output
  BY <1>2 DEF SendEvent, CommandSent, AuthenticateStarted, IdleCommandSent, IdleDoneSent,
              Start, Panic, Return
<1>3. ASSUME Alive, NEW r, ReceiveEvent(r)
      PROVE  output' = output \/ \E c \in Command : MakesOutput(c)
  <2>1. Receive(r) /\ NextTypeOK /\ wire # <<>> /\ r = wire[1] /\ UNCHANGED <<kind, given>>
    BY <1>3, ArmsReceive, TailOfWire DEF Receive, CanReceive, serverVars, IInv, TypeOK
  <2>2. ASSUME r.type = "tagged", \/ \E rest : Finish(r.id, r, rest)
                                  \/ Panic
        PROVE  output' = output \/ \E c \in Command : MakesOutput(c)
    <3>1. r.id \in Command /\ ~Unwritten(r.id)
      BY <2>1, <2>2, TaggedIsVerdict
    <3>2. PICK c \in Command : c = r.id
      BY <3>1
    <3>3. kind[c] \in TaskKinds
      BY <2>1, <3>1, <3>2, MaxCommandsAssumption DEF Unwritten, NextTypeOK, Command
    <3> QED
      BY <2>1, <2>2, <3>2, <3>3 DEF Finish, Panic, MakesOutput
  <2>3. ASSUME NEW q, Route(q) PROVE output' = output
    BY <2>3 DEF Route, Return
  <2>4. CASE CommandRejected(r) \/ AuthenticateStatusReceived(r) \/ IdleRejected(r)
    BY <2>2, <2>4 DEF CommandRejected, AuthenticateStatusReceived, IdleRejected,
                      EventCommandRejected, EventAuthenticateStatusReceived, EventIdleRejected,
                      LiteralRefused, AuthenticateEnded, IdleRefused, Ends, FinishByHandle
  <2>5. CASE TaggedReceived(r)
    BY <2>2, <2>5 DEF TaggedReceived, Return
  <2>6. CASE DataReceived(r) \/ ContinuationRequestReceived(r) \/ StatusReceived(r)
    BY <2>3, <2>6 DEF DataReceived, ContinuationRequestReceived, StatusReceived
  <2> QED
    BY <1>3, <2>4, <2>5, <2>6
       DEF ReceiveEvent, GreetingReceived, AuthenticateContinuationRequestReceived,
           IdleAccepted, MalformedMessage, Return, Panic
<1> QED
  BY <1>1, <1>2, <1>3 DEF Next, Rest, progress

\* What a finished command was given, and the task it was made for, are settled.
LEMMA GivenStep ==
    ASSUME IInv, VInv, [Next]_vars, NEW c \in Command, output[c] # NoOutput
    PROVE  given'[c] = given[c] /\ kind'[c] = kind[c]
<1>1. NextTypeOK
  BY DEF IInv, TypeOK
<1>2. Answered(c)
  BY DEF VInv, Decided, OutputIsAnswer
<1>3. ~Unwritten(c)
  BY <1>2 DEF VInv, Sent, UnwrittenIsUnknown, Answered
<1>4. CASE Enqueue
  <2>1. PICK k : kind' = [kind EXCEPT ![issued + 1] = k] /\ given' = given
    BY <1>4 DEF Enqueue, enqueue_task, enqueue_command, serverVars
  <2>2. c # issued + 1
    BY <1>1, <1>3, MaxCommandsAssumption DEF Unwritten, NextTypeOK, Command
  <2> QED
    BY <1>1, <2>1, <2>2 DEF NextTypeOK
<1>5. CASE ServerStep
  <2>1. ASSUME NEW d \in Command, NEW a, Provide(d, a) PROVE given'[c] = given[c] /\ kind' = kind
    BY <1>1, <1>2, <2>1 DEF Provide, Answered, NextTypeOK
  <2>2. \A d \in 1..issued : d \in Command
    BY <1>1, MaxCommandsAssumption DEF NextTypeOK, Command
  <2> QED
    BY <1>5, <2>1, <2>2 DEF ServerStep, Server, Answer, GoAhead, AcceptIdle, Invite, Challenge,
                            Complete, Volunteer
<1>6. CASE WriteOutput \/ EndIdle \/ UNCHANGED vars
  BY <1>6 DEF WriteOutput, Write, EndIdle, serverVars, vars
<1>7. ASSUME NEW r, ReceiveEvent(r) PROVE given' = given /\ kind' = kind
  BY <1>7, ArmsReceive DEF Receive, serverVars
<1>8. ASSUME NEW d, SendEvent(d) PROVE given' = given /\ kind' = kind
  BY <1>8 DEF SendEvent, CommandSent, AuthenticateStarted, IdleCommandSent, IdleDoneSent,
              EventCommandSent, EventAuthenticateStarted, EventIdleCommandSent,
              EventIdleDoneSent, Report, serverVars
<1> QED
  BY <1>4, <1>5, <1>6, <1>7, <1>8 DEF Next, Rest, progress

LEMMA NextLatest ==
    ASSUME IInv, VInv, AInv, LatestAnswerWins, [Next]_vars
    PROVE  LatestAnswerWins'
<1> SUFFICES ASSUME NEW c \in Command PROVE Latest(c, output[c])'
  BY DEF LatestAnswerWins, Latest
<1>1. NextTypeOK /\ SchedTypeOK /\ Latest(c, output[c])
  BY DEF IInv, TypeOK, LatestAnswerWins, Latest
<1>2. CASE output'[c] = NoOutput
  BY <1>2 DEF Latest, NoOutput
<1>3. CASE output[c] # NoOutput /\ output'[c] = output[c]
  <2>1. consumed'[c] = consumed[c]
    <3>1. CASE Next
      BY <1>1, <1>3, <3>1, FinalStep DEF IInv, EveryCommandHasItsTask
    <3> QED
      BY <3>1 DEF vars
  <2> QED
    BY <1>1, <1>3, <2>1, GivenStep DEF Latest, Displaces
<1>4. CASE MakesOutput(c)
  <2>1. output'[c] = process_tagged(kind[c], consumed[c], wire[1])
    BY <1>1, <1>4 DEF MakesOutput, SchedTypeOK
  <2>2. Latest(c, process_tagged(kind[c], consumed[c], wire[1]))
    BY <1>1, <1>4, ReturnsLatest DEF MakesOutput
  <2> QED
    BY <1>4, <2>1, <2>2 DEF MakesOutput, Latest, Displaces
<1> QED
  BY <1>1, <1>2, <1>3, <1>4, OutputStep DEF MakesOutput, SchedTypeOK

\* What a task returns is the latest the server said of each thing, or all of it: an
\* answer is missing only where a later one about the same thing is returned, be it
\* an own or a volunteered one, and MissingData is no lie (the tasks keep
\* what they consume in a field, e.g. capability.rs, select.rs, fetch.rs).
THEOREM LatestAnswerWinsHolds == ~Reorders => (Spec => []LatestAnswerWins)
<1> SUFFICES ASSUME ~Reorders PROVE Spec => []LatestAnswerWins
  OBVIOUS
<1>1. Init => LatestAnswerWins
  BY DEF Init, SchedInit, NextInit, LatestAnswerWins, NoOutput
<1> QED
  BY <1>1, NextLatest, AnswerInvariance, PTL DEF Spec
=============================================================================
