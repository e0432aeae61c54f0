--------------------------- MODULE SessionProofs ---------------------------
(***************************************************************************)
(* Proofs, for every value of the constants, about a Client whose calls    *)
(* are dropped at an await, read in pieces, and may go round the scheduler *)
(* with IDLE.                                                              *)
(*                                                                         *)
(* Without IDLE each step of the session is a step of the scheduler or     *)
(* leaves it alone: all that is proved of the scheduler carries over.      *)
(* With IDLE the two queues drift apart, but the types, the verdicts and   *)
(* the order of the maps do not depend on them.                            *)
(* The last part is about a program that uses IDLE as it is meant (tidy):  *)
(* an IDLE is then alone in the engine while the maps are empty, so that   *)
(* the two queues agree again when its call returns.                       *)
(***************************************************************************)
EXTENDS Session, AnswerProofs, FiniteSetTheorems

-----------------------------------------------------------------------------
(* The invariant of a session, with IDLE or without *)

\* The command that is being sent, the unsent ones after it, the active before it.
SendingPhases == {"literal", "rest", "sent", "auth_sent", "idle_sent"}
Sending == current.phase \in SendingPhases
SendsInOrder ==
    /\ Sending => \A d \in Command : Has(unsent, d) => current.cmd < d
    /\ \A c \in Command : Has(active, c) =>
          /\ Sending => c < current.cmd
          /\ \A d \in Command : Has(unsent, d) => c < d

\* Each task is in one of the maps, and there once, or finished, or in neither.
TasksAreOnce ==
    /\ Increasing(waiting) /\ Increasing(active)
    /\ \A c \in Command :
          /\ Has(waiting, c) => c <= issued /\ output[c] = NoOutput /\ ~Has(active, c)
          /\ Has(active, c) => c <= issued /\ output[c] = NoOutput

MInv == TypeOK /\ VInv /\ SendsInOrder /\ TasksAreOnce

LEMMA InitMaps == Init => MInv
<1> SUFFICES ASSUME Init PROVE MInv
  OBVIOUS
<1>1. TypeOK /\ VInv
  BY InitIInv, InitVerdicts DEF IInv
<1>2. SendsInOrder /\ TasksAreOnce
  BY DEF Init, NextInit, SchedInit, SendsInOrder, TasksAreOnce, Sending, SendingPhases,
         NoCommand, Has, Increasing
<1> QED
  BY <1>1, <1>2 DEF MInv

\* What neither enqueues, writes, starts nor finishes keeps the maps in order.
LEMMA QuietMaps ==
    ASSUME SendsInOrder, TasksAreOnce, UNCHANGED <<issued, unsent, waiting, active, output>>,
           Sending' => Sending /\ current'.cmd = current.cmd
    PROVE  SendsInOrder' /\ TasksAreOnce'
BY DEF SendsInOrder, TasksAreOnce, Has, Increasing

\* A command is enqueued, with a task or (IDLE) without.
LEMMA EnqueueMaps ==
    ASSUME MInv, NEW k \in TaskKinds, enqueue_command(k), UNCHANGED <<active, consumed, output>>,
           event' = event,
           waiting' = waiting \/ waiting' = push_back(waiting, issued + 1)
    PROVE  MInv'
<1> DEFINE c == issued + 1
<1>1. /\ NextTypeOK /\ SchedTypeOK /\ issued \in Nat /\ issued < MaxCommands /\ issued' = c
      /\ unsent' = push_back(unsent, c) /\ current' = current
      /\ unsent \in Seq(Command) /\ waiting \in Seq(Command)
  BY DEF MInv, TypeOK, enqueue_command, push_back, NextTypeOK, SchedTypeOK
<1>2. c \in Command
  BY <1>1, MaxCommandsAssumption DEF Command
<1>3. NextTypeOK' /\ VInv'
  BY <1>1, EnqueueTyped, EnqueueVerdicts DEF MInv
<1>4. \A d : Has(unsent', d) <=> Has(unsent, d) \/ d = c
  <2>1. \A d : Has(push_back(unsent, c), d) <=> Has(unsent, d) \/ d = c
    BY <1>1, <1>2, PushBackProperties
  <2> QED
    BY <1>1, <2>1
<1>5. \A d \in Command : /\ Has(waiting, d) => d < c
                         /\ Has(active, d) => d < c
  BY <1>1 DEF MInv, TasksAreOnce, Command
<1>6. /\ waiting' \in Seq(Command) /\ Increasing(waiting')
      /\ \A d : Has(waiting', d) => Has(waiting, d) \/ d = c
  <2>1. CASE waiting' = waiting
    BY <1>1, <2>1 DEF MInv, TasksAreOnce
  <2>2. CASE waiting' = push_back(waiting, c)
    <3> DEFINE t == push_back(waiting, c)
    <3>1. /\ t \in Seq(Command) /\ Increasing(t)
          /\ \A d : Has(t, d) <=> Has(waiting, d) \/ d = c
      BY <1>1, <1>2, <1>5, PushBackProperties DEF MInv, TasksAreOnce
    <3> HIDE DEF t
    <3>2. waiting' = t
      BY <2>2 DEF t
    <3> QED
      BY <3>1, <3>2
  <2> QED
    BY <2>1, <2>2
<1>7. TypeOK'
  BY <1>1, <1>3, <1>6 DEF TypeOK, SchedTypeOK
<1>8. current.phase # "none" => current.cmd \in Command /\ current.cmd <= issued
  BY <1>1 DEF MInv, VInv, Held, HeldIsWritten, Unwritten, Command
<1> HIDE DEF c
<1>9. SendsInOrder'
  <2>1. Sending => current.cmd < c
    BY <1>1, <1>8 DEF Sending, SendingPhases, c, Command
  <2> QED
    BY <1>1, <1>4, <1>5, <2>1 DEF MInv, SendsInOrder, Sending, Has
<1>10. output[c] = NoOutput /\ ~Has(active, c)
  <2>1. Unwritten(c)
    BY <1>1 DEF Unwritten, c
  <2>2. server[c] = "unknown"
    BY <1>2, <2>1 DEF MInv, VInv, Sent, UnwrittenIsUnknown
  <2> QED
    BY <1>1, <1>2, <1>5, <2>2
       DEF MInv, VInv, Decided, OutputIsAnswer, Answered, c, Command
<1>11. TasksAreOnce'
  <2>1. Increasing(active') /\ \A d : Has(active', d) <=> Has(active, d)
    BY DEF MInv, TasksAreOnce, Increasing, Has
  <2>2. c <= issued' /\ \A d \in Command : d <= issued => d <= issued'
    BY <1>1 DEF c, Command
  <2> QED
    BY <1>1, <1>2, <1>6, <1>10, <2>1, <2>2 DEF MInv, TasksAreOnce
<1> QED
  BY <1>3, <1>7, <1>9, <1>11 DEF MInv

\* The engine writes.
LEMMA WriteMaps ==
    ASSUME MInv, Write, UNCHANGED schedVars
    PROVE  MInv'
<1>1. /\ UNCHANGED <<issued, waiting, active, consumed, output, event>>
      /\ NextTypeOK /\ SchedTypeOK /\ unsent \in Seq(Command)
  BY DEF Write, schedVars, MInv, TypeOK, NextTypeOK
<1>2. NextTypeOK' /\ VInv'
  BY <1>1, WriteTyped, WriteVerdicts DEF MInv, VInv, Sent, UnsentInOrder
<1>3. TypeOK' /\ TasksAreOnce'
  BY <1>1, <1>2 DEF TypeOK, SchedTypeOK, MInv, TasksAreOnce, Has, Increasing
<1>4. SendsInOrder'
  <2>1. CASE WriteCommand
    <3>1. unsent # <<>> /\ unsent' = Tail(unsent) /\ current'.cmd = Head(unsent)
      BY <2>1 DEF WriteCommand
    <3>2. PICK c \in Command : c = Head(unsent) /\ unsent = <<c>> \o Tail(unsent)
                                /\ unsent[1] = c /\ 1 \in DOMAIN unsent
      BY <1>1, <3>1, HeadAndTail
    <3>3. /\ Tail(unsent) \in Seq(Command) /\ Len(unsent) \in Nat
          /\ \A i \in DOMAIN Tail(unsent) : i \in Nat /\ i + 1 \in DOMAIN unsent
                                            /\ Tail(unsent)[i] = unsent[i + 1] /\ 1 < i + 1
      BY <1>1, <3>1, HeadAndTail
    <3>4. \A d : Has(unsent', d) => Has(unsent, d) /\ c < d
      <4>1. Increasing(unsent)
        BY DEF MInv, VInv, Sent, UnsentInOrder
      <4> QED
        BY <3>1, <3>2, <3>3, <4>1 DEF Has, Increasing
    <3>5. Has(unsent, c)
      BY <3>2 DEF Has
    <3>6. current'.cmd = c /\ active' = active
      BY <1>1, <3>1, <3>2
    <3> QED
      BY <3>4, <3>5, <3>6 DEF MInv, SendsInOrder
  <2>2. CASE WriteRest \/ WriteAuthenticateData \/ WriteDone
    <3>1. Sending' => Sending /\ current'.cmd = current.cmd
      BY <1>1, <2>2
         DEF WriteRest, WriteAuthenticateData, WriteDone, Sending, SendingPhases, NextTypeOK
    <3>2. unsent' = unsent
      BY <2>2 DEF WriteRest, WriteAuthenticateData, WriteDone
    <3> QED
      BY <1>1, <3>1, <3>2, QuietMaps DEF MInv
  <2> QED
    BY <2>1, <2>2 DEF Write
<1> QED
  BY <1>2, <1>3, <1>4 DEF MInv

\* The server goes on.
LEMMA ServerMaps ==
    ASSUME MInv, ServerStep
    PROVE  MInv'
<1>1. /\ UNCHANGED <<issued, unsent, current, waiting, active, consumed, output, event>>
      /\ NextTypeOK /\ Server
  BY DEF ServerStep, Server, Answer, GoAhead, AcceptIdle, Invite, Challenge, Provide,
         Complete, Volunteer, schedVars, MInv, TypeOK
<1>2. NextTypeOK' /\ VInv'
  BY <1>1, ServerTyped, ServerVerdicts DEF MInv
<1>3. TypeOK'
  BY <1>1, <1>2 DEF TypeOK, SchedTypeOK, MInv
<1>4. SendsInOrder' /\ TasksAreOnce'
  BY <1>1, QuietMaps DEF MInv, Sending
<1> QED
  BY <1>2, <1>3, <1>4 DEF MInv

\* A response is received, or a report made, and the scheduler not told.
LEMMA IgnoredMaps ==
    ASSUME MInv, UNCHANGED schedVars, current' \in CurrentType, greeted => greeted',
           greeted' \in BOOLEAN, CurrentGoesOn, Sending' => Sending /\ current'.cmd = current.cmd,
           \/ \E r : Receive(r)
           \/ \E c \in Command, from \in Phase, to \in CurrentType : Report(c, from, to)
           \/ NextUnchanged
    PROVE  MInv'
<1>1. /\ UNCHANGED <<issued, unsent, server, waiting, active, consumed, output, event>>
      /\ NextTypeOK /\ SchedTypeOK
      /\ wire' = wire \/ (wire # <<>> /\ wire' = Tail(wire))
  BY DEF Receive, CanReceive, Report, NextUnchanged, serverVars, schedVars, MInv, TypeOK
<1>2. VInv'
  BY <1>1, QuietVerdicts DEF MInv
<1>3. NextTypeOK'
  <2>1. CASE \E r : Receive(r)
    BY <1>1, <2>1, ReceiveTyped
  <2>2. CASE \E c \in Command, from \in Phase, to \in CurrentType : Report(c, from, to)
    BY <1>1, <2>2, ReportTyped
  <2>3. CASE NextUnchanged
    BY <1>1, <2>3 DEF NextUnchanged, serverVars, NextTypeOK, CurrentType
  <2> QED
    BY <2>1, <2>2, <2>3
<1>4. TypeOK'
  BY <1>1, <1>3 DEF TypeOK, SchedTypeOK
<1>5. SendsInOrder' /\ TasksAreOnce'
  BY <1>1, QuietMaps DEF MInv
<1> QED
  BY <1>2, <1>4, <1>5 DEF MInv

\* What an event makes of the command that holds the connection.
Moves(from, to) == current.phase = from /\ current' = [current EXCEPT !.phase = to]
EngineGoesOn ==
    \/ UNCHANGED current
    \/ current' = NoCommand
    \/ Moves("literal", "rest") \/ Moves("auth", "auth_data")
    \/ Moves("idle_asked", "idling") \/ Moves("idling", "done")

LEMMA EventsGoOn ==
    ASSUME NextTypeOK, EngineGoesOn
    PROVE  /\ current' \in CurrentType /\ CurrentGoesOn
           /\ Sending' => Sending /\ current'.cmd = current.cmd
<1>1. current \in CurrentType /\ NoCommand \in CurrentType /\ NoCommand.phase = "none"
  BY MaxCommandsAssumption DEF NextTypeOK, CurrentType, NoCommand, Phase
<1>2. CASE UNCHANGED current
  BY <1>1, <1>2 DEF CurrentGoesOn, Sending
<1>3. CASE current' = NoCommand
  BY <1>1, <1>3 DEF CurrentGoesOn, Sending, SendingPhases
<1>4. ASSUME NEW from, NEW to, Moves(from, to),
             \/ from = "literal" /\ to = "rest"
             \/ from = "auth" /\ to = "auth_data"
             \/ from = "idle_asked" /\ to = "idling"
             \/ from = "idling" /\ to = "done"
      PROVE  /\ current' \in CurrentType /\ CurrentGoesOn
             /\ Sending' => Sending /\ current'.cmd = current.cmd
  <2>1. /\ current'.cmd = current.cmd /\ current'.phase = to /\ current.phase = from
        /\ current' \in CurrentType
    BY <1>1, <1>4 DEF Moves, CurrentType, Phase
  <2> QED
    BY <1>4, <2>1 DEF CurrentGoesOn, Sending, SendingPhases, AuthPhases
<1> QED
  BY <1>2, <1>3, <1>4 DEF EngineGoesOn

\* What an arm of progress() makes of the maps and the outputs.
Passes == UNCHANGED <<waiting, active, output>>
Starts(c) ==
    /\ c \in Command /\ Has(waiting, c) /\ Sending /\ current.cmd = c /\ ~Sending'
    /\ waiting' = remove_by_handle(waiting, c) /\ active' = push_back(active, c)
    /\ UNCHANGED <<consumed, output>> /\ event' = Continue
Finishes(r) ==
    /\ Receive(r) /\ r.type = "tagged" /\ Has(active, r.id)
    /\ Finish(r.id, r, remove_by_handle(active, r.id))

LEMMA SendArms ==
    ASSUME MInv, NEW c \in Command, SendEvent(c)
    PROVE  /\ NextTypeOK' /\ VInv' /\ UNCHANGED <<issued, unsent>>
           /\ Sending' => Sending /\ current'.cmd = current.cmd
           /\ \/ Passes /\ UNCHANGED consumed /\ (event' = Continue \/ event' = Ended("panic", 0))
              \/ Starts(c)
<1>1. NextTypeOK /\ SchedTypeOK /\ VInv
  BY DEF MInv, TypeOK
<1>2. VInv' /\ UNCHANGED <<issued, unsent>>
  BY <1>1, SendVerdicts
     DEF SendEvent, CommandSent, AuthenticateStarted, IdleCommandSent, IdleDoneSent,
         EventCommandSent, EventAuthenticateStarted, EventIdleCommandSent,
         EventIdleDoneSent, Report
<1>3. ASSUME NEW from, NEW to \in {NoCommand, [cmd |-> c, phase |-> "auth"],
                                   [cmd |-> c, phase |-> "idle_asked"]},
             Report(c, from, to)
      PROVE  NextTypeOK' /\ ~Sending'
  <2>1. to \in CurrentType
    BY MaxCommandsAssumption DEF CurrentType, Phase, NoCommand, Command
  <2> QED
    BY <1>1, <1>3, <2>1, ReportTyped DEF Report, Sending, SendingPhases, NoCommand
<1>4. CASE IdleDoneSent(c)
  BY <1>2, <1>3, <1>4 DEF IdleDoneSent, EventIdleDoneSent, Return, Passes, Continue
<1>5. ASSUME NEW from \in {"sent", "auth_sent", "idle_sent"},
             NEW to \in {NoCommand, [cmd |-> c, phase |-> "auth"],
                         [cmd |-> c, phase |-> "idle_asked"]},
             Report(c, from, to), Start(c)
      PROVE  /\ NextTypeOK' /\ ~Sending'
             /\ \/ Passes /\ UNCHANGED consumed /\ event' = Ended("panic", 0)
                \/ Starts(c)
  <2>1. Sending /\ current.cmd = c /\ NextTypeOK' /\ ~Sending'
    BY <1>3, <1>5 DEF Report, Sending, SendingPhases
  <2> QED
    BY <1>5, <2>1 DEF Start, Starts, Panic, Passes
<1>6. CASE CommandSent(c) \/ AuthenticateStarted(c) \/ IdleCommandSent(c)
  BY <1>2, <1>5, <1>6
     DEF CommandSent, AuthenticateStarted, IdleCommandSent, EventCommandSent,
         EventAuthenticateStarted, EventIdleCommandSent
<1> QED
  BY <1>4, <1>6 DEF SendEvent

LEMMA ReceiveArms ==
    ASSUME MInv, NEW r, ReceiveEvent(r)
    PROVE  /\ r \in Responses /\ NextTypeOK' /\ VInv' /\ UNCHANGED <<issued, unsent>>
           /\ Sending' => Sending /\ current'.cmd = current.cmd
           /\ \/ \E name \in EventNames : Return(name)
              \/ Route(r)
              \/ Finishes(r)
<1>1. NextTypeOK /\ SchedTypeOK /\ VInv
  BY DEF MInv, TypeOK
<1>2. VInv' /\ Receive(r) /\ UNCHANGED <<issued, unsent>>
  BY <1>1, ArmsReceive, ReceiveVerdicts DEF Receive
<1>3. greeted \in BOOLEAN
  BY <1>1 DEF NextTypeOK
<1>4. ASSUME greeted' \in BOOLEAN, EngineGoesOn
      PROVE  r \in Responses /\ NextTypeOK' /\ (Sending' => Sending /\ current'.cmd = current.cmd)
  BY <1>1, <1>2, <1>4, EventsGoOn, ReceiveTyped
<1>5. ASSUME r.type = "tagged", FinishByHandle(r.id, r)
      PROVE  (\E name \in EventNames : Return(name)) \/ Finishes(r)
  BY <1>2, <1>5 DEF FinishByHandle, Finishes, Panic, Return, EventNames
<1>6. CASE CommandRejected(r) \/ AuthenticateStatusReceived(r) \/ IdleRejected(r)
  BY <1>2, <1>3, <1>4, <1>5, <1>6
     DEF CommandRejected, EventCommandRejected, LiteralRefused, IdleRejected,
         EventIdleRejected, IdleRefused, AuthenticateStatusReceived,
         EventAuthenticateStatusReceived, AuthenticateEnded, Ends, EngineGoesOn
<1>7. CASE DataReceived(r) \/ ContinuationRequestReceived(r) \/ StatusReceived(r)
  BY <1>2, <1>3, <1>4, <1>7
     DEF DataReceived, EventDataReceived, ContinuationRequestReceived, StatusReceived,
         EventContinuationRequestReceived, EventStatusReceived, engineVars, EngineGoesOn
<1>8. CASE TaggedReceived(r)
  BY <1>2, <1>3, <1>4, <1>8
     DEF TaggedReceived, EventStatusReceived, engineVars, EngineGoesOn, Finishes,
         remove_by_tag, remove_by_handle, EventNames
<1>9. ASSUME NEW c \in Command, AuthenticateContinuationRequestReceived(c, r)
      PROVE  /\ greeted' \in BOOLEAN /\ EngineGoesOn
             /\ \E name \in EventNames : Return(name)
  BY <1>3, <1>9
     DEF AuthenticateContinuationRequestReceived, set_authenticate_data, Moves,
         EventAuthenticateContinuationRequestReceived, Panic, Return, EventNames,
         EngineGoesOn
<1>10. CASE GreetingReceived(r) \/ (LiteralContinue(r) /\ Return("continue"))
  BY <1>2, <1>3, <1>4, <1>10
     DEF GreetingReceived, EventGreetingReceived, LiteralContinue, EventNames,
         EngineGoesOn, Moves
<1>11. CASE IdleAccepted(r) \/ MalformedMessage(r)
  BY <1>2, <1>3, <1>4, <1>11
     DEF IdleAccepted, EventIdleAccepted, MalformedMessage, ErrorMalformedMessage,
         engineVars, EventNames, EngineGoesOn, Moves
<1> QED
  BY <1>2, <1>4, <1>6, <1>7, <1>8, <1>9, <1>10, <1>11 DEF ReceiveEvent

\* The task of the command being sent moves from the waiting to the active.
LEMMA StartsMaps ==
    ASSUME MInv, NEW c, Starts(c), NextTypeOK', VInv', UNCHANGED <<issued, unsent>>
    PROVE  MInv'
<1>1. /\ waiting \in Seq(Command) /\ active \in Seq(Command) /\ c \in Command
      /\ Increasing(waiting) /\ Increasing(active) /\ Has(waiting, c)
      /\ Sending /\ current.cmd = c /\ ~Sending' /\ UNCHANGED <<consumed, output>>
  BY DEF MInv, TypeOK, SchedTypeOK, TasksAreOnce, Starts
<1>2. /\ waiting' \in Seq(Command) /\ Increasing(waiting')
      /\ \A d : Has(waiting', d) <=> Has(waiting, d) /\ d # c
  <2> DEFINE t == remove_by_handle(waiting, c)
  <2>1. /\ t \in Seq(Command) /\ Increasing(t)
        /\ \A d : Has(t, d) <=> Has(waiting, d) /\ d # c
    BY <1>1, RemoveProperties
  <2>2. waiting' = t
    BY DEF Starts
  <2> HIDE DEF t
  <2> QED
    BY <2>1, <2>2
<1>3. /\ active' \in Seq(Command) /\ Increasing(active')
      /\ \A d : Has(active', d) <=> Has(active, d) \/ d = c
  <2> DEFINE t == push_back(active, c)
  <2>1. \A d \in Command : Has(active, d) => d < c
    BY <1>1 DEF MInv, SendsInOrder
  <2>2. /\ t \in Seq(Command) /\ Increasing(t)
        /\ \A d : Has(t, d) <=> Has(active, d) \/ d = c
    BY <1>1, <2>1, PushBackProperties
  <2>3. active' = t
    BY DEF Starts
  <2> HIDE DEF t
  <2> QED
    BY <2>2, <2>3
<1>4. TypeOK'
  <2>1. event' \in [name : EventNames, cmd : 0..MaxCommands]
    BY MaxCommandsAssumption DEF Starts, Continue, Ended, EventNames
  <2> QED
    BY <1>1, <1>2, <1>3, <2>1 DEF MInv, TypeOK, SchedTypeOK
<1>5. TasksAreOnce'
  BY <1>1, <1>2, <1>3 DEF MInv, TasksAreOnce
<1>6. SendsInOrder'
  <2>1. \A d : Has(unsent', d) <=> Has(unsent, d)
    BY DEF Has
  <2> QED
    BY <1>1, <1>3, <2>1 DEF MInv, SendsInOrder
<1> QED
  BY <1>4, <1>5, <1>6 DEF MInv

\* A task leaves the active with its output.
LEMMA FinishesMaps ==
    ASSUME MInv, NEW r, Finishes(r), NextTypeOK', VInv', r \in Responses,
           UNCHANGED <<issued, unsent>>, Sending' => Sending /\ current'.cmd = current.cmd
    PROVE  MInv'
<1> DEFINE c == r.id
           o == process_tagged(kind[c], consumed[c], r)
<1>1. /\ active \in Seq(Command) /\ Increasing(active) /\ Has(active, c) /\ c \in Command
      /\ SchedTypeOK /\ NextTypeOK
      /\ active' = remove_by_handle(active, c) /\ output' = [output EXCEPT ![c] = o]
      /\ event' = Ended("TaskFinished", c) /\ UNCHANGED <<waiting, consumed>>
  <2>1. c \in Command
    BY MaxCommandsAssumption DEF Finishes, Responses, Command
  <2> QED
    BY <2>1 DEF MInv, TypeOK, SchedTypeOK, TasksAreOnce, Finishes, Finish
<1>2. /\ active' \in Seq(Command) /\ Increasing(active')
      /\ \A d : Has(active', d) <=> Has(active, d) /\ d # c
  <2> DEFINE t == remove_by_handle(active, c)
  <2>1. /\ t \in Seq(Command) /\ Increasing(t)
        /\ \A d : Has(t, d) <=> Has(active, d) /\ d # c
    BY <1>1, RemoveProperties
  <2>2. active' = t
    BY <1>1
  <2> HIDE DEF t
  <2> QED
    BY <2>1, <2>2
<1>3. o \in [verdict : Verdicts, items : SUBSET Responses]
  <2>1. c <= issued /\ issued \in Nat
    BY <1>1 DEF MInv, TasksAreOnce, NextTypeOK
  <2>2. kind[c] \in TaskKinds
    BY <1>1, <2>1, MaxCommandsAssumption DEF NextTypeOK, Command
  <2> QED
    BY <1>1, <2>2, ProcessTaggedTyped DEF SchedTypeOK, Finishes
<1> HIDE DEF o
<1>4. TypeOK'
  <2>1. event' \in [name : EventNames, cmd : 0..MaxCommands]
    BY <1>1, MaxCommandsAssumption DEF Ended, EventNames, Command
  <2> QED
    BY <1>1, <1>2, <1>3, <2>1 DEF TypeOK, SchedTypeOK
<1>5. TasksAreOnce'
  <2>1. \A d \in Command : d # c => output'[d] = output[d]
    BY <1>1 DEF SchedTypeOK
  <2>2. ~Has(waiting, c)
    BY <1>1 DEF MInv, TasksAreOnce
  <2> HIDE DEF c
  <2> QED
    BY <1>1, <1>2, <2>1, <2>2 DEF MInv, TasksAreOnce
<1>6. SendsInOrder'
  <2>1. \A d : Has(unsent', d) <=> Has(unsent, d)
    BY DEF Has
  <2> QED
    BY <1>2, <2>1 DEF MInv, SendsInOrder
<1> QED
  BY <1>4, <1>5, <1>6 DEF MInv

\* An iteration of progress().
LEMMA ProgressMaps ==
    ASSUME MInv, progress
    PROVE  MInv'
<1>1. NextTypeOK /\ SchedTypeOK
  BY DEF MInv, TypeOK
<1>2. ASSUME Passes, SchedTypeOK', NextTypeOK', VInv', UNCHANGED <<issued, unsent>>,
             Sending' => Sending /\ current'.cmd = current.cmd
      PROVE  MInv'
  BY <1>2, QuietMaps DEF MInv, TypeOK, Passes
<1>3. ASSUME NEW c \in Command, SendEvent(c) PROVE MInv'
  <2>1. /\ NextTypeOK' /\ VInv' /\ UNCHANGED <<issued, unsent>>
        /\ Sending' => Sending /\ current'.cmd = current.cmd
        /\ \/ Passes /\ UNCHANGED consumed /\ (event' = Continue \/ event' = Ended("panic", 0))
           \/ Starts(c)
    BY <1>3, SendArms
  <2>2. CASE Passes /\ UNCHANGED consumed /\ (event' = Continue \/ event' = Ended("panic", 0))
    <3>1. SchedTypeOK'
      BY <1>1, <2>2, MaxCommandsAssumption DEF Passes, SchedTypeOK, Continue, Ended, EventNames
    <3> QED
      BY <1>2, <2>1, <2>2, <3>1
  <2> QED
    BY <2>1, <2>2, StartsMaps
<1>4. ASSUME NEW r, ReceiveEvent(r) PROVE MInv'
  <2>1. /\ r \in Responses /\ NextTypeOK' /\ VInv' /\ UNCHANGED <<issued, unsent>>
        /\ Sending' => Sending /\ current'.cmd = current.cmd
        /\ (\E name \in EventNames : Return(name)) \/ Route(r) \/ Finishes(r)
    BY <1>4, ReceiveArms
  <2>2. CASE (\E name \in EventNames : Return(name)) \/ Route(r)
    <3>1. SchedTypeOK' /\ Passes
      BY <1>1, <2>1, <2>2, ReturnTyped, RouteTyped DEF Passes
    <3> QED
      BY <1>2, <2>1, <3>1
  <2> QED
    BY <2>1, <2>2, FinishesMaps
<1> QED
  BY <1>3, <1>4 DEF progress

\* The events of idle() and idle_done(), of which the scheduler is not told.
LEMMA IgnoredSentMaps ==
    ASSUME MInv, NEW c \in Command, IgnoredSent(c), UNCHANGED schedVars
    PROVE  MInv'
<1>1. NextTypeOK /\ greeted \in BOOLEAN
  BY DEF MInv, TypeOK, NextTypeOK
<1>2. ASSUME NEW from \in {"sent", "auth_sent", "idle_sent", "done_sent"},
             NEW to \in {NoCommand, [cmd |-> c, phase |-> "auth"],
                         [cmd |-> c, phase |-> "idle_asked"]},
             to.phase = "auth" => from = "auth_sent", Report(c, from, to)
      PROVE  MInv'
  <2>1. to \in CurrentType
    BY MaxCommandsAssumption DEF CurrentType, Phase, NoCommand, Command
  <2>2. CurrentGoesOn /\ ~Sending' /\ current' = to /\ greeted' = greeted /\ from \in Phase
    BY <1>2 DEF Report, CurrentGoesOn, Sending, SendingPhases, AuthPhases, NoCommand, Phase
  <2> QED
    BY <1>1, <1>2, <2>1, <2>2, IgnoredMaps
<1> QED
  BY <1>2
     DEF IgnoredSent, EventCommandSent, EventAuthenticateStarted, EventIdleCommandSent,
         EventIdleDoneSent, NoCommand

LEMMA IgnoredReceivedMaps ==
    ASSUME MInv, NEW r, Receive(r), UNCHANGED schedVars, UNCHANGED greeted, EngineGoesOn
    PROVE  MInv'
<1>1. NextTypeOK /\ greeted \in BOOLEAN
  BY DEF MInv, TypeOK, NextTypeOK
<1> QED
  BY <1>1, EventsGoOn, IgnoredMaps

LEMMA SetIdleDoneMaps ==
    ASSUME MInv, set_idle_done, NextUnchanged, UNCHANGED schedVars
    PROVE  MInv'
<1>1. NextTypeOK /\ greeted \in BOOLEAN /\ UNCHANGED greeted
  BY DEF MInv, TypeOK, NextTypeOK, NextUnchanged
<1>2. EngineGoesOn
  BY DEF set_idle_done, EngineGoesOn, Moves
<1> QED
  BY <1>1, <1>2, EventsGoOn, IgnoredMaps

\* What each event leaves of the engine.
LEMMA IdleEvents ==
    ASSUME NEW r,
           \/ IgnoredReceived(r) \/ DataEndsIdle(r) \/ EventIdleRejected(r)
           \/ EventDataReceived(r) \/ EndsIdle(r) \/ FailsIdle(r)
    PROVE  Receive(r) /\ UNCHANGED greeted /\ EngineGoesOn
<1>1. CASE IgnoredReceived(r)
  BY <1>1
     DEF IgnoredReceived, LiteralContinue, EventCommandRejected, EngineGoesOn, Moves,
         EventAuthenticateContinuationRequestReceived, EventAuthenticateStatusReceived,
         EventContinuationRequestReceived, EventStatusReceived, EventIdleAccepted, engineVars
<1>2. CASE DataEndsIdle(r)
  BY <1>2 DEF DataEndsIdle, set_idle_done, EngineGoesOn, Moves
<1>3. CASE EventIdleRejected(r)
  BY <1>3 DEF EventIdleRejected, EngineGoesOn
<1>4. CASE EventDataReceived(r) \/ EndsIdle(r) \/ FailsIdle(r)
  BY <1>4 DEF EventDataReceived, EndsIdle, FailsIdle, EventStatusReceived,
              ErrorMalformedMessage, engineVars, EngineGoesOn
<1> QED
  BY <1>1, <1>2, <1>3, <1>4

\* Every step of a session.
LEMMA SessionMaps ==
    ASSUME MInv, [SessionNext]_sessionVars
    PROVE  MInv'
<1>1. ASSUME NEW k \in Kinds, resolve(k) PROVE MInv'
  BY <1>1, KindsAssumption, EnqueueMaps DEF resolve, enqueue_task
<1>2. CASE enqueue_idle
  <2>1. "idle" \in TaskKinds
    BY DEF TaskKinds, Task
  <2> QED
    BY <1>2, <2>1, EnqueueMaps DEF enqueue_idle, schedVars
<1>3. CASE UNCHANGED vars
  <2>1. UNCHANGED schedVars /\ NextUnchanged /\ UNCHANGED current /\ UNCHANGED greeted
    BY <1>3 DEF vars, schedVars, NextUnchanged, serverVars
  <2>2. NextTypeOK /\ greeted \in BOOLEAN /\ EngineGoesOn
    BY <2>1 DEF MInv, TypeOK, NextTypeOK, EngineGoesOn
  <2> QED
    BY <2>1, <2>2, EventsGoOn, IgnoredMaps
<1>4. CASE idle_done_call \/ idle_timeout
  BY <1>4, SetIdleDoneMaps DEF idle_done_call, idle_timeout
<1>5. CASE ResolvingTask_next
  BY <1>5, ProgressMaps DEF ResolvingTask_next
<1>6. CASE idle \/ idle_done
  <2>1. UNCHANGED schedVars
    BY <1>6 DEF idle, idle_done
  <2>2. ASSUME NEW r,
               \/ IgnoredReceived(r) \/ DataEndsIdle(r) \/ EventIdleRejected(r)
               \/ EventDataReceived(r) \/ EndsIdle(r) \/ FailsIdle(r)
        PROVE  MInv'
    BY <2>1, <2>2, IdleEvents, IgnoredReceivedMaps
  <2> QED
    BY <1>6, <2>1, <2>2, IgnoredSentMaps DEF idle, idle_done
<1>7. CASE StreamWrite
  BY <1>7, WriteMaps DEF StreamWrite, WriteOutput
<1>8. CASE ServerStep
  BY <1>8, ServerMaps
<1> QED
  BY <1>1, <1>2, <1>3, <1>4, <1>5, <1>6, <1>7, <1>8
     DEF SessionNext, Step, idle_call, StreamRead, StreamClosed, Drop, AllCalled, sessionVars,
         vars

LEMMA SessionInvariance == SessionSpec => []MInv
<1>1. SessionInit => MInv
  BY InitMaps DEF SessionInit
<1>2. MInv /\ [SessionNext]_sessionVars => MInv'
  BY SessionMaps
<1> QED
  BY <1>1, <1>2, PTL DEF SessionSpec

-----------------------------------------------------------------------------
(* Sessions, with IDLE or without *)

\* Every variable of the engine and of the scheduler has its type in a session.
THEOREM SessionTypeCorrect == SessionSpec => []TypeOK
<1>1. MInv => TypeOK
  BY DEF MInv
<1> QED
  BY <1>1, SessionInvariance, PTL

\* A task ends with the verdict of its own command, even if calls were dropped in
\* the middle of theirs and events were met by idle() and idle_done(), which do
\* not tell the scheduler (tokio.rs:1195-1264).
THEOREM SessionVerdicts == SessionSpec => []VerdictIsTheServers
<1>1. MInv => VerdictIsTheServers
  BY DEF MInv, VInv, Decided
<1> QED
  BY <1>1, SessionInvariance, PTL

\* An output is final, whatever calls come after the one that was dropped.
THEOREM SessionFinal == SessionSpec => FinishedIsFinal
<1>1. ASSUME MInv, [SessionNext]_sessionVars
      PROVE  [\A c \in Command : output[c] # NoOutput =>
                 output'[c] = output[c] /\ consumed'[c] = consumed[c]]_vars
  <2>1. CASE progress
    BY <1>1, <2>1, FinalStep DEF Next, MInv, TypeOK, TasksAreOnce
  <2>2. CASE UNCHANGED <<output, consumed>>
    BY <2>2
  <2>3. CASE \E k \in Kinds : resolve(k)
    BY <2>2, <2>3 DEF resolve, enqueue_task
  <2>4. CASE enqueue_idle \/ idle_done_call \/ idle_timeout \/ idle \/ idle_done
    BY <2>2, <2>4 DEF enqueue_idle, idle_done_call, idle_timeout, idle, idle_done, schedVars
  <2>5. CASE StreamWrite \/ ServerStep
    BY <2>2, <2>5 DEF StreamWrite, WriteOutput, ServerStep, schedVars
  <2>6. CASE UNCHANGED vars
    BY <2>6
  <2> QED
    BY <1>1, <2>1, <2>3, <2>4, <2>5, <2>6
       DEF SessionNext, Step, idle_call, ResolvingTask_next, StreamRead, StreamClosed, Drop,
           AllCalled, sessionVars, vars
<1> QED
  BY <1>1, SessionInvariance, PTL DEF SessionSpec, FinishedIsFinal

-----------------------------------------------------------------------------
(* Sessions without IDLE *)

\* A program that leaves IDLE alone, in a Client and in tasks of its own.
NoIdle == ~UsesIdle /\ "idle" \notin Kinds

\* There is no IDLE to be awaited, and the call awaited has not been answered.
CallsAreTasks ==
    /\ issued \in 0..MaxCommands
    /\ \A c \in 1..issued : kind[c] # "idle"
    /\ caller = Free \/ (caller.op = "resolve" /\ caller.cmd \in 1..issued)

LEMMA SessionStep ==
    ASSUME NoIdle, CallsAreTasks, kind \in [Command -> TaskKinds \cup {"none"}],
           [SessionNext]_sessionVars
    PROVE  CallsAreTasks' /\ [Next]_vars
<1>1. IdleTags = {}
  BY DEF CallsAreTasks, IdleTags
<1>2. ASSUME UNCHANGED <<issued, kind>>, UNCHANGED caller \/ caller' = Free
      PROVE  CallsAreTasks'
  BY <1>2 DEF CallsAreTasks
<1>3. ASSUME NEW k \in Kinds, resolve(k), Alive PROVE CallsAreTasks' /\ Enqueue
  <2>1. /\ issued < MaxCommands /\ issued' = issued + 1 /\ kind' = [kind EXCEPT ![issued + 1] = k]
        /\ caller' = Call("resolve", issued + 1) /\ issued + 1 \in Command
    BY <1>3, MaxCommandsAssumption
       DEF resolve, enqueue_task, enqueue_command, CallsAreTasks, Command
  <2>2. \A c \in 1..issued + 1 : kind'[c] # "idle"
    <3>1. k # "idle"
      BY DEF NoIdle
    <3>2. \A c \in 1..issued + 1 : c = issued + 1 \/ (c \in 1..issued /\ c \in Command)
      BY <2>1, MaxCommandsAssumption DEF CallsAreTasks, Command
    <3>3. kind'[issued + 1] = k
      BY <2>1
    <3>4. \A c \in 1..issued : c \in Command /\ c # issued + 1 => kind'[c] = kind[c]
      BY <2>1
    <3> QED
      BY <3>1, <3>2, <3>3, <3>4 DEF CallsAreTasks
  <2>3. issued' \in 0..MaxCommands /\ issued + 1 \in 1..issued'
    BY <2>1, MaxCommandsAssumption DEF CallsAreTasks, Command
  <2> QED
    BY <1>3, <2>1, <2>2, <2>3 DEF CallsAreTasks, Call, Enqueue, resolve
<1>4. CASE ResolvingTask_next
  <2>1. UNCHANGED <<issued, kind>>
    <3>1. ASSUME NEW r, ReceiveEvent(r) PROVE UNCHANGED <<issued, kind>>
      BY <3>1, ArmsReceive DEF Receive
    <3> QED
      BY <1>4, <3>1
         DEF ResolvingTask_next, progress, SendEvent, CommandSent, AuthenticateStarted,
             IdleCommandSent, IdleDoneSent, EventCommandSent, EventAuthenticateStarted,
             EventIdleCommandSent, EventIdleDoneSent, Report
  <2>2. UNCHANGED caller \/ caller' = Free
    BY <1>4 DEF ResolvingTask_next, Resolved, Returns, Goes_on
  <2> QED
    BY <1>2, <1>4, <2>1, <2>2 DEF ResolvingTask_next, Next
<1>5. CASE StreamWrite
  BY <1>2, <1>5 DEF StreamWrite, WriteOutput, Write, Next
<1>6. CASE ServerStep /\ UNCHANGED callVars
  BY <1>2, <1>6
     DEF ServerStep, Server, Answer, GoAhead, AcceptIdle, Invite, Challenge, Provide,
         Complete, Volunteer, callVars, Next
<1>7. CASE StreamRead \/ StreamClosed \/ Drop \/ UNCHANGED sessionVars
  BY <1>2, <1>7 DEF StreamRead, StreamClosed, Drop, Returns, sessionVars, vars
<1>8. ~enqueue_idle /\ ~idle_call /\ ~idle_done_call /\ ~idle /\ ~idle_timeout /\ ~idle_done
  BY <1>1
     DEF NoIdle, enqueue_idle, idle_call, idle_done_call, idle, idle_timeout, idle_done,
         CallsAreTasks, Free
<1> QED
  BY <1>3, <1>4, <1>5, <1>6, <1>7, <1>8 DEF SessionNext, Step, AllCalled, Next

\* Without IDLE the steps of a session are steps of the scheduler, or leave it alone.
LEMMA SessionIsRun == NoIdle => (SessionSpec => Spec /\ []CallsAreTasks)
<1> SUFFICES ASSUME NoIdle PROVE SessionSpec => Spec /\ []CallsAreTasks
  OBVIOUS
<1>1. SessionInit => Init /\ CallsAreTasks
  BY MaxCommandsAssumption DEF SessionInit, CallsAreTasks, Init, NextInit
<1>2. MInv /\ CallsAreTasks /\ [SessionNext]_sessionVars => CallsAreTasks' /\ [Next]_vars
  BY SessionStep DEF MInv, TypeOK, NextTypeOK
<1> QED
  BY <1>1, <1>2, SessionInvariance, PTL DEF SessionSpec, Spec

\* Without IDLE a session is a run of the scheduler, however its calls are dropped
\* and its responses cut by the reads: every theorem about the scheduler is one
\* about the Client (Resolver::resolve, resolver.rs).
THEOREM SessionImplementsScheduler == NoIdle => (SessionSpec => Spec)
BY SessionIsRun

\* No response is unexpected: the answer to a command whose call was dropped still
\* finds its task among the active.
THEOREM SessionNoUnexpectedTagged == NoIdle => (SessionSpec => []NoUnexpectedTagged)
BY SessionIsRun, NoUnexpectedTaggedHolds

\* The answers reach their tasks, also those of calls that were dropped: what a
\* later call awaits is not disturbed by what an earlier one was given.
THEOREM SessionAnswers ==
    NoIdle /\ ~Reorders => (SessionSpec => []AnswersReachTheirTask /\ []LatestAnswerWins)
BY SessionIsRun, AnswersReachTheirTaskHolds, LatestAnswerWinsHolds

\* The task of each command reported as sent and not answered is among the active,
\* after any number of dropped calls.
THEOREM ActiveHoldsInProgressHolds == NoIdle => (SessionSpec => []ActiveHoldsInProgress)
<1>1. ASSUME IInv, VInv PROVE ActiveHoldsInProgress
  <2> SUFFICES ASSUME Alive, NEW c \in Command, Reported(c),
                      ~Answered(c) \/ VerdictsUnderWay(c) > 0
               PROVE  Has(active, c)
    BY DEF ActiveHoldsInProgress
  <2>1. ~Unwritten(c) /\ c # current.cmd
    BY <1>1, MaxCommandsAssumption
       DEF Reported, Unwritten, Has, Command, IInv, TypeOK, NextTypeOK
  <2>2. output[c] = NoOutput
    <3>1. CASE ~Answered(c)
      BY <1>1, <3>1 DEF VInv, Decided, OutputIsAnswer
    <3>2. CASE VerdictsUnderWay(c) > 0
      <4>1. {i \in DOMAIN wire : wire[i].type = "tagged" /\ wire[i].id = c} # {}
        BY <3>2, FS_EmptySet DEF VerdictsUnderWay
      <4>2. PICK i \in DOMAIN wire : wire[i].type = "tagged" /\ wire[i].id = c
        BY <4>1
      <4> QED
        BY <1>1, <4>2 DEF VInv, Decided, VerdictsAreOnce, Tagged
    <3> QED
      BY <3>1, <3>2
  <2> QED
    BY <1>1, <2>1, <2>2, WrittenHasItsTask
<1> QED
  BY <1>1, SessionIsRun, VerdictInvariance, PTL

\* The output of the task that is awaited has not been handed out.
AwaitedIsOpen == Alive /\ caller.op = "resolve" => output[caller.cmd] = NoOutput

LEMMA AwaitedStep ==
    ASSUME NoIdle, MInv, IInv, CallsAreTasks, AwaitedIsOpen, [SessionNext]_sessionVars
    PROVE  AwaitedIsOpen'
<1>1. IdleTags = {} /\ NextTypeOK /\ SchedTypeOK
  BY DEF CallsAreTasks, IdleTags, MInv, TypeOK
<1>2. ASSUME UNCHANGED <<output, event>>, UNCHANGED caller \/ caller' = Free
      PROVE  AwaitedIsOpen'
  BY <1>2 DEF AwaitedIsOpen, Alive, Free
<1>3. ASSUME NEW k \in Kinds, resolve(k), Alive PROVE AwaitedIsOpen'
  <2>1. /\ issued < MaxCommands /\ caller' = Call("resolve", issued + 1) /\ output' = output
        /\ issued \in Nat
    BY <1>1, <1>3, MaxCommandsAssumption DEF resolve, enqueue_task, enqueue_command, NextTypeOK
  <2>2. issued + 1 \in Command /\ ~(issued + 1 <= issued)
    BY <2>1, MaxCommandsAssumption DEF Command
  <2>3. output[issued + 1] = NoOutput
    BY <1>3, <2>2 DEF IInv, EveryCommandHasItsTask
  <2> QED
    BY <2>1, <2>3 DEF AwaitedIsOpen, Call
<1>4. CASE ResolvingTask_next
  <2> SUFFICES ASSUME Alive', caller'.op = "resolve"
               PROVE  output'[caller'.cmd] = NoOutput
    BY DEF AwaitedIsOpen
  <2>1. /\ progress /\ Resolved(caller.cmd) /\ caller.op = "resolve" /\ Alive
        /\ output[caller.cmd] = NoOutput
    BY <1>4 DEF ResolvingTask_next, progress, AwaitedIsOpen
  <2>2. UNCHANGED caller /\ event' # Ended("TaskFinished", caller.cmd)
    BY <2>1 DEF Resolved, Returns, Goes_on, Free
  <2>3. ASSUME NEW c \in Command, SendEvent(c) PROVE UNCHANGED output
    BY <2>3 DEF SendEvent, CommandSent, AuthenticateStarted, IdleCommandSent, IdleDoneSent,
                Start, Panic, Return
  <2>4. ASSUME NEW r, ReceiveEvent(r) PROVE output'[caller.cmd] = output[caller.cmd]
    <3>1. (\E name \in EventNames : Return(name)) \/ Route(r) \/ Finishes(r)
      BY <2>4, ReceiveArms
    <3>2. CASE (\E name \in EventNames : Return(name)) \/ Route(r)
      BY <3>2 DEF Return, Route
    <3>3. CASE Finishes(r)
      <4>1. r.id # caller.cmd
        BY <2>2, <3>3 DEF Finishes, Finish
      <4>2. caller.cmd \in Command
        BY <2>1, <1>1, MaxCommandsAssumption DEF CallsAreTasks, Free, Command
      <4> QED
        BY <1>1, <3>3, <4>1, <4>2 DEF Finishes, Finish, SchedTypeOK
    <3> QED
      BY <3>1, <3>2, <3>3
  <2> QED
    BY <2>1, <2>2, <2>3, <2>4 DEF progress
<1>5. CASE StreamWrite \/ (ServerStep /\ UNCHANGED callVars)
  BY <1>2, <1>5 DEF StreamWrite, WriteOutput, ServerStep, schedVars, callVars
<1>6. CASE StreamRead \/ StreamClosed \/ Drop \/ UNCHANGED sessionVars
  BY <1>2, <1>6 DEF StreamRead, StreamClosed, Drop, Returns, sessionVars, vars
<1>7. ~enqueue_idle /\ ~idle_call /\ ~idle_done_call /\ ~idle /\ ~idle_timeout /\ ~idle_done
  BY <1>1
     DEF NoIdle, enqueue_idle, idle_call, idle_done_call, idle, idle_timeout, idle_done,
         CallsAreTasks, Free
<1> QED
  BY <1>3, <1>4, <1>5, <1>6, <1>7 DEF SessionNext, Step, AllCalled

\* The task of the call awaited is in one of the maps until its verdict comes: its
\* token is never handed to another call, which would throw it away.
THEOREM AwaitedTaskIsPendingHolds == NoIdle => (SessionSpec => []AwaitedTaskIsPending)
<1> SUFFICES ASSUME NoIdle PROVE SessionSpec => []AwaitedTaskIsPending
  OBVIOUS
<1>1. SessionInit => AwaitedIsOpen
  BY DEF SessionInit, AwaitedIsOpen, Free
<1>2. MInv /\ IInv /\ CallsAreTasks /\ AwaitedIsOpen /\ [SessionNext]_sessionVars
        => AwaitedIsOpen'
  BY AwaitedStep
<1>3. IInv /\ CallsAreTasks /\ AwaitedIsOpen => AwaitedTaskIsPending
  BY MaxCommandsAssumption
     DEF IInv, TypeOK, NextTypeOK, EveryCommandHasItsTask, CallsAreTasks, AwaitedIsOpen,
         AwaitedTaskIsPending, Free, Command
<1> QED
  BY <1>1, <1>2, <1>3, SessionIsRun, Invariance, SessionInvariance, PTL DEF SessionSpec


-----------------------------------------------------------------------------
(* Sessions with IDLE: the engine and the server *)

\* The engine is in a phase of IDLE exactly while an IDLE holds the connection, and
\* the server works on an IDLE as on nothing else; an IDLE that the engine has not
\* met the answer to is one that the server may only accept or refuse.
IdlePhases == {"idle_sent", "idle_asked", "idling", "done", "done_sent"}
IdleStates == {"unknown", "idle_asked", "idling", "ending"} \cup Final
EngineIdles ==
    /\ current.phase = "none" => current = NoCommand
    /\ current.phase # "none" =>
          (kind[current.cmd] = "idle" <=> current.phase \in IdlePhases)
    /\ \A c \in Command : kind[c] = "idle" => server[c] \in IdleStates
    /\ current.phase \in {"idle_sent", "idle_asked"} =>
          server[current.cmd] \in {"idle_asked", "idling", "NO", "BAD"}
    /\ \A i \in DOMAIN wire : wire[i].id <= issued

\* The two sides agree on whether an IDLE has been accepted, but for the one
\* continuation request that says so and is still under way.
Asking(c) == current.cmd = c /\ current.phase \in {"idle_sent", "idle_asked"}
Accepts(r) == r.type = "continuation" /\ r.id \in Command /\ kind[r.id] = "idle"
Handshake ==
    /\ current.phase \in {"idling", "done"} => server[current.cmd] = "idling"
    /\ \A c \in Command : server[c] = "idle_asked" => Asking(c)
    /\ \A i \in DOMAIN wire : Accepts(wire[i]) =>
          /\ server[wire[i].id] = "idling" /\ Asking(wire[i].id)
          /\ \A j \in DOMAIN wire : Accepts(wire[j]) => j = i

\* A command that is over for the server, for the engine and on the wire.
IsOver(c) ==
    /\ Answered(c) /\ current.cmd # c
    /\ \A i \in DOMAIN wire : wire[i].type = "tagged" => wire[i].id # c

\* What every step keeps of an IDLE in the engine, at the server and on the wire.
EngineKeeps ==
    /\ EngineIdles'
    /\ Handshake => Handshake'
    /\ \A c \in Command : IsOver(c) => IsOver(c)'

\* IDLE is the one command that is written as IDLE is.
LEMMA IdleShape == \A k \in TaskKinds : Task[k].shape = "idle" <=> k = "idle"
<1>1. Plain.shape = "plain" /\ OwnIdleTask.shape = "idle"
  BY DEF Plain, OwnIdleTask
<1>2. /\ AppendTask.shape = "literal" /\ AppendUidTask.shape = "literal"
      /\ AuthenticateTask.shape = "auth" /\ OwnAuthenticateTask.shape = "auth"
  BY DEF Plain, AppendTask, AppendUidTask, AuthenticateTask, OwnAuthenticateTask
<1>3. /\ PostAppendNoOpTask.shape = "plain" /\ PostAppendCheckTask.shape = "plain"
      /\ CapabilityTask.shape = "plain" /\ EnableTask.shape = "plain"
      /\ ExpungeTask.shape = "plain" /\ FetchTask.shape = "plain"
      /\ FetchFirstTask.shape = "plain" /\ IdTask.shape = "plain"
      /\ ListTask.shape = "plain"
  BY DEF Plain, PostAppendNoOpTask, PostAppendCheckTask, CapabilityTask, EnableTask,
         ExpungeTask, FetchTask, FetchFirstTask, IdTask, ListTask
<1>4. /\ LoginTask.shape = "plain" /\ LogoutTask.shape = "plain"
      /\ SearchTask.shape = "plain" /\ SelectTask.shape = "plain"
      /\ SortTask.shape = "plain" /\ StoreTask.shape = "plain" /\ ThreadTask.shape = "plain"
  BY DEF Plain, LoginTask, LogoutTask, SearchTask, SelectTask, SortTask, StoreTask, ThreadTask
<1>5. /\ CheckTask.shape = "plain" /\ CopyTask.shape = "plain" /\ CreateTask.shape = "plain"
      /\ DeleteTask.shape = "plain" /\ MoveTask.shape = "plain" /\ NoOpTask.shape = "plain"
      /\ SilentStoreTask.shape = "plain"
  BY <1>1 DEF CheckTask, CopyTask, CreateTask, DeleteTask, MoveTask, NoOpTask,
              SilentStoreTask
<1> QED
  BY <1>1, <1>2, <1>3, <1>4, <1>5 DEF TaskKinds, Task

\* Before anything is sent no side knows of an IDLE.
LEMMA InitIdles == Init => EngineIdles /\ Handshake
<1> SUFFICES ASSUME Init PROVE EngineIdles /\ Handshake
  OBVIOUS
<1>1. \A i \in DOMAIN wire : wire[i].id = 0
  <2>1. CASE wire = <<>>
    BY <2>1
  <2>2. CASE wire = <<Greeting>>
    BY <2>2 DEF Greeting, Response
  <2> QED
    BY <2>1, <2>2 DEF Init, NextInit
<1> QED
  BY <1>1, MaxCommandsAssumption
     DEF Init, NextInit, EngineIdles, Handshake, NoCommand, Accepts, IdleStates, Command

\* What the command that holds the connection is.
LEMMA HolderIsWritten ==
    ASSUME MInv, current.phase # "none"
    PROVE  /\ current.cmd \in Command /\ current.cmd <= issued /\ ~Unwritten(current.cmd)
           /\ current.cmd \in Nat /\ issued \in Nat
BY MaxCommandsAssumption
   DEF MInv, TypeOK, NextTypeOK, VInv, Held, HeldIsWritten, Unwritten, Command

\* A new command is unknown to the engine and to the server.
LEMMA EnqueueIdles ==
    ASSUME MInv, EngineIdles, NEW k \in TaskKinds, enqueue_command(k)
    PROVE  EngineKeeps
<1> DEFINE n == issued + 1
<1>1. /\ issued' = n /\ kind' = [kind EXCEPT ![n] = k] /\ n \in Command /\ issued \in Nat
      /\ UNCHANGED <<current, wire, server>> /\ NextTypeOK /\ ~(n <= issued)
  BY MaxCommandsAssumption
     DEF enqueue_command, serverVars, MInv, TypeOK, NextTypeOK, Command
<1>2. server[n] = "unknown"
  BY <1>1 DEF MInv, VInv, Sent, UnwrittenIsUnknown, Unwritten
<1> HIDE DEF n
<1>3. \A d \in Command : d # n => kind'[d] = kind[d]
  BY <1>1 DEF NextTypeOK
<1>4. current.phase # "none" => current.cmd \in Command /\ current.cmd # n
  BY <1>1, HolderIsWritten
<1>5. \A i \in DOMAIN wire : wire[i].id # n /\ wire[i].id <= issued'
  <2> SUFFICES ASSUME NEW i \in DOMAIN wire PROVE wire[i].id # n /\ wire[i].id <= issued'
    OBVIOUS
  <2>1. wire[i].id <= issued /\ wire[i].id \in Nat
    BY <1>1, MaxCommandsAssumption DEF EngineIdles, NextTypeOK, Responses
  <2> QED
    BY <1>1, <2>1 DEF n
<1>6. EngineIdles'
  <2>1. \A c \in Command : kind'[c] = "idle" => server[c] \in IdleStates
    BY <1>2, <1>3 DEF EngineIdles, IdleStates
  <2> QED
    BY <1>1, <1>3, <1>4, <1>5, <2>1 DEF EngineIdles
<1>7. \A i \in DOMAIN wire : Accepts(wire[i])' <=> Accepts(wire[i])
  BY <1>1, <1>3, <1>5 DEF Accepts
<1>8. Handshake => Handshake'
  BY <1>1, <1>7 DEF Handshake, Asking
<1>9. \A c \in Command : IsOver(c) => IsOver(c)'
  BY <1>1 DEF IsOver, Answered
<1> QED
  BY <1>6, <1>8, <1>9 DEF EngineKeeps

\* A command is written: the server has then read of it what the engine wrote.
LEMMA WriteIdles ==
    ASSUME MInv, EngineIdles, Write
    PROVE  EngineKeeps
<1>1. /\ UNCHANGED <<issued, kind, wire>> /\ NextTypeOK
      /\ unsent \in Seq(Command) /\ server \in [Command -> ServerPhase]
  BY DEF Write, MInv, TypeOK, NextTypeOK
<1>2. CASE WriteCommand
  <2>1. unsent # <<>> /\ Head(unsent) \in Command
    BY <1>1, <1>2, HeadAndTail DEF WriteCommand
  <2>2. PICK c \in Command : c = Head(unsent)
    BY <2>1
  <2>3. /\ current'.cmd = c /\ current'.phase = FirstPhase(kind[c])
        /\ server' = [server EXCEPT ![c] = FirstServerPhase(kind[c])]
        /\ current.phase = "none"
    BY <1>2, <2>2 DEF WriteCommand
  <2>4. Has(unsent, c)
    BY <1>1, <2>1, <2>2, HeadAndTail DEF Has
  <2>5. server[c] = "unknown"
    BY <2>4 DEF MInv, VInv, Sent, UnwrittenIsUnknown, Unwritten
  <2>6. kind[c] \in TaskKinds
    BY <1>2, <2>2, <1>1, WriteCommandPhases DEF MInv, VInv, Sent, UnsentInOrder
  <2>7. /\ kind[c] = "idle" => FirstPhase(kind[c]) = "idle_sent"
                               /\ FirstServerPhase(kind[c]) = "idle_asked"
        /\ kind[c] # "idle" => FirstPhase(kind[c]) \in {"sent", "literal", "auth_sent"}
                               /\ FirstServerPhase(kind[c]) \in {"working", "partial", "auth"}
    <3>1. /\ Task[kind[c]].shape \in {"plain", "literal", "auth", "idle"}
          /\ Task[kind[c]].shape = "idle" <=> kind[c] = "idle"
      BY <2>6, TasksTyped, IdleShape DEF TaskType
    <3> QED
      BY <3>1 DEF FirstPhase, FirstServerPhase
  <2> DEFINE p == FirstServerPhase(kind[c])
             q == FirstPhase(kind[c])
  <2> HIDE DEF p, q
  <2>8. server'[c] = p /\ \A d \in Command : d # c => server'[d] = server[d]
    BY <1>1, <2>3 DEF p
  <2>9. EngineIdles'
    <3>1. \A d \in Command : kind[d] = "idle" => server'[d] \in IdleStates
      BY <2>7, <2>8 DEF EngineIdles, IdleStates, p
    <3> QED
      BY <1>1, <2>3, <2>7, <2>8, <3>1 DEF EngineIdles, IdlePhases, p
  <2>10. ASSUME Handshake PROVE Handshake'
    <3>1. \A i \in DOMAIN wire : ~Accepts(wire[i])
      BY <2>3, <2>10 DEF Handshake, Asking
    <3>2. \A d \in Command : server[d] # "idle_asked"
      BY <2>3, <2>10 DEF Handshake, Asking
    <3>3. \A d \in Command : server'[d] = "idle_asked" => d = c /\ q = "idle_sent"
      BY <2>7, <2>8, <3>2 DEF p, q
    <3>4. q \notin {"idling", "done"}
      BY <2>7 DEF q
    <3> QED
      BY <1>1, <2>3, <3>1, <3>3, <3>4 DEF Handshake, Asking, Accepts, q
  <2>11. \A d \in Command : IsOver(d) => IsOver(d)'
    BY <1>1, <2>3, <2>5, <2>8 DEF IsOver, Answered
  <2> QED
    BY <2>9, <2>10, <2>11 DEF EngineKeeps
<1>3. CASE WriteRest \/ WriteAuthenticateData \/ WriteDone
  <2>1. PICK c \in Command : c = current.cmd
    BY <1>3, HolderIsWritten DEF WriteRest, WriteAuthenticateData, WriteDone
  <2>2. /\ current'.cmd = c
        /\ \/ current.phase = "rest" /\ current'.phase = "sent"
           \/ current.phase = "auth_data" /\ current'.phase = "auth"
           \/ current.phase = "done" /\ current'.phase = "done_sent"
    BY <1>1, <1>3, <2>1 DEF WriteRest, WriteAuthenticateData, WriteDone, NextTypeOK
  <2>3. /\ \A d \in Command : d # c => server'[d] = server[d]
        /\ server'[c] \in {server[c], "working", "auth", "ending"}
        /\ current.phase = "done" => server'[c] \in {server[c], "ending"}
    BY <1>1, <1>3, <2>1 DEF WriteRest, WriteAuthenticateData, WriteDone
  <2>4. EngineIdles'
    <3>1. \A d \in Command : kind[d] = "idle" => server'[d] \in IdleStates
      BY <2>1, <2>2, <2>3 DEF EngineIdles, IdleStates, IdlePhases
    <3> QED
      BY <1>1, <2>1, <2>2, <3>1 DEF EngineIdles, IdlePhases
  <2>5. ASSUME Handshake PROVE Handshake'
    <3>1. \A i \in DOMAIN wire : ~Accepts(wire[i])
      BY <2>2, <2>5 DEF Handshake, Asking
    <3>2. \A d \in Command : server[d] # "idle_asked"
      BY <2>2, <2>5 DEF Handshake, Asking
    <3>3. \A d \in Command : server'[d] # "idle_asked"
      BY <2>3, <3>2
    <3> QED
      BY <1>1, <2>2, <3>1, <3>3 DEF Handshake, Asking, Accepts
  <2>6. \A d \in Command : IsOver(d) => IsOver(d)'
    BY <1>1, <2>1, <2>2, <2>3 DEF IsOver, Answered
  <2> QED
    BY <2>4, <2>5, <2>6 DEF EngineKeeps
<1> QED
  BY <1>2, <1>3 DEF Write

\* What the server makes of a command: it leaves an IDLE it has accepted alone.
ServerGoesOnWith(c) ==
    \/ server' = server
    \/ \E s : /\ server' = [server EXCEPT ![c] = s] /\ s # "idle_asked"
              /\ server[c] \notin Final \cup {"idling"}
              /\ kind[c] = "idle" => s \in IdleStates
              /\ server[c] = "idle_asked" => s \in {"idling", "NO", "BAD"}

\* The server says something, for a command or on its own.
LEMMA SayIdles ==
    ASSUME MInv, EngineIdles, NEW c \in Command, NEW r, r.id \in {0, c}, r.id <= issued,
           UNCHANGED <<issued, kind, current>>, wire' = wire \/ wire' = Append(wire, r),
           ServerGoesOnWith(c),
           r.type = "tagged" => r.id = c /\ server[c] \notin Final,
           Accepts(r) => server[c] = "idle_asked" /\ server'[c] = "idling"
    PROVE  EngineKeeps
<1> DEFINE n == Len(wire)
<1>1. /\ NextTypeOK /\ wire \in Seq(Responses) /\ server \in [Command -> ServerPhase]
      /\ issued \in Nat /\ c \in Nat /\ c # 0
  BY MaxCommandsAssumption DEF MInv, TypeOK, NextTypeOK, Command
<1>2. /\ n \in Nat /\ DOMAIN wire = 1..n
      /\ \/ DOMAIN wire' = 1..n
         \/ DOMAIN wire' = 1..n + 1 /\ wire'[n + 1] = r
      /\ \A i \in 1..n : wire'[i] = wire[i]
  BY <1>1, AppendProperties
<1> HIDE DEF n
<1>3. \A i \in DOMAIN wire' : \/ i \in 1..n /\ wire'[i] = wire[i]
                              \/ i = n + 1 /\ wire'[i] = r
  BY <1>2
<1>4. \A d \in Command : d # c => server'[d] = server[d]
  BY <1>1 DEF ServerGoesOnWith
<1>5. /\ server[c] \in Final \cup {"idling"} => server'[c] = server[c]
      /\ server'[c] = "idle_asked" => server[c] = "idle_asked"
      /\ kind[c] = "idle" => server'[c] \in IdleStates
      /\ server[c] = "idle_asked" => server'[c] \in {"idle_asked", "idling", "NO", "BAD"}
  BY <1>1 DEF EngineIdles, ServerGoesOnWith
<1>6. EngineIdles'
  <2>1. \A i \in DOMAIN wire' : wire'[i].id <= issued
    BY <1>1, <1>2, <1>3 DEF EngineIdles
  <2>2. current.phase \in {"idle_sent", "idle_asked"} =>
           server'[current.cmd] \in {"idle_asked", "idling", "NO", "BAD"}
    BY <1>4, <1>5, HolderIsWritten DEF EngineIdles, Final
  <2>3. \A d \in Command : kind[d] = "idle" => server'[d] \in IdleStates
    BY <1>4, <1>5 DEF EngineIdles
  <2> QED
    BY <2>1, <2>2, <2>3 DEF EngineIdles
<1>7. ASSUME Handshake PROVE Handshake'
  <2>1. current.phase \in {"idling", "done"} => server'[current.cmd] = "idling"
    BY <1>4, <1>5, <1>7, HolderIsWritten DEF Handshake
  <2>2. \A d \in Command : server'[d] = "idle_asked" => Asking(d)
    BY <1>4, <1>5, <1>7 DEF Handshake
  <2>3. \A i \in 1..n : Accepts(wire[i]) =>
           /\ server[wire[i].id] = "idling" /\ Asking(wire[i].id) /\ wire[i].id \in Command
           /\ \A j \in 1..n : Accepts(wire[j]) => j = i
    BY <1>2, <1>7 DEF Handshake, Accepts
  <2>4. \A i \in 1..n : Accepts(wire[i]) =>
           server'[wire[i].id] = "idling" /\ ~Accepts(r)
    <3> SUFFICES ASSUME NEW i \in 1..n, Accepts(wire[i])
                 PROVE  server'[wire[i].id] = "idling" /\ ~Accepts(r)
      OBVIOUS
    <3>1. server'[wire[i].id] = "idling"
      BY <1>4, <1>5, <2>3
    <3>2. ASSUME Accepts(r) PROVE FALSE
      <4>1. server[c] = "idle_asked" /\ Asking(c)
        BY <1>7, <3>2 DEF Handshake
      <4>2. wire[i].id = c
        BY <2>3, <4>1 DEF Asking
      <4> QED
        BY <2>3, <4>1, <4>2
    <3> QED
      BY <3>1, <3>2
  <2>5. Accepts(r) => r.id = c /\ server'[c] = "idling" /\ Asking(c)
    BY <1>1, <1>7 DEF Handshake, Accepts, Command
  <2>6. \A i \in DOMAIN wire' : Accepts(wire'[i]) =>
           /\ server'[wire'[i].id] = "idling" /\ Asking(wire'[i].id)
           /\ \A j \in DOMAIN wire' : Accepts(wire'[j]) => j = i
    BY <1>3, <2>3, <2>4, <2>5
  <2> QED
    BY <2>1, <2>2, <2>6 DEF Handshake, Asking, Accepts
<1>8. \A d \in Command : IsOver(d) => IsOver(d)'
  BY <1>3, <1>2, <1>4, <1>5 DEF IsOver, Answered, Final
<1> QED
  BY <1>6, <1>7, <1>8 DEF EngineKeeps

\* Every step of the server.
LEMMA ServerIdles ==
    ASSUME MInv, EngineIdles, Server
    PROVE  EngineKeeps
<1>1. /\ UNCHANGED <<issued, kind, current>> /\ NextTypeOK
      /\ server \in [Command -> ServerPhase]
  BY DEF Server, Answer, GoAhead, AcceptIdle, Invite, Challenge, Provide, Complete, Volunteer,
         MInv, TypeOK, NextTypeOK
<1>2. ASSUME NEW c \in 1..issued, Answer(c) PROVE EngineKeeps
  <2>1. c \in Command /\ c <= issued
    BY <1>1, MaxCommandsAssumption DEF NextTypeOK, Command
  <2>2. kind[c] = "idle" => server[c] \in IdleStates
    BY <2>1 DEF EngineIdles
  <2>3. CASE GoAhead(c) \/ AcceptIdle(c) \/ Challenge(c)
    <3> DEFINE r == Response("continuation", "-", "-", c, 0)
    <3>1. /\ wire' = Append(wire, r)
          /\ \/ server[c] = "partial" /\ server' = [server EXCEPT ![c] = "invited"]
             \/ server[c] = "idle_asked" /\ server' = [server EXCEPT ![c] = "idling"]
             \/ server[c] = "auth" /\ server' = [server EXCEPT ![c] = "challenged"]
      BY <2>3 DEF GoAhead, AcceptIdle, Challenge, Invite, Say
    <3>2. r.type = "continuation" /\ r.id = c
      BY DEF Response
    <3> HIDE DEF r
    <3>3. server[c] # "idle_asked" => kind[c] # "idle"
      BY <2>2, <3>1 DEF IdleStates, Final
    <3>4. Accepts(r) => server[c] = "idle_asked" /\ server'[c] = "idling"
      BY <1>1, <2>1, <3>1, <3>2, <3>3 DEF Accepts
    <3>5. ServerGoesOnWith(c)
      BY <3>1, <3>3 DEF ServerGoesOnWith, IdleStates, Final
    <3>6. (r.type = "tagged" => r.id = c /\ server[c] \notin Final) /\ r.id \in {0, c}
          /\ r.id <= issued
      BY <2>1, <3>2
    <3> QED
      BY <1>1, <2>1, <3>1, <3>4, <3>5, <3>6, SayIdles
  <2>4. ASSUME NEW a \in Wanted(kind[c]), Provide(c, a) PROVE EngineKeeps
    <3> DEFINE r == Response(a[1], a[2], a[3], c, Len(given[c]) + 1)
    <3>1. server' = server /\ wire' = Append(wire, r)
      BY <2>4 DEF Provide
    <3>2. a[1] \in {"data", "untagged", "bye"}
      BY DEF Wanted
    <3>3. r.type # "tagged" /\ ~Accepts(r) /\ r.id = c
      BY <3>2 DEF Response, Accepts
    <3> HIDE DEF r
    <3> QED
      BY <1>1, <2>1, <3>1, <3>3, SayIdles DEF ServerGoesOnWith
  <2>5. ASSUME NEW s \in {"OK", "NO", "BAD"}, NEW code, Complete(c, s, code)
        PROVE  EngineKeeps
    <3> DEFINE r == Response("tagged", s, code, c, Len(given[c]) + 1)
    <3>1. Verdict(c, s) /\ server' = [server EXCEPT ![c] = s] /\ wire' = Append(wire, r)
      BY <2>5 DEF Complete, Say
    <3>2. r.type = "tagged" /\ r.id = c /\ ~Accepts(r)
      BY DEF Response, Accepts
    <3> HIDE DEF r
    <3>3. /\ server[c] \notin Final \cup {"idling"} /\ s \in IdleStates /\ s # "idle_asked"
          /\ server[c] = "idle_asked" => s \in {"idling", "NO", "BAD"}
      BY <3>1 DEF Verdict, Final, IdleStates
    <3>4. ServerGoesOnWith(c)
      BY <3>1, <3>3 DEF ServerGoesOnWith
    <3>5. (r.type = "tagged" => r.id = c /\ server[c] \notin Final) /\ r.id \in {0, c}
          /\ r.id <= issued
      BY <2>1, <3>2, <3>3
    <3> QED
      BY <1>1, <2>1, <3>1, <3>2, <3>4, <3>5, SayIdles
  <2> QED
    BY <1>2, <2>3, <2>4, <2>5 DEF Answer
<1>3. ASSUME NEW v \in Volunteered, Volunteer(v) PROVE EngineKeeps
  <2> DEFINE r == Response(v[1], v[2], v[3], 0, 0)
  <2>1. server' = server /\ (wire' = wire \/ wire' = Append(wire, r))
    BY <1>3 DEF Volunteer, Say
  <2>2. r.type # "tagged" /\ r.id = 0 /\ ~Accepts(r)
    BY VolunteeredAssumption DEF Response, Accepts, Command
  <2> HIDE DEF r
  <2>3. 1 \in Command /\ r.id <= issued
    BY <1>1, <2>2, MaxCommandsAssumption DEF NextTypeOK, Command
  <2> QED
    BY <1>1, <2>1, <2>2, <2>3, SayIdles DEF ServerGoesOnWith
<1> QED
  BY <1>2, <1>3 DEF Server

\* The engine reports what it has sent.
LEMMA ReportIdles ==
    ASSUME MInv, EngineIdles, NEW c \in Command, IgnoredSent(c)
    PROVE  EngineKeeps
<1>1. /\ UNCHANGED <<issued, kind, wire, server>>
      /\ \/ /\ current = [cmd |-> c, phase |-> "sent"] /\ current' = NoCommand
         \/ /\ current = [cmd |-> c, phase |-> "auth_sent"]
            /\ current' = [cmd |-> c, phase |-> "auth"]
         \/ /\ current = [cmd |-> c, phase |-> "idle_sent"]
            /\ current' = [cmd |-> c, phase |-> "idle_asked"]
         \/ /\ current = [cmd |-> c, phase |-> "done_sent"] /\ current' = NoCommand
  BY DEF IgnoredSent, EventCommandSent, EventAuthenticateStarted, EventIdleCommandSent,
         EventIdleDoneSent, Report, serverVars
<1>2. /\ current.cmd = c /\ c # 0
      /\ \/ current.phase \in {"sent", "done_sent"} /\ current' = NoCommand
         \/ current.phase = "auth_sent" /\ current'.phase = "auth" /\ current'.cmd = c
         \/ current.phase = "idle_sent" /\ current'.phase = "idle_asked" /\ current'.cmd = c
  BY <1>1, MaxCommandsAssumption DEF Command
<1>3. EngineIdles'
  BY <1>1, <1>2 DEF EngineIdles, IdlePhases, NoCommand
<1>4. Handshake => Handshake'
  BY <1>1, <1>2 DEF Handshake, Asking, Accepts, NoCommand
<1>5. \A d \in Command : IsOver(d) => IsOver(d)'
  BY <1>1, <1>2, MaxCommandsAssumption DEF IsOver, Answered, NoCommand, Command
<1> QED
  BY <1>3, <1>4, <1>5 DEF EngineKeeps

\* What the engine makes of a response, and of set_idle_done.
EngineMeets(r) ==
    \/ UNCHANGED current
    \/ current' = NoCommand /\ r.type = "tagged" /\ r.id = current.cmd
    \/ Moves("literal", "rest") \/ Moves("auth", "auth_data")
    \/ Moves("idle_asked", "idling") /\ r.type = "continuation"
    \/ Moves("idling", "done")

\* The engine meets a response, and the continuation request only as the engine asks.
LEMMA ReceiveIdles ==
    ASSUME MInv, EngineIdles, NEW r, Receive(r), EngineMeets(r)
    PROVE  /\ EngineIdles'
           /\ (r.type = "continuation" => r.id = current.cmd) => EngineKeeps
<1>1. /\ UNCHANGED <<issued, kind, server>> /\ wire # <<>> /\ wire' = Tail(wire)
      /\ r = Head(wire) /\ NextTypeOK /\ current \in CurrentType
  BY DEF Receive, CanReceive, serverVars, MInv, TypeOK, NextTypeOK, CurrentType
<1>2. /\ r = wire[1] /\ 1 \in DOMAIN wire /\ r \in Responses
      /\ \A i \in DOMAIN wire' : /\ i \in Nat /\ i + 1 \in DOMAIN wire
                                 /\ wire'[i] = wire[i + 1] /\ i # 0
  <2>1. wire' \in Seq(Responses)
    BY <1>1, TailOfWire
  <2>2. \A i \in DOMAIN wire' : i # 0
    BY <2>1
  <2> QED
    BY <1>1, <2>2, TailOfWire
<1>3. \/ UNCHANGED current
      \/ /\ current' = NoCommand /\ r.type = "tagged" /\ r.id = current.cmd
      \/ /\ current'.cmd = current.cmd
         /\ \/ current.phase = "literal" /\ current'.phase = "rest"
            \/ current.phase = "auth" /\ current'.phase = "auth_data"
            \/ /\ current.phase = "idle_asked" /\ current'.phase = "idling"
               /\ r.type = "continuation"
            \/ current.phase = "idling" /\ current'.phase = "done"
  BY <1>1 DEF EngineMeets, Moves, CurrentType
<1>4. EngineIdles'
  <2>1. \A i \in DOMAIN wire' : wire'[i].id <= issued
    BY <1>2 DEF EngineIdles
  <2> QED
    BY <1>1, <1>3, <2>1 DEF EngineIdles, IdlePhases, NoCommand
<1>5. ASSUME Handshake, r.type = "continuation" => r.id = current.cmd PROVE Handshake'
  <2>1. \A i \in DOMAIN wire' : Accepts(wire'[i]) =>
           /\ server[wire'[i].id] = "idling" /\ Asking(wire'[i].id) /\ ~Accepts(r)
           /\ \A j \in DOMAIN wire' : Accepts(wire'[j]) => j = i
    <3> SUFFICES ASSUME NEW i \in DOMAIN wire', Accepts(wire'[i])
                 PROVE  /\ server[wire'[i].id] = "idling" /\ Asking(wire'[i].id) /\ ~Accepts(r)
                        /\ \A j \in DOMAIN wire' : Accepts(wire'[j]) => j = i
      OBVIOUS
    <3>1. i + 1 \in DOMAIN wire /\ wire'[i] = wire[i + 1] /\ i \in Nat /\ i # 0
      BY <1>2
    <3>2. /\ server[wire[i + 1].id] = "idling" /\ Asking(wire[i + 1].id)
          /\ \A j \in DOMAIN wire : Accepts(wire[j]) => j = i + 1
      BY <1>5, <3>1 DEF Handshake
    <3>3. ~Accepts(r)
      BY <1>2, <3>1, <3>2
    <3>4. \A j \in DOMAIN wire' : Accepts(wire'[j]) => j = i
      BY <1>2, <3>1, <3>2
    <3> QED
      BY <3>1, <3>2, <3>3, <3>4
  <2>3. CASE UNCHANGED current
    BY <1>1, <1>5, <2>1, <2>3 DEF Handshake, Asking, Accepts
  <2>4. CASE current' = NoCommand /\ r.type = "tagged" /\ r.id = current.cmd
    <3>1. server[current.cmd] \in Final
      BY <2>4, TaggedIsVerdict DEF MInv, TypeOK
    <3>2. \A c \in Command : ~(Asking(c) /\ server[c] \in {"idle_asked", "idling"})
      BY <3>1 DEF Asking, Final
    <3>3. \A i \in DOMAIN wire' : ~Accepts(wire'[i])
      BY <2>1, <3>2 DEF Accepts
    <3>4. \A c \in Command : server[c] # "idle_asked"
      BY <1>5, <3>2 DEF Handshake
    <3> QED
      BY <1>1, <2>4, <3>3, <3>4 DEF Handshake, NoCommand, Accepts
  <2>5. CASE current.phase = "idle_asked" /\ current'.phase = "idling"
               /\ r.type = "continuation" /\ current'.cmd = current.cmd
    <3>1. r.id = current.cmd /\ current.cmd \in Command /\ Accepts(r)
      BY <1>5, <2>5, HolderIsWritten DEF Accepts, EngineIdles, IdlePhases
    <3>2. server[current.cmd] = "idling"
      BY <1>2, <1>5, <3>1 DEF Handshake
    <3>3. \A c \in Command : server[c] # "idle_asked"
      BY <1>5, <3>2 DEF Handshake, Asking
    <3>4. \A i \in DOMAIN wire' : ~Accepts(wire'[i])
      BY <2>1, <3>1
    <3> QED
      BY <1>1, <2>5, <3>2, <3>3, <3>4 DEF Handshake, Asking, Accepts
  <2>6. CASE /\ current'.cmd = current.cmd
             /\ \/ current.phase = "literal" /\ current'.phase = "rest"
                \/ current.phase = "auth" /\ current'.phase = "auth_data"
                \/ current.phase = "idling" /\ current'.phase = "done"
    <3>1. \A c : ~Asking(c)
      BY <2>6 DEF Asking
    <3> QED
      BY <1>1, <1>5, <2>1, <2>6, <3>1 DEF Handshake, Accepts
  <2> QED
    BY <1>3, <2>3, <2>4, <2>5, <2>6
<1>6. \A d \in Command : IsOver(d) => IsOver(d)'
  <2>1. current'.cmd \in {current.cmd, 0} /\ 0 \notin Command
    BY <1>3 DEF NoCommand, Command
  <2> QED
    BY <1>1, <1>2, <2>1 DEF IsOver, Answered
<1> QED
  BY <1>4, <1>5, <1>6 DEF EngineKeeps

\* set_idle_done, when nothing is received.
LEMMA SetIdleDoneIdles ==
    ASSUME MInv, EngineIdles, set_idle_done, NextUnchanged
    PROVE  EngineKeeps
<1>1. /\ UNCHANGED <<issued, kind, wire, server>>
      /\ \/ UNCHANGED current
         \/ /\ current.phase = "idling" /\ current'.phase = "done"
            /\ current'.cmd = current.cmd
  BY DEF set_idle_done, NextUnchanged, serverVars, MInv, TypeOK, NextTypeOK
<1>2. EngineIdles' /\ (Handshake => Handshake')
  BY <1>1 DEF EngineIdles, IdlePhases, Handshake, Asking, Accepts
<1>3. \A d \in Command : IsOver(d) => IsOver(d)'
  BY <1>1 DEF IsOver, Answered
<1> QED
  BY <1>2, <1>3 DEF EngineKeeps

\* What the arms of idle() and idle_done() leave of the engine.
LEMMA IdleArmsMeet ==
    ASSUME NEW r,
           \/ IgnoredReceived(r) \/ DataEndsIdle(r) \/ EventIdleRejected(r)
           \/ EventDataReceived(r) \/ EndsIdle(r) \/ FailsIdle(r)
    PROVE  Receive(r) /\ EngineMeets(r)
<1>1. CASE IgnoredReceived(r)
  BY <1>1
     DEF IgnoredReceived, LiteralContinue, EventCommandRejected, EngineMeets, Moves,
         EventAuthenticateContinuationRequestReceived, EventAuthenticateStatusReceived,
         EventContinuationRequestReceived, EventStatusReceived, EventIdleAccepted, engineVars,
         LiteralRefused, AuthenticateEnded, Ends
<1>2. CASE DataEndsIdle(r)
  BY <1>2 DEF DataEndsIdle, set_idle_done, EngineMeets, Moves
<1>3. CASE EventIdleRejected(r)
  BY <1>3 DEF EventIdleRejected, EngineMeets, IdleRefused, Ends
<1>4. CASE EventDataReceived(r) \/ EndsIdle(r) \/ FailsIdle(r)
  BY <1>4 DEF EventDataReceived, EndsIdle, FailsIdle, EventStatusReceived,
              ErrorMalformedMessage, engineVars, EngineMeets
<1> QED
  BY <1>1, <1>2, <1>3, <1>4

\* What the arms of progress() leave of it.
LEMMA SchedulerArmsMeet ==
    ASSUME NEW r, ReceiveEvent(r)
    PROVE  Receive(r) /\ EngineMeets(r)
<1>1. Receive(r)
  BY ArmsReceive
<1>2. CASE GreetingReceived(r) \/ LiteralContinue(r) \/ CommandRejected(r)
  BY <1>2 DEF GreetingReceived, EventGreetingReceived, LiteralContinue, CommandRejected,
              EventCommandRejected, LiteralRefused, Ends, EngineMeets, Moves
<1>3. ASSUME NEW c \in Command, AuthenticateContinuationRequestReceived(c, r)
      PROVE  EngineMeets(r)
  BY <1>3 DEF AuthenticateContinuationRequestReceived, set_authenticate_data, Moves,
              EventAuthenticateContinuationRequestReceived, EngineMeets
<1>4. CASE AuthenticateStatusReceived(r) \/ DataReceived(r) \/ ContinuationRequestReceived(r)
  BY <1>4 DEF AuthenticateStatusReceived, EventAuthenticateStatusReceived, AuthenticateEnded,
              Ends, DataReceived, EventDataReceived, ContinuationRequestReceived,
              EventContinuationRequestReceived, engineVars, EngineMeets
<1>5. CASE StatusReceived(r) \/ TaggedReceived(r) \/ IdleAccepted(r) \/ IdleRejected(r)
             \/ MalformedMessage(r)
  BY <1>5 DEF StatusReceived, TaggedReceived, EventStatusReceived, engineVars, IdleAccepted,
              EventIdleAccepted, IdleRejected, EventIdleRejected, IdleRefused, Ends,
              MalformedMessage, ErrorMalformedMessage, EngineMeets, Moves
<1> QED
  BY <1>1, <1>2, <1>3, <1>4, <1>5 DEF ReceiveEvent

-----------------------------------------------------------------------------
(* Sessions with IDLE: the calls *)

\* No task of the program's own issues IDLE: the crate has none that does.
NoIdleTask == "idle" \notin Kinds

\* resolve() awaits a task, idle() and idle_done() an IDLE that is not over.
Outcomes == {"pending", "ok", "output", "error", "dropped"}
CallsHaveTheirKind ==
    /\ returned \in [Command -> Outcomes]
    /\ \/ caller = Free
       \/ /\ caller.cmd \in 1..issued
          /\ \/ caller.op = "resolve" /\ kind[caller.cmd] # "idle"
             \/ caller.op \in {"idle", "idle_done"} /\ caller.cmd \in IdleTags

\* A step that enqueues nothing, and ends the call or goes on with it.
LEMMA CallGoesOn ==
    ASSUME MInv, CallsHaveTheirKind, UNCHANGED <<issued, kind>>, caller # Free,
           Goes_on \/ \E how \in Outcomes : Returns(caller.cmd, how)
    PROVE  CallsHaveTheirKind' /\ IdleTags' \subseteq IdleTags
<1>1. issued \in 0..MaxCommands /\ \A c \in 1..issued : c \in Command
  BY MaxCommandsAssumption DEF MInv, TypeOK, NextTypeOK, Command
<1>2. CASE Goes_on
  BY <1>2 DEF Goes_on, CallsHaveTheirKind, IdleTags
<1>3. ASSUME NEW how \in Outcomes, Returns(caller.cmd, how)
      PROVE  CallsHaveTheirKind' /\ IdleTags' \subseteq IdleTags
  <2>1. caller' = Free /\ returned' \in [Command -> Outcomes]
    BY <1>3 DEF Returns, CallsHaveTheirKind
  <2>2. \A c \in Command : c # caller.cmd => returned'[c] = returned[c]
    BY <1>3 DEF Returns, CallsHaveTheirKind
  <2> QED
    BY <1>1, <2>1, <2>2 DEF CallsHaveTheirKind, IdleTags
<1> QED
  BY <1>2, <1>3

\* What is received is not left on the wire.
LEMMA ReceivedIsGone ==
    ASSUME NextTypeOK, NEW r, Receive(r)
    PROVE  wire' # wire
<1>1. wire # <<>> /\ wire' = Tail(wire)
  BY DEF Receive, CanReceive
<1>2. wire \in Seq(Responses) /\ Len(wire') = Len(wire) - 1
  BY <1>1, TailOfWire
<1> QED
  BY <1>2

\* What a step that uses the stream does to the engine.
LEMMA DrivenStep ==
    ASSUME MInv, EngineIdles, ResolvingTask_next \/ idle \/ idle_done
    PROVE  /\ EngineIdles' /\ (tidy' => tidy /\ EngineKeeps)
           /\ UNCHANGED <<issued, kind>> /\ caller # Free
           /\ Goes_on \/ \E how \in Outcomes : Returns(caller.cmd, how)
<1>1. NextTypeOK /\ StreamNext /\ caller # Free
  BY DEF MInv, TypeOK, ResolvingTask_next, idle, idle_done, Free
<1>2. ASSUME NEW c \in Command, IgnoredSent(c)
      PROVE  EngineIdles' /\ (tidy' => tidy /\ EngineKeeps) /\ UNCHANGED <<issued, kind>>
  <2>1. wire' = wire /\ UNCHANGED <<issued, kind>>
    BY <1>2 DEF IgnoredSent, EventCommandSent, EventAuthenticateStarted, EventIdleCommandSent,
                EventIdleDoneSent, Report
  <2> QED
    BY <1>1, <1>2, <2>1, ReportIdles DEF StreamNext, EngineKeeps
<1>3. ASSUME NEW r, Receive(r), EngineMeets(r)
      PROVE  EngineIdles' /\ (tidy' => tidy /\ EngineKeeps) /\ UNCHANGED <<issued, kind>>
  <2>1. wire' # wire /\ r = Head(wire) /\ UNCHANGED <<issued, kind>>
    BY <1>1, <1>3, ReceivedIsGone DEF Receive
  <2>2. tidy' => tidy /\ (r.type = "continuation" => r.id = current.cmd)
    BY <1>1, <2>1 DEF StreamNext
  <2> QED
    BY <1>3, <2>1, <2>2, ReceiveIdles
<1>4. CASE ResolvingTask_next
  <2>1. ASSUME NEW c \in Command, SendEvent(c) PROVE IgnoredSent(c)
    BY <2>1 DEF SendEvent, CommandSent, AuthenticateStarted, IdleCommandSent, IdleDoneSent,
                IgnoredSent
  <2>2. EngineIdles' /\ (tidy' => tidy /\ EngineKeeps) /\ UNCHANGED <<issued, kind>>
    BY <1>2, <1>3, <1>4, <2>1, SchedulerArmsMeet DEF ResolvingTask_next, progress
  <2>3. Goes_on \/ \E how \in Outcomes : Returns(caller.cmd, how)
    BY <1>4 DEF ResolvingTask_next, Resolved, Outcomes
  <2> QED
    BY <1>1, <2>2, <2>3
<1>5. CASE idle \/ idle_done
  <2>1. EngineIdles' /\ (tidy' => tidy /\ EngineKeeps) /\ UNCHANGED <<issued, kind>>
    BY <1>2, <1>3, <1>5, IdleArmsMeet DEF idle, idle_done
  <2>2. Goes_on \/ \E how \in Outcomes : Returns(caller.cmd, how)
    BY <1>5 DEF idle, idle_done, EndsIdle, FailsIdle, Outcomes
  <2> QED
    BY <1>1, <2>1, <2>2
<1> QED
  BY <1>4, <1>5

\* Every step of a session: the engine, and the kinds of calls.
LEMMA EngineStep ==
    ASSUME MInv, EngineIdles, [SessionNext]_sessionVars
    PROVE  EngineIdles' /\ (tidy' => tidy /\ EngineKeeps)
<1>1. ASSUME NEW k \in Kinds, resolve(k) PROVE tidy' => tidy /\ EngineKeeps
  BY <1>1, KindsAssumption, EnqueueIdles DEF resolve, enqueue_task
<1>2. CASE enqueue_idle
  <2>1. "idle" \in TaskKinds
    BY DEF TaskKinds, Task
  <2> QED
    BY <1>2, <2>1, EnqueueIdles DEF enqueue_idle, EngineKeeps
<1>3. ASSUME UNCHANGED vars PROVE EngineKeeps
  BY <1>3 DEF vars, EngineKeeps, EngineIdles, Handshake, IsOver, Asking, Accepts, Answered
<1>4. CASE idle_done_call \/ idle_timeout
  <2>1. set_idle_done /\ NextUnchanged
    BY <1>4 DEF idle_done_call, idle_timeout
  <2>2. ASSUME idle_timeout PROVE tidy' => tidy
    BY <2>2 DEF idle_timeout
  <2>3. ASSUME idle_done_call PROVE tidy' => tidy
    <3>1. PICK c \in IdleTags : tidy' = (tidy /\ returned[c] = "dropped")
      BY <2>3 DEF idle_done_call
    <3> QED
      BY <3>1
  <2>4. tidy' => tidy
    BY <1>4, <2>2, <2>3
  <2> QED
    BY <2>1, <2>4, SetIdleDoneIdles DEF EngineKeeps
<1>5. CASE StreamWrite
  BY <1>5, WriteIdles DEF StreamWrite, WriteOutput, EngineKeeps
<1>6. CASE ServerStep /\ UNCHANGED callVars
  BY <1>6, ServerIdles DEF ServerStep, callVars, EngineKeeps
<1>7. CASE StreamRead \/ StreamClosed \/ Drop \/ idle_call \/ UNCHANGED sessionVars
  <2>1. UNCHANGED vars
    BY <1>7 DEF StreamRead, StreamClosed, Drop, idle_call, sessionVars, vars
  <2>2. ASSUME idle_call PROVE tidy' => tidy
    <3>1. PICK c \in IdleTags : tidy' = (tidy /\ returned[c] = "pending")
      BY <2>2 DEF idle_call
    <3> QED
      BY <3>1
  <2>3. tidy' => tidy
    BY <1>7, <2>2 DEF StreamRead, StreamClosed, Drop, sessionVars
  <2> QED
    BY <1>3, <2>1, <2>3 DEF EngineKeeps
<1>8. ASSUME NEW k \in Kinds, resolve(k) PROVE EngineIdles'
  BY <1>8, KindsAssumption, EnqueueIdles DEF resolve, enqueue_task, EngineKeeps
<1> QED
  BY <1>1, <1>2, <1>4, <1>5, <1>6, <1>7, <1>8, DrivenStep
     DEF SessionNext, Step, AllCalled

\* Every step of a session: what is awaited is of the kind that its call is for.
LEMMA CallsStep ==
    ASSUME NoIdleTask, MInv, EngineIdles, CallsHaveTheirKind, [SessionNext]_sessionVars
    PROVE  CallsHaveTheirKind' /\ (IdleTags' \subseteq IdleTags \/ enqueue_idle)
<1>1. NextTypeOK /\ issued \in Nat /\ \A c \in 1..issued : c \in Command
  BY MaxCommandsAssumption DEF MInv, TypeOK, NextTypeOK, Command
<1>2. ASSUME NEW k, enqueue_command(k), UNCHANGED returned
      PROVE  /\ issued' = issued + 1 /\ issued + 1 \in Command /\ kind'[issued + 1] = k
             /\ \A c \in 1..issued : kind'[c] = kind[c]
             /\ \A c \in 1..issued' : c \in 1..issued \/ c = issued + 1
  <2>1. /\ issued' = issued + 1 /\ issued < MaxCommands
        /\ kind' = [kind EXCEPT ![issued + 1] = k]
    BY <1>2 DEF enqueue_command
  <2>2. issued + 1 \in Command
    BY <1>1, <2>1, MaxCommandsAssumption DEF Command
  <2> QED
    BY <1>1, <2>1, <2>2 DEF NextTypeOK
<1>3. ASSUME NEW k \in Kinds, resolve(k)
      PROVE  CallsHaveTheirKind' /\ IdleTags' \subseteq IdleTags
  <2>1. /\ issued' = issued + 1 /\ issued + 1 \in Command /\ kind'[issued + 1] = k
        /\ \A c \in 1..issued : kind'[c] = kind[c] /\ returned'[c] = returned[c]
        /\ \A c \in 1..issued' : c \in 1..issued \/ c = issued + 1
        /\ caller' = Call("resolve", issued + 1) /\ returned' = returned
    BY <1>2, <1>3 DEF resolve, enqueue_task
  <2>2. k # "idle"
    BY DEF NoIdleTask
  <2> QED
    BY <1>1, <2>1, <2>2 DEF CallsHaveTheirKind, IdleTags, Call
<1>4. ASSUME enqueue_idle PROVE CallsHaveTheirKind'
  BY <1>4 DEF enqueue_idle, CallsHaveTheirKind
<1>5. ASSUME UNCHANGED <<issued, kind, caller, returned>>
      PROVE  CallsHaveTheirKind' /\ IdleTags' \subseteq IdleTags
  BY <1>5 DEF CallsHaveTheirKind, IdleTags
<1>6. ASSUME UNCHANGED <<issued, kind, returned>>,
             NEW c \in IdleTags, NEW op \in {"idle", "idle_done"}, caller' = Call(op, c)
      PROVE  CallsHaveTheirKind' /\ IdleTags' \subseteq IdleTags
  BY <1>6 DEF CallsHaveTheirKind, IdleTags, Call
<1>7. CASE idle_call
  BY <1>6, <1>7 DEF idle_call, vars
<1>8. CASE idle_done_call
  BY <1>6, <1>8 DEF idle_done_call, NextUnchanged
<1>9. CASE StreamWrite \/ StreamRead \/ idle_timeout \/ (ServerStep /\ UNCHANGED callVars)
             \/ UNCHANGED sessionVars
  <2>1. UNCHANGED <<issued, kind, caller, returned>>
    BY <1>9 DEF StreamWrite, WriteOutput, Write, StreamRead, idle_timeout, NextUnchanged, vars,
                ServerStep, Server, Answer, GoAhead, AcceptIdle, Invite, Challenge, Provide,
                Complete, Volunteer, callVars, sessionVars
  <2> QED
    BY <1>5, <2>1
<1>10. CASE StreamClosed \/ Drop
  <2>1. /\ caller # Free /\ UNCHANGED <<issued, kind>>
        /\ \E how \in Outcomes : Returns(caller.cmd, how)
    BY <1>10 DEF StreamClosed, Drop, AtRead, vars, Outcomes
  <2> QED
    BY <2>1, CallGoesOn
<1>11. CASE ResolvingTask_next \/ idle \/ idle_done
  BY <1>11, DrivenStep, CallGoesOn
<1> QED
  BY <1>3, <1>4, <1>7, <1>8, <1>9, <1>10, <1>11 DEF SessionNext, Step, AllCalled

\* While there is an IDLE that is not over, it is the last command and the only one
\* that is not: no task is in the maps, and nothing but the IDLE in the engine.
IdleIsAlone ==
    IdleTags # {} =>
        /\ IdleTags = {issued} /\ waiting = <<>> /\ active = <<>> /\ caller.op # "resolve"
        /\ \A c \in Command : Has(unsent, c) => c = issued
        /\ current.cmd \in {0, issued}

\* What returned Ok is over.
ReturnedIsOver == \A c \in Command : returned[c] = "ok" => IsOver(c)

\* What idle() and idle_done() leave of the queues.
LEMMA IdleLeaves ==
    ASSUME MInv, EngineIdles, idle \/ idle_done
    PROVE  /\ UNCHANGED <<issued, kind, unsent, server>> /\ UNCHANGED schedVars
           /\ current'.cmd \in {0, current.cmd}
           /\ UNCHANGED caller \/ caller' = Free
<1>1. ASSUME NEW r, Receive(r), EngineMeets(r)
      PROVE  UNCHANGED <<issued, kind, unsent, server>> /\ current'.cmd \in {0, current.cmd}
  BY <1>1 DEF Receive, serverVars, EngineMeets, Moves, NoCommand, MInv, TypeOK, NextTypeOK
<1>2. ASSUME NEW c \in Command, IgnoredSent(c)
      PROVE  UNCHANGED <<issued, kind, unsent, server>> /\ current'.cmd \in {0, current.cmd}
  BY <1>2 DEF IgnoredSent, EventCommandSent, EventAuthenticateStarted, EventIdleCommandSent,
              EventIdleDoneSent, Report, serverVars, NoCommand
<1>3. UNCHANGED <<issued, kind, unsent, server>> /\ current'.cmd \in {0, current.cmd}
  BY <1>1, <1>2, IdleArmsMeet DEF idle, idle_done
<1>4. UNCHANGED caller \/ caller' = Free
  BY DrivenStep DEF Goes_on, Returns
<1> QED
  BY <1>3, <1>4 DEF idle, idle_done

\* While an IDLE is not over, every step leaves it alone in the engine and the maps.
LEMMA AloneStep ==
    ASSUME NoIdleTask, MInv, EngineIdles, CallsHaveTheirKind, IdleIsAlone, ReturnedIsOver,
           tidy', [SessionNext]_sessionVars
    PROVE  IdleIsAlone'
<1>1. NextTypeOK /\ issued \in Nat
  BY DEF MInv, TypeOK, NextTypeOK
<1>2. ASSUME IdleTags' \subseteq IdleTags, UNCHANGED issued,
             IdleTags # {} => /\ UNCHANGED <<waiting, active>> /\ caller'.op # "resolve"
                              /\ \A c \in Command : Has(unsent', c) => Has(unsent, c)
                              /\ \/ current'.cmd \in {0, current.cmd}
                                 \/ current'.cmd \in Command /\ Has(unsent, current'.cmd)
      PROVE  IdleIsAlone'
  BY <1>2 DEF IdleIsAlone
<1>3. CASE enqueue_idle
  <2>1. /\ issued' = issued + 1 /\ unsent' = Append(unsent, issued + 1) /\ current' = current
        /\ UNCHANGED <<waiting, active, returned>> /\ caller' = Free
        /\ kind' = [kind EXCEPT ![issued + 1] = "idle"]
    BY <1>3 DEF enqueue_idle, enqueue_command, schedVars
  <2>2. waiting = <<>> /\ active = <<>> /\ unsent = <<>> /\ current = NoCommand /\ IdleTags = {}
    BY <1>3 DEF enqueue_idle
  <2>3. issued + 1 \in Command
    BY <1>1, <1>3, MaxCommandsAssumption DEF enqueue_idle, enqueue_command, Command
  <2>4. \A c \in 1..issued : c \in Command /\ kind'[c] = kind[c]
    BY <1>1, <2>1, MaxCommandsAssumption DEF NextTypeOK, Command
  <2>5. IdleTags' \subseteq {issued + 1}
    <3>1. \A c \in 1..issued' : c \in 1..issued \/ c = issued + 1
      BY <1>1, <2>1
    <3> QED
      BY <2>1, <2>2, <2>4, <3>1 DEF IdleTags
  <2>6. unsent' = <<issued + 1>>
    BY <2>1, <2>2
  <2>7. \A c \in Command : Has(unsent', c) => c = issued + 1
    BY <2>6 DEF Has
  <2> QED
    BY <2>1, <2>2, <2>5, <2>7 DEF IdleIsAlone, Free, NoCommand
<1>4. ASSUME NEW k \in Kinds, resolve(k) PROVE IdleIsAlone'
  <2>1. IdleTags = {} /\ ~enqueue_idle
    <3>1. IdleTags = {} /\ caller' # Free /\ caller = Free
      BY <1>4 DEF resolve, Call, Free
    <3> QED
      BY <3>1 DEF enqueue_idle
  <2>2. IdleTags' \subseteq IdleTags
    BY <2>1, CallsStep
  <2> QED
    BY <2>1, <2>2 DEF IdleIsAlone
<1>5. ASSUME ~enqueue_idle, UNCHANGED <<issued, waiting, active>>,
             caller'.op # "resolve" \/ UNCHANGED caller,
             UNCHANGED unsent, current'.cmd \in {0, current.cmd}
      PROVE  IdleIsAlone'
  BY <1>2, <1>5, CallsStep DEF IdleIsAlone
<1>6. CASE ResolvingTask_next
  <2>1. IdleTags = {} /\ ~enqueue_idle
    <3>1. caller.op = "resolve"
      BY <1>6 DEF ResolvingTask_next
    <3>2. ASSUME enqueue_idle PROVE caller = Free
      BY <3>2 DEF enqueue_idle
    <3> QED
      BY <3>1, <3>2 DEF IdleIsAlone, Free
  <2>2. IdleTags' = {}
    BY <2>1, CallsStep
  <2> QED
    BY <2>2 DEF IdleIsAlone
<1>7. ASSUME enqueue_idle PROVE issued' # issued
  <2>1. issued' = issued + 1
    BY <1>7 DEF enqueue_idle, enqueue_command
  <2> QED
    BY <1>1, <2>1
<1>8. CASE idle \/ idle_done
  BY <1>1, <1>5, <1>7, <1>8, IdleLeaves DEF Free, schedVars
<1>9. CASE StreamWrite
  <2>1. /\ UNCHANGED <<issued, waiting, active, caller>> /\ unsent \in Seq(Command)
        /\ WriteCommand \/ WriteRest \/ WriteAuthenticateData \/ WriteDone
    BY <1>1, <1>9 DEF StreamWrite, WriteOutput, Write, schedVars, NextTypeOK
  <2>2. CASE WriteCommand
    <3>1. unsent # <<>> /\ unsent' = Tail(unsent) /\ current'.cmd = Head(unsent)
      BY <2>2 DEF WriteCommand
    <3>2. \A c \in Command : Has(unsent', c) => Has(unsent, c)
      BY <2>1, <3>1, TailProperties DEF MInv, VInv, Sent, UnsentInOrder
    <3>3. current'.cmd \in Command /\ Has(unsent, current'.cmd)
      BY <2>1, <3>1, HeadAndTail DEF Has
    <3> QED
      BY <1>2, <1>7, <2>1, <3>2, <3>3, CallsStep DEF IdleIsAlone
  <2>3. CASE WriteRest \/ WriteAuthenticateData \/ WriteDone
    <3>1. UNCHANGED unsent /\ current'.cmd = current.cmd
      BY <1>1, <2>3 DEF WriteRest, WriteAuthenticateData, WriteDone, NextTypeOK
    <3> QED
      BY <1>5, <1>7, <2>1, <3>1
  <2> QED
    BY <2>1, <2>2, <2>3
<1>10. CASE ServerStep /\ UNCHANGED callVars
  <2>1. UNCHANGED <<issued, waiting, active, unsent, current, caller>>
    BY <1>10 DEF ServerStep, Server, Answer, GoAhead, AcceptIdle, Invite, Challenge, Provide,
                 Complete, Volunteer, callVars, schedVars
  <2> QED
    BY <1>5, <1>7, <2>1
<1>11. CASE idle_call \/ idle_done_call \/ idle_timeout
  <2>1. UNCHANGED <<issued, waiting, active, unsent>> /\ current'.cmd = current.cmd
    BY <1>1, <1>11 DEF idle_call, idle_done_call, idle_timeout, vars, NextUnchanged, schedVars,
                       set_idle_done, NextTypeOK
  <2>2. caller'.op # "resolve" \/ UNCHANGED caller
    <3>1. ASSUME NEW op \in {"idle", "idle_done"}, NEW c, caller' = Call(op, c)
          PROVE  caller'.op # "resolve"
      BY <3>1 DEF Call
    <3>2. ASSUME idle_call PROVE caller'.op # "resolve"
      BY <3>1, <3>2 DEF idle_call
    <3>3. ASSUME idle_done_call PROVE caller'.op # "resolve"
      BY <3>1, <3>3 DEF idle_done_call
    <3>4. ASSUME idle_timeout PROVE UNCHANGED caller
      BY <3>4 DEF idle_timeout
    <3> QED
      BY <1>11, <3>2, <3>3, <3>4
  <2> QED
    BY <1>5, <1>7, <2>1, <2>2
<1>12. CASE StreamRead \/ StreamClosed \/ Drop \/ UNCHANGED sessionVars
  <2>1. /\ UNCHANGED <<issued, waiting, active, unsent, current>>
        /\ UNCHANGED caller \/ caller' = Free
    BY <1>12 DEF StreamRead, StreamClosed, Drop, Returns, sessionVars, vars
  <2> QED
    BY <1>5, <1>7, <2>1 DEF Free
<1> QED
  BY <1>3, <1>4, <1>6, <1>8, <1>9, <1>10, <1>11, <1>12 DEF SessionNext, Step, AllCalled

\* A verdict that is received was the only one.
LEMMA VerdictIsMet ==
    ASSUME MInv, NEW r, Receive(r), r.type = "tagged"
    PROVE  /\ r.id \in Command /\ r.status \in Final /\ server[r.id] = r.status
           /\ Answered(r.id)'
           /\ \A i \in DOMAIN wire' : wire'[i].type = "tagged" => wire'[i].id # r.id
<1>1. /\ r.id \in Command /\ r.status \in Final /\ server[r.id] = r.status
      /\ NextTypeOK /\ server' = server
  BY TaggedIsVerdict DEF MInv, TypeOK, Receive, serverVars
<1>2. /\ r = wire[1] /\ 1 \in DOMAIN wire /\ wire' \in Seq(Responses)
      /\ \A i \in DOMAIN wire' : i \in Nat /\ i + 1 \in DOMAIN wire /\ wire'[i] = wire[i + 1]
  BY <1>1, TailOfWire DEF Receive, CanReceive
<1>3. \A j \in DOMAIN wire : wire[j].type = "tagged" /\ wire[j].id = r.id => j = 1
  BY <1>2 DEF MInv, VInv, Decided, VerdictsAreOnce, Tagged
<1>4. ASSUME NEW i \in DOMAIN wire', wire'[i].type = "tagged", wire'[i].id = r.id PROVE FALSE
  <2>1. i + 1 = 1 /\ i \in Nat
    BY <1>2, <1>3, <1>4
  <2>2. i # 0
    BY <1>2
  <2> QED
    BY <2>1, <2>2
<1> QED
  BY <1>1, <1>4 DEF Answered, Final

\* What makes a call return Ok.
LEMMA ReturnsOk ==
    ASSUME CallsHaveTheirKind, [SessionNext]_sessionVars, NEW c \in Command,
           returned[c] # "ok", returned'[c] = "ok"
    PROVE  /\ c = caller.cmd /\ caller.op \in {"idle", "idle_done"}
           /\ \E r : EndsIdle(r) \/ EventIdleRejected(r)
<1>1. returned' # returned
  OBVIOUS
<1>2. ASSUME NEW how \in {"output", "error", "dropped"}, Returns(caller.cmd, how) PROVE FALSE
  <2>1. returned' = [returned EXCEPT ![caller.cmd] = how]
    BY <1>2 DEF Returns
  <2> QED
    BY <2>1 DEF CallsHaveTheirKind
<1>3. ~(StreamClosed \/ Drop)
  BY <1>2 DEF StreamClosed, Drop
<1>4. ~ResolvingTask_next
  BY <1>1, <1>2 DEF ResolvingTask_next, Resolved, Goes_on
<1>5. idle \/ idle_done
  BY <1>1, <1>3, <1>4
     DEF SessionNext, Step, AllCalled, resolve, enqueue_idle, idle_call, idle_done_call,
         idle_timeout, StreamWrite, StreamRead, callVars, sessionVars
<1>6. \E r : EndsIdle(r) \/ EventIdleRejected(r)
  BY <1>1, <1>2, <1>5 DEF idle, idle_done, Goes_on, FailsIdle
<1>7. c = caller.cmd
  <2>1. Goes_on \/ \E how : Returns(caller.cmd, how)
    BY <1>5 DEF idle, idle_done, EndsIdle, FailsIdle
  <2>2. PICK how : returned' = [returned EXCEPT ![caller.cmd] = how]
    BY <1>1, <2>1 DEF Goes_on, Returns
  <2> QED
    BY <2>2 DEF CallsHaveTheirKind
<1> QED
  BY <1>5, <1>6, <1>7 DEF idle, idle_done

\* Every step of a session: a command whose call returned Ok stays over.
LEMMA OverStep ==
    ASSUME MInv, EngineIdles, Handshake, CallsHaveTheirKind, IdleIsAlone, ReturnedIsOver,
           tidy', [SessionNext]_sessionVars
    PROVE  ReturnedIsOver'
<1> SUFFICES ASSUME NEW c \in Command, returned'[c] = "ok" PROVE IsOver(c)'
  BY DEF ReturnedIsOver
<1>1. CASE returned[c] = "ok"
  BY <1>1, EngineStep DEF ReturnedIsOver, EngineKeeps
<1>2. CASE returned[c] # "ok"
  <2>1. /\ c = caller.cmd /\ caller.op \in {"idle", "idle_done"}
        /\ \E r : EndsIdle(r) \/ EventIdleRejected(r)
    BY <1>2, ReturnsOk
  <2>2. PICK r : EndsIdle(r) \/ EventIdleRejected(r)
    BY <2>1
  <2>3. Receive(r) /\ r.type = "tagged"
    BY <2>2 DEF EndsIdle, OwnTagged, EventStatusReceived, EventIdleRejected, IdleRefused, Ends
  <2>4. /\ r.id \in Command /\ r.status \in Final /\ server[r.id] = r.status
        /\ Answered(r.id)'
        /\ \A i \in DOMAIN wire' : wire'[i].type = "tagged" => wire'[i].id # r.id
    BY <2>3, VerdictIsMet
  <2>5. c \in IdleTags /\ kind[c] = "idle"
    BY <2>1 DEF CallsHaveTheirKind, Free, IdleTags
  <2>6. CASE EndsIdle(r)
    <3>1. r.id = c /\ current' = current /\ ~IdleRefused(r) /\ CanReceive
      BY <2>1, <2>6 DEF EndsIdle, OwnTagged, EventStatusReceived, engineVars, Receive
    <3>2. ASSUME current.cmd = c PROVE FALSE
      <4>1. current.phase \in IdlePhases /\ current.phase # "none"
        BY <2>5, <3>2, MaxCommandsAssumption DEF EngineIdles, NoCommand, Command
      <4>2. greeted
        BY <4>1 DEF MInv, VInv, Held, HeldIsWritten
      <4>3. current.phase \in {"idle_asked", "idling"}
        BY <3>1, <4>1, <4>2 DEF IdlePhases, CanReceive, CanWrite, EventPending
      <4>4. current.phase = "idle_asked"
        BY <2>4, <3>1, <3>2, <4>3 DEF Handshake, Final
      <4>5. r.status \in {"NO", "BAD"}
        BY <2>4, <3>1, <3>2, <4>4 DEF EngineIdles, Final
      <4> QED
        BY <2>3, <3>1, <3>2, <4>4, <4>5 DEF IdleRefused, Ends
    <3> QED
      BY <2>4, <3>1, <3>2 DEF IsOver, Answered
  <2>7. CASE EventIdleRejected(r)
    <3>1. r.id = current.cmd /\ current' = NoCommand
      BY <2>7 DEF EventIdleRejected, IdleRefused, Ends
    <3>2. c = issued /\ current.cmd \in {0, issued}
      BY <2>5 DEF IdleIsAlone
    <3>3. r.id = c /\ 0 \notin Command
      BY <2>4, <3>1, <3>2 DEF Command
    <3> QED
      BY <2>4, <3>1, <3>3 DEF IsOver, Answered, NoCommand
  <2> QED
    BY <2>2, <2>6, <2>7
<1> QED
  BY <1>1, <1>2

-----------------------------------------------------------------------------
(* Sessions with IDLE: the unwraps *)

\* The task of a command that is not, or not yet, reported as sent is waiting, that
\* of any other is active until it has its output.
UnderSending(c) == Has(unsent, c) \/ (Sending /\ current.cmd = c)
IsPlaced(c) == IF UnderSending(c) THEN Has(waiting, c)
               ELSE Has(active, c) \/ output[c] # NoOutput
TasksAreThere ==
    Alive => \A c \in Command : c <= issued /\ kind[c] # "idle" => IsPlaced(c)

\* A panic is about a command that was refused before it was reported as sent.
OnlyRefusalPanics == ~Alive => \E c \in Command : Has(waiting, c) /\ Answered(c)

\* In a session too.
LEMMA SessionAnsweredStays ==
    ASSUME MInv, EngineIdles, [SessionNext]_sessionVars, NEW c \in Command, Answered(c)
    PROVE  Answered(c)'
<1>1. NextTypeOK /\ server \in [Command -> ServerPhase]
  BY DEF MInv, TypeOK, NextTypeOK
<1>2. CASE Write
  <2>1. CASE WriteCommand
    <3>1. unsent \in Seq(Command) /\ unsent # <<>>
      BY <1>1, <2>1 DEF NextTypeOK, WriteCommand
    <3>2. Has(unsent, Head(unsent)) /\ Head(unsent) \in Command
      BY <3>1, HeadAndTail DEF Has
    <3>3. server[Head(unsent)] = "unknown"
      BY <3>2 DEF MInv, VInv, Sent, UnwrittenIsUnknown, Unwritten
    <3>4. c # Head(unsent)
      BY <3>3 DEF Answered
    <3> QED
      BY <1>1, <2>1, <3>4 DEF WriteCommand, Answered
  <2>2. CASE WriteRest \/ WriteAuthenticateData \/ WriteDone
    BY <1>1, <2>2 DEF WriteRest, WriteAuthenticateData, WriteDone, Answered
  <2> QED
    BY <1>2, <2>1, <2>2 DEF Write
<1>3. CASE Server
  BY <1>1, <1>3, AnsweredStays
<1>4. ASSUME UNCHANGED server PROVE Answered(c)'
  BY <1>4 DEF Answered
<1>5. CASE ResolvingTask_next
  <2>1. ASSUME NEW r, ReceiveEvent(r) PROVE UNCHANGED server
    BY <2>1, ArmsReceive DEF Receive, serverVars
  <2>2. ASSUME NEW d \in Command, SendEvent(d) PROVE UNCHANGED server
    BY <2>2 DEF SendEvent, CommandSent, AuthenticateStarted, IdleCommandSent, IdleDoneSent,
                EventCommandSent, EventAuthenticateStarted, EventIdleCommandSent,
                EventIdleDoneSent, Report, serverVars
  <2> QED
    BY <1>4, <1>5, <2>1, <2>2 DEF ResolvingTask_next, progress
<1>6. CASE idle \/ idle_done
  BY <1>4, <1>6, IdleLeaves
<1>7. ASSUME NEW k, enqueue_command(k) PROVE Answered(c)'
  BY <1>4, <1>7 DEF enqueue_command, serverVars
<1>8. CASE idle_call \/ idle_done_call \/ idle_timeout \/ StreamRead \/ StreamClosed \/ Drop
             \/ UNCHANGED sessionVars
  <2>1. UNCHANGED server
    BY <1>8 DEF idle_call, idle_done_call, idle_timeout, StreamRead, StreamClosed, Drop, vars,
                NextUnchanged, serverVars, sessionVars
  <2> QED
    BY <1>4, <2>1
<1> QED
  BY <1>2, <1>3, <1>5, <1>6, <1>7, <1>8
     DEF SessionNext, Step, AllCalled, resolve, enqueue_task, enqueue_idle, StreamWrite,
         WriteOutput, ServerStep

\* Nothing is told to the scheduler, and sending goes on as before.
LEMMA PlacedStays ==
    ASSUME TasksAreThere, UNCHANGED <<issued, kind, waiting, active, output, event>>,
           \A c \in Command : c <= issued /\ kind[c] # "idle" =>
              (UnderSending(c)' <=> UnderSending(c))
    PROVE  TasksAreThere'
<1> SUFFICES ASSUME Alive', NEW c \in Command, c <= issued', kind'[c] # "idle"
             PROVE  IsPlaced(c)'
  BY DEF TasksAreThere
<1>1. IsPlaced(c) /\ (UnderSending(c)' <=> UnderSending(c))
  BY DEF TasksAreThere, Alive
<1> QED
  BY <1>1 DEF IsPlaced, Has

\* While an IDLE is not over no other command is being sent.
LEMMA AloneTasks ==
    ASSUME TasksAreThere, IdleIsAlone, IdleTags # {}, current'.cmd \in {0, current.cmd},
           UNCHANGED <<issued, kind, unsent, waiting, active, output, event>>
    PROVE  TasksAreThere'
<1>1. kind[issued] = "idle"
  BY DEF IdleIsAlone, IdleTags
<1>2. \A c \in Command : kind[c] # "idle" => ~UnderSending(c) /\ ~UnderSending(c)'
  BY <1>1 DEF IdleIsAlone, UnderSending, Has, Command
<1> QED
  BY <1>2, PlacedStays

\* While a task is awaited no IDLE holds the connection.
LEMMA NoIdleHolds ==
    ASSUME MInv, EngineIdles, IdleIsAlone, ReturnedIsOver, caller.op = "resolve"
    PROVE  IdleTags = {} /\ current.phase \notin IdlePhases
<1>1. IdleTags = {}
  BY DEF IdleIsAlone
<1>2. ASSUME current.phase \in IdlePhases PROVE FALSE
  <2>1. /\ current.phase # "none" /\ current.cmd \in 1..issued /\ current.cmd \in Command
        /\ kind[current.cmd] = "idle"
    BY <1>2, HolderIsWritten DEF EngineIdles, IdlePhases, Command
  <2>2. returned[current.cmd] = "ok"
    BY <1>1, <2>1 DEF IdleTags
  <2> QED
    BY <2>1, <2>2 DEF ReturnedIsOver, IsOver
<1> QED
  BY <1>1, <1>2

\* A command is enqueued, with its task or (IDLE) without.
LEMMA EnqueueTasks ==
    ASSUME MInv, TasksAreThere, NEW k, enqueue_command(k), UNCHANGED <<active, output, event>>,
           waiting' = push_back(waiting, issued + 1) \/ (waiting' = waiting /\ k = "idle")
    PROVE  TasksAreThere'
<1> DEFINE n == issued + 1
<1>1. /\ issued' = n /\ issued < MaxCommands /\ issued \in Nat /\ unsent' = push_back(unsent, n)
      /\ UNCHANGED current /\ kind' = [kind EXCEPT ![n] = k]
      /\ NextTypeOK /\ SchedTypeOK
  BY DEF MInv, TypeOK, NextTypeOK, enqueue_command, push_back
<1>2. n \in Command /\ unsent \in Seq(Command) /\ waiting \in Seq(Command)
      /\ \A d \in Command : d <= n => d = n \/ (d <= issued /\ d < n)
  BY <1>1, MaxCommandsAssumption DEF Command, NextTypeOK, SchedTypeOK
<1>3. /\ \A d \in Command : Has(unsent, d) => d < n
      /\ \A d \in Command : Has(waiting, d) => d < n
      /\ Increasing(unsent) /\ Increasing(waiting)
  BY <1>1 DEF MInv, VInv, Sent, UnsentInOrder, TasksAreOnce, Command
<1> HIDE DEF n
<1>4. \A d : Has(unsent', d) <=> Has(unsent, d) \/ d = n
  <2>1. \A d : Has(push_back(unsent, n), d) <=> Has(unsent, d) \/ d = n
    BY <1>2, <1>3, PushBackProperties
  <2> QED
    BY <1>1, <2>1
<1>5. \A d : Has(waiting, d) \/ (d = n /\ k # "idle") => Has(waiting', d)
  <2>1. \A d : Has(push_back(waiting, n), d) <=> Has(waiting, d) \/ d = n
    BY <1>2, <1>3, PushBackProperties
  <2> QED
    BY <2>1 DEF n, Has
<1>6. Sending => current.cmd # n
  BY <1>1, HolderIsWritten DEF Sending, SendingPhases, n
<1> SUFFICES ASSUME Alive', NEW c \in Command, c <= issued', kind'[c] # "idle"
             PROVE  IsPlaced(c)'
  BY DEF TasksAreThere
<1>7. Alive
  BY DEF Alive
<1>8. CASE c = n
  <2>1. k # "idle"
    BY <1>1, <1>2, <1>8 DEF NextTypeOK
  <2> QED
    BY <1>4, <1>5, <1>8, <2>1 DEF IsPlaced, UnderSending
<1>9. CASE c # n
  <2>1. c <= issued /\ kind[c] # "idle"
    BY <1>1, <1>2, <1>9 DEF NextTypeOK
  <2>2. IsPlaced(c)
    BY <1>7, <2>1 DEF TasksAreThere
  <2>3. UnderSending(c)' <=> UnderSending(c)
    BY <1>1, <1>4, <1>9 DEF UnderSending, Sending
  <2>4. Has(active, c)' <=> Has(active, c)
    BY DEF Has
  <2> QED
    BY <1>5, <2>2, <2>3, <2>4 DEF IsPlaced
<1> QED
  BY <1>8, <1>9

\* A command is written: those that were being sent still are, or are reported.
LEMMA WriteTasks ==
    ASSUME MInv, TasksAreThere, Write, UNCHANGED schedVars
    PROVE  TasksAreThere'
<1>1. /\ UNCHANGED <<issued, kind, waiting, active, output, event>> /\ NextTypeOK
      /\ unsent \in Seq(Command)
  BY DEF Write, schedVars, MInv, TypeOK, NextTypeOK
<1>2. ASSUME \A d \in Command : UnderSending(d)' <=> UnderSending(d)
      PROVE  TasksAreThere'
  BY <1>1, <1>2, PlacedStays
<1>3. CASE WriteCommand
  <2>1. unsent # <<>> /\ unsent' = Tail(unsent) /\ current'.cmd = Head(unsent) /\ ~Sending
    BY <1>3 DEF WriteCommand, Sending, SendingPhases
  <2>2. Sending'
    BY <1>1, <1>3, WriteCommandPhases
       DEF MInv, VInv, Sent, UnsentInOrder, WriteCommand, Sending, SendingPhases
  <2>3. \A d : Has(unsent', d) <=> Has(unsent, d) /\ d # Head(unsent)
    BY <1>1, <2>1, TailProperties DEF MInv, VInv, Sent, UnsentInOrder
  <2>4. Has(unsent, Head(unsent))
    BY <1>1, <2>1, HeadAndTail DEF Has
  <2> QED
    BY <1>2, <2>1, <2>2, <2>3, <2>4 DEF UnderSending
<1>4. CASE WriteRest \/ WriteAuthenticateData \/ WriteDone
  <2>1. UNCHANGED unsent /\ current'.cmd = current.cmd /\ (Sending' <=> Sending)
    BY <1>1, <1>4 DEF WriteRest, WriteAuthenticateData, WriteDone, NextTypeOK, Sending,
                      SendingPhases
  <2> QED
    BY <1>2, <2>1 DEF UnderSending, Has
<1> QED
  BY <1>3, <1>4, <1>1 DEF Write

\* The scheduler is told that a command was sent.
LEMMA SendTasks ==
    ASSUME MInv, TasksAreThere, EngineIdles, current.phase \notin IdlePhases, Alive,
           NEW c \in Command, SendEvent(c)
    PROVE  TasksAreThere' /\ Alive'
<1>1. /\ UNCHANGED <<issued, kind, unsent>> /\ current.cmd = c /\ current.phase # "none"
      /\ current.phase \in {"sent", "auth_sent"} /\ Start(c)
  BY DEF SendEvent, CommandSent, AuthenticateStarted, IdleCommandSent, IdleDoneSent,
         EventCommandSent, EventAuthenticateStarted, EventIdleCommandSent, EventIdleDoneSent,
         Report, IdlePhases
<1>2. Sending /\ c <= issued /\ kind[c] # "idle" /\ ~Has(unsent, c)
  BY <1>1, HolderIsWritten DEF Sending, SendingPhases, EngineIdles, Unwritten
<1>3. Has(waiting, c)
  BY <1>1, <1>2 DEF TasksAreThere, IsPlaced, UnderSending
<1>4. Starts(c)
  <2>1. ~Sending'
    BY <1>1 DEF SendEvent, CommandSent, AuthenticateStarted, IdleCommandSent, IdleDoneSent,
                EventCommandSent, EventAuthenticateStarted, EventIdleCommandSent,
                EventIdleDoneSent, Report, Sending, SendingPhases, NoCommand
  <2> QED
    BY <1>1, <1>2, <1>3, <2>1 DEF Start, Starts
<1>5. /\ waiting \in Seq(Command) /\ active \in Seq(Command)
      /\ Increasing(waiting) /\ Increasing(active) /\ \A d \in Command : Has(active, d) => d < c
      /\ ~Sending' /\ UNCHANGED output /\ event' = Continue
  BY <1>1, <1>2, <1>4 DEF MInv, TypeOK, SchedTypeOK, TasksAreOnce, SendsInOrder, Starts
<1>6. \A d : Has(waiting', d) <=> Has(waiting, d) /\ d # c
  <2>1. \A d : Has(remove_by_handle(waiting, c), d) <=> Has(waiting, d) /\ d # c
    BY <1>3, <1>5, RemoveProperties
  <2> QED
    BY <1>4, <2>1 DEF Starts
<1>7. \A d : Has(active', d) <=> Has(active, d) \/ d = c
  <2>1. \A d : Has(push_back(active, c), d) <=> Has(active, d) \/ d = c
    BY <1>5, PushBackProperties
  <2> QED
    BY <1>4, <2>1 DEF Starts
<1>8. ASSUME NEW d \in Command, d <= issued, kind[d] # "idle" PROVE IsPlaced(d)'
  <2>1. IsPlaced(d)
    BY <1>8 DEF TasksAreThere
  <2>2. UnderSending(d)' <=> Has(unsent, d)
    BY <1>1, <1>5 DEF UnderSending, Has
  <2>3. CASE d = c
    BY <1>2, <1>7, <2>2, <2>3 DEF IsPlaced
  <2>4. CASE d # c
    BY <1>1, <1>5, <1>6, <1>7, <2>1, <2>2, <2>4 DEF IsPlaced, UnderSending
  <2> QED
    BY <2>3, <2>4
<1>9. Alive'
  BY <1>5 DEF Alive, Continue, Ended
<1> QED
  BY <1>1, <1>8, <1>9 DEF TasksAreThere

\* A response whose arm tells the scheduler that a command ended, or that it may go
\* on, finds the task; but for that of a command that is refused while it is sent.
LEMMA ReceiveTasks ==
    ASSUME MInv, TasksAreThere, EngineIdles, current.phase \notin IdlePhases, Alive,
           IdleTags = {}, ReturnedIsOver, NEW r, ReceiveEvent(r)
    PROVE  TasksAreThere' /\ OnlyRefusalPanics' /\ NoUnexpectedTagged'
<1>1. /\ Receive(r) /\ UNCHANGED <<issued, kind, unsent>> /\ NextTypeOK /\ SchedTypeOK
      /\ CanReceive
  BY ArmsReceive DEF Receive, MInv, TypeOK
<1>2. /\ r \in Responses
      /\ Sending' => Sending /\ current'.cmd = current.cmd
      /\ (\E name \in EventNames : Return(name)) \/ Route(r) \/ Finishes(r)
  BY ReceiveArms
<1>3. ASSUME Sending => Sending' /\ current'.cmd = current.cmd, event'.name # "panic",
             NoUnexpectedTagged'
      PROVE  TasksAreThere' /\ OnlyRefusalPanics' /\ NoUnexpectedTagged'
  <2>1. \A d \in Command : UnderSending(d)' <=> UnderSending(d)
    BY <1>1, <1>2, <1>3 DEF UnderSending, Has
  <2>2. ASSUME NEW d \in Command, d <= issued, kind[d] # "idle" PROVE IsPlaced(d)'
    <3>1. IsPlaced(d)
      BY <2>2 DEF TasksAreThere
    <3>2. CASE UNCHANGED <<waiting, active, output>>
      BY <2>1, <3>1, <3>2 DEF IsPlaced, Has
    <3>3. CASE Finishes(r)
      <4>1. PICK c \in Command : c = r.id
        BY <1>2, <3>3, MaxCommandsAssumption DEF Finishes, Responses, Command
      <4>2. /\ active \in Seq(Command) /\ Increasing(active) /\ Has(active, c)
            /\ active' = remove_by_handle(active, c) /\ UNCHANGED waiting
            /\ output' = [output EXCEPT ![c] = process_tagged(kind[c], consumed[c], r)]
        BY <1>1, <3>3, <4>1 DEF MInv, TasksAreOnce, SchedTypeOK, Finishes, Finish
      <4>3. \A e : Has(active', e) <=> Has(active, e) /\ e # c
        <5>1. \A e : Has(remove_by_handle(active, c), e) <=> Has(active, e) /\ e # c
          BY <4>2, RemoveProperties
        <5> QED
          BY <4>2, <5>1
      <4>4. process_tagged(kind[c], consumed[c], r) # NoOutput
        <5>1. r.status \in Final
          BY <1>2, <3>3 DEF Finishes, Responses, Final
        <5> QED
          BY <5>1, VerdictOfStatus
      <4>5. output'[c] # NoOutput /\ (d # c => output'[d] = output[d])
        BY <1>1, <4>2, <4>4 DEF SchedTypeOK
      <4>6. Has(waiting, d)' <=> Has(waiting, d)
        BY <4>2 DEF Has
      <4>7. ~UnderSending(c)
        <5>1. ~Has(waiting, c) /\ c <= issued
          BY <4>2 DEF MInv, TasksAreOnce
        <5>2. ASSUME Sending, current.cmd = c PROVE FALSE
          BY <4>2, <5>2 DEF MInv, SendsInOrder, Command
        <5>3. ASSUME Has(unsent, c) PROVE FALSE
          BY <4>2, <5>3 DEF MInv, SendsInOrder, Command
        <5> QED
          BY <5>2, <5>3 DEF UnderSending
      <4> QED
        BY <2>1, <3>1, <4>3, <4>5, <4>6, <4>7 DEF IsPlaced
    <3> QED
      BY <1>2, <3>2, <3>3 DEF Return, Route
  <2> QED
    BY <1>1, <1>3, <2>2 DEF TasksAreThere, OnlyRefusalPanics, Alive
<1>4. ASSUME current.phase = "auth"
      PROVE  Has(active, current.cmd)
  <2>1. /\ current.cmd \in Command /\ current.cmd <= issued /\ ~Has(unsent, current.cmd)
        /\ kind[current.cmd] # "idle" /\ output[current.cmd] = NoOutput
    BY <1>4, HolderIsWritten
       DEF EngineIdles, IdlePhases, Unwritten, MInv, VInv, Held, AuthIsOpen, AuthPhases
  <2>2. ~UnderSending(current.cmd)
    BY <1>4, <2>1 DEF UnderSending, Sending, SendingPhases
  <2> QED
    BY <2>1, <2>2 DEF TasksAreThere, IsPlaced
<1>5. CASE CommandRejected(r)
  <2>1. /\ r.type = "tagged" /\ r.id = current.cmd /\ current.phase = "literal"
        /\ FinishByHandle(r.id, r)
    BY <1>5 DEF CommandRejected, EventCommandRejected, LiteralRefused, Ends
  <2>2. /\ current.cmd \in Command /\ current.cmd <= issued /\ kind[current.cmd] # "idle"
        /\ UnderSending(current.cmd)
    BY <2>1, HolderIsWritten DEF EngineIdles, IdlePhases, UnderSending, Sending, SendingPhases
  <2>3. Has(waiting, r.id) /\ ~Has(active, r.id)
    BY <2>1, <2>2 DEF TasksAreThere, IsPlaced, MInv, TasksAreOnce
  <2>4. event' = Ended("panic", 0) /\ UNCHANGED waiting
    BY <2>1, <2>3 DEF FinishByHandle, Panic
  <2>5. Has(waiting, r.id)' /\ Answered(r.id)' /\ r.id \in Command
    BY <1>1, <2>1, <2>3, <2>4, VerdictIsMet DEF Has
  <2> QED
    BY <2>4, <2>5 DEF TasksAreThere, OnlyRefusalPanics, NoUnexpectedTagged, Alive, Ended
<1>6. CASE AuthenticateStatusReceived(r)
  <2>1. /\ r.id = current.cmd /\ current.phase = "auth" /\ FinishByHandle(r.id, r)
    BY <1>6 DEF AuthenticateStatusReceived, EventAuthenticateStatusReceived,
                AuthenticateEnded, Ends
  <2>2. event' = Ended("TaskFinished", r.id)
    BY <1>4, <2>1 DEF FinishByHandle, Finish
  <2> QED
    BY <1>3, <2>1, <2>2 DEF Ended, NoUnexpectedTagged, Sending, SendingPhases
<1>7. CASE IdleRejected(r)
  BY <1>7 DEF IdleRejected, EventIdleRejected, IdleRefused, Ends, IdlePhases
<1>8. ASSUME NEW c \in Command, AuthenticateContinuationRequestReceived(c, r)
      PROVE  TasksAreThere' /\ OnlyRefusalPanics' /\ NoUnexpectedTagged'
  <2>1. current.cmd = c /\ current.phase = "auth"
    BY <1>8 DEF AuthenticateContinuationRequestReceived,
                EventAuthenticateContinuationRequestReceived
  <2>2. Return("continue") \/ Return("Unsolicited")
    BY <1>4, <1>8, <2>1 DEF AuthenticateContinuationRequestReceived
  <2> QED
    BY <1>3, <2>1, <2>2 DEF Return, Ended, NoUnexpectedTagged, Sending, SendingPhases
<1>9. ASSUME NEW name \in EventNames \ {"panic", "UnexpectedTaggedResponse"}, Return(name)
      PROVE  event'.name # "panic" /\ NoUnexpectedTagged'
  BY <1>9 DEF Return, Ended, NoUnexpectedTagged
<1>10. ASSUME Route(r) PROVE event'.name # "panic" /\ NoUnexpectedTagged'
  BY <1>9, <1>10 DEF Route, EventNames, Continue, Ended, NoUnexpectedTagged
<1>11. CASE GreetingReceived(r) \/ DataReceived(r) \/ ContinuationRequestReceived(r)
               \/ StatusReceived(r) \/ MalformedMessage(r)
  <2>1. UNCHANGED current
    BY <1>11 DEF GreetingReceived, EventGreetingReceived, DataReceived, EventDataReceived,
                 ContinuationRequestReceived, EventContinuationRequestReceived,
                 StatusReceived, EventStatusReceived, MalformedMessage,
                 ErrorMalformedMessage, engineVars
  <2>2. event'.name # "panic" /\ NoUnexpectedTagged'
    BY <1>9, <1>10, <1>11 DEF GreetingReceived, DataReceived, ContinuationRequestReceived,
                              StatusReceived, MalformedMessage, EventNames
  <2> QED
    BY <1>3, <2>1, <2>2 DEF Sending
<1>12. CASE TaggedReceived(r)
  <2>1. UNCHANGED current
    BY <1>12 DEF TaggedReceived, EventStatusReceived, engineVars
  <2>2. /\ r.type = "tagged" /\ ~LiteralRefused(r)
        /\ IF Has(active, r.id) THEN Finish(r.id, r, remove_by_tag(active, r.id))
                                ELSE Return("UnexpectedTaggedResponse")
    BY <1>12 DEF TaggedReceived, EventStatusReceived
  <2>3. /\ r.id \in Command /\ r.status \in Final /\ server[r.id] = r.status
        /\ output[r.id] = NoOutput /\ ~Unwritten(r.id)
    BY <1>1, <2>2, TaggedIsVerdict DEF MInv
  <2>4. r.id <= issued /\ ~Has(unsent, r.id) /\ r.id \in 1..issued
    BY <1>1, <2>3, MaxCommandsAssumption DEF Unwritten, NextTypeOK, Command
  <2>5. kind[r.id] # "idle"
    <3>1. r = wire[1] /\ 1 \in DOMAIN wire
      BY <1>1, TailOfWire DEF Receive, CanReceive
    <3>2. ~IsOver(r.id)
      BY <2>2, <3>1 DEF IsOver
    <3> QED
      BY <2>3, <2>4, <3>2 DEF ReturnedIsOver, IdleTags
  <2>6. ASSUME Sending, current.cmd = r.id PROVE FALSE
    <3>1. greeted
      BY <2>6 DEF Sending, SendingPhases, MInv, VInv, Held, HeldIsWritten
    <3>2. current.phase = "literal"
      BY <1>1, <2>6, <3>1 DEF Sending, SendingPhases, CanReceive, CanWrite, EventPending
    <3>3. r.status \in {"NO", "BAD"}
      BY <2>3, <2>6, <3>2 DEF MInv, VInv, Held, LiteralIsOpen, Final
    <3> QED
      BY <2>2, <2>6, <3>2, <3>3 DEF LiteralRefused, Ends
  <2>7. Has(active, r.id)
    BY <2>3, <2>4, <2>5, <2>6 DEF TasksAreThere, IsPlaced, UnderSending
  <2>8. event'.name # "panic" /\ NoUnexpectedTagged'
    BY <2>2, <2>7 DEF Finish, Ended, NoUnexpectedTagged
  <2> QED
    BY <1>3, <2>1, <2>8 DEF Sending
<1>13. CASE (LiteralContinue(r) /\ Return("continue")) \/ IdleAccepted(r)
  <2>1. current.phase = "literal" /\ current' = [current EXCEPT !.phase = "rest"]
        /\ Return("continue")
    BY <1>13 DEF LiteralContinue, IdleAccepted, EventIdleAccepted, IdlePhases
  <2>2. current'.cmd = current.cmd /\ Sending'
    BY <1>1, <2>1 DEF NextTypeOK, Sending, SendingPhases
  <2> QED
    BY <1>3, <1>9, <2>1, <2>2 DEF EventNames
<1> QED
  BY <1>5, <1>6, <1>7, <1>8, <1>11, <1>12, <1>13 DEF ReceiveEvent

\* Every step of a session: the tasks.
LEMMA TasksStep ==
    ASSUME NoIdleTask, MInv, EngineIdles, CallsHaveTheirKind, IdleIsAlone, ReturnedIsOver,
           TasksAreThere, OnlyRefusalPanics, NoUnexpectedTagged, [SessionNext]_sessionVars
    PROVE  TasksAreThere' /\ OnlyRefusalPanics' /\ NoUnexpectedTagged'
<1>1. ASSUME UNCHANGED <<waiting, event>> PROVE OnlyRefusalPanics' /\ NoUnexpectedTagged'
  BY <1>1, SessionAnsweredStays DEF OnlyRefusalPanics, NoUnexpectedTagged, Alive, Has
<1>2. ASSUME Alive, UNCHANGED event PROVE OnlyRefusalPanics' /\ NoUnexpectedTagged'
  BY <1>2 DEF OnlyRefusalPanics, NoUnexpectedTagged, Alive
<1>3. ASSUME NEW k \in Kinds, resolve(k), Alive
      PROVE  TasksAreThere' /\ OnlyRefusalPanics' /\ NoUnexpectedTagged'
  BY <1>2, <1>3, EnqueueTasks DEF resolve, enqueue_task
<1>4. CASE enqueue_idle /\ Alive
  BY <1>2, <1>4, EnqueueTasks DEF enqueue_idle, schedVars
<1>5. CASE ResolvingTask_next
  <2>1. Alive /\ IdleTags = {} /\ current.phase \notin IdlePhases
    BY <1>5, NoIdleHolds DEF ResolvingTask_next, progress
  <2>2. ASSUME NEW c \in Command, SendEvent(c)
        PROVE  TasksAreThere' /\ OnlyRefusalPanics' /\ NoUnexpectedTagged'
    <3>1. TasksAreThere' /\ Alive'
      BY <2>1, <2>2, SendTasks
    <3>2. event'.name # "UnexpectedTaggedResponse"
      BY <2>2 DEF SendEvent, CommandSent, AuthenticateStarted, IdleCommandSent, IdleDoneSent,
                  Start, Panic, Return, Continue, Ended
    <3> QED
      BY <3>1, <3>2 DEF OnlyRefusalPanics, NoUnexpectedTagged, Alive
  <2> QED
    BY <1>5, <2>1, <2>2, ReceiveTasks DEF ResolvingTask_next, progress
<1>6. CASE idle \/ idle_done
  <2>1. IdleTags # {}
    BY <1>6 DEF idle, idle_done, CallsHaveTheirKind, Free
  <2>2. /\ UNCHANGED <<issued, kind, unsent, waiting, active, output, event>>
        /\ current'.cmd \in {0, current.cmd}
    BY <1>6, IdleLeaves DEF schedVars
  <2> QED
    BY <1>1, <2>1, <2>2, AloneTasks
<1>7. CASE idle_timeout \/ idle_done_call
  <2>1. IdleTags # {}
    <3>1. ASSUME idle_timeout PROVE IdleTags # {}
      BY <3>1 DEF idle_timeout, CallsHaveTheirKind, Free
    <3>2. ASSUME idle_done_call PROVE IdleTags # {}
      BY <3>2 DEF idle_done_call
    <3> QED
      BY <1>7, <3>1, <3>2
  <2>2. set_idle_done /\ NextUnchanged /\ UNCHANGED schedVars
    BY <1>7 DEF idle_timeout, idle_done_call
  <2>3. /\ UNCHANGED <<issued, kind, unsent, waiting, active, output, event>>
        /\ current'.cmd \in {0, current.cmd}
    BY <2>2 DEF set_idle_done, NextUnchanged, schedVars, MInv, TypeOK, NextTypeOK
  <2> QED
    BY <1>1, <2>1, <2>3, AloneTasks
<1>8. CASE StreamWrite
  BY <1>1, <1>8, WriteTasks DEF StreamWrite, WriteOutput, schedVars
<1>9. CASE \/ ServerStep /\ UNCHANGED callVars
           \/ idle_call \/ StreamRead \/ StreamClosed \/ Drop \/ UNCHANGED sessionVars
  <2>1. UNCHANGED <<issued, kind, unsent, current, waiting, active, output, event>>
    BY <1>9 DEF ServerStep, Server, Answer, GoAhead, AcceptIdle, Invite, Challenge, Provide,
                Complete, Volunteer, callVars, schedVars, idle_call, StreamRead, StreamClosed,
                Drop, vars, sessionVars
  <2>2. \A c \in Command : UnderSending(c)' <=> UnderSending(c)
    BY <2>1 DEF UnderSending, Sending, Has
  <2> QED
    BY <1>1, <2>1, <2>2, PlacedStays
<1> QED
  BY <1>3, <1>4, <1>5, <1>6, <1>7, <1>8, <1>9 DEF SessionNext, Step, AllCalled

\* The inductive invariant of sessions with IDLE: part of it holds
\* whatever the program does, the rest of one that uses IDLE as it is meant (tidy).
IdleInv ==
    /\ EngineIdles /\ CallsHaveTheirKind
    /\ tidy => /\ Handshake /\ IdleIsAlone /\ ReturnedIsOver
               /\ TasksAreThere /\ OnlyRefusalPanics /\ NoUnexpectedTagged

\* The invariant of sessions with IDLE holds of every state of a session.
LEMMA IdleInvariance == NoIdleTask => (SessionSpec => []IdleInv)
<1> SUFFICES ASSUME NoIdleTask PROVE SessionSpec => []IdleInv
  OBVIOUS
<1>1. SessionInit => IdleInv
  <2> SUFFICES ASSUME SessionInit PROVE IdleInv
    OBVIOUS
  <2>1. EngineIdles /\ Handshake
    BY InitIdles DEF SessionInit
  <2>2. issued = 0 /\ caller = Free /\ returned = [c \in Command |-> "pending"]
        /\ event = Continue
    BY DEF SessionInit, Init, NextInit, SchedInit
  <2>3. IdleTags = {} /\ CallsHaveTheirKind /\ ReturnedIsOver
    BY <2>2 DEF IdleTags, CallsHaveTheirKind, Outcomes, ReturnedIsOver
  <2>4. TasksAreThere /\ OnlyRefusalPanics /\ NoUnexpectedTagged
    BY <2>2, MaxCommandsAssumption
       DEF TasksAreThere, OnlyRefusalPanics, NoUnexpectedTagged, Alive, Continue, Ended, Command
  <2> QED
    BY <2>1, <2>3, <2>4 DEF IdleInv, IdleIsAlone
<1>2. MInv /\ IdleInv /\ [SessionNext]_sessionVars => IdleInv'
  <2> SUFFICES ASSUME MInv, IdleInv, [SessionNext]_sessionVars PROVE IdleInv'
    OBVIOUS
  <2>1. EngineIdles' /\ (tidy' => tidy /\ EngineKeeps) /\ CallsHaveTheirKind'
    BY EngineStep, CallsStep DEF IdleInv
  <2>2. ASSUME tidy'
        PROVE  /\ Handshake' /\ IdleIsAlone' /\ ReturnedIsOver'
               /\ TasksAreThere' /\ OnlyRefusalPanics' /\ NoUnexpectedTagged'
    <3>1. /\ EngineKeeps /\ Handshake /\ IdleIsAlone /\ ReturnedIsOver
          /\ TasksAreThere /\ OnlyRefusalPanics /\ NoUnexpectedTagged
          /\ EngineIdles /\ CallsHaveTheirKind
      BY <2>1, <2>2 DEF IdleInv
    <3>2. Handshake'
      BY <3>1 DEF EngineKeeps
    <3> QED
      BY <2>2, <3>1, <3>2, AloneStep, OverStep, TasksStep
  <2> QED
    BY <2>1, <2>2 DEF IdleInv
<1> QED
  BY <1>1, <1>2, SessionInvariance, PTL DEF SessionSpec

\* When idle() or idle_done() returned Ok the IDLE is over on both sides, as long as
\* IDLE is used as it is meant: the server has ended or refused it, its tagged
\* response is consumed, and the engine is not left in the middle of it
\* (tokio.rs:1195-1264).
THEOREM IdleIsOverHolds == NoIdleTask => (SessionSpec => []IdleIsOver)
<1>1. IdleInv => IdleIsOver
  <2> SUFFICES ASSUME IdleInv, tidy, NEW c \in Command, returned[c] = "ok"
               PROVE  Answered(c) /\ VerdictsUnderWay(c) = 0 /\ current.cmd # c
    BY DEF IdleIsOver
  <2>1. IsOver(c)
    BY DEF IdleInv, ReturnedIsOver
  <2>2. {i \in DOMAIN wire : wire[i].type = "tagged" /\ wire[i].id = c} = {}
    BY <2>1 DEF IsOver
  <2> QED
    BY <2>1, <2>2, FS_EmptySet DEF IsOver, VerdictsUnderWay
<1> QED
  BY <1>1, IdleInvariance, PTL

\* And then going round the scheduler breaks none of the unwraps on its maps: the
\* only one to fail is that of a command refused before it was reported as sent.
THEOREM IdleKeepsUnwrapsHolds == NoIdleTask => (SessionSpec => []IdleKeepsUnwraps)
<1>1. MInv /\ IdleInv => IdleKeepsUnwraps
  <2> SUFFICES ASSUME IdleInv, tidy, ~Alive
               PROVE  \E i \in DOMAIN waiting : Answered(waiting[i])
    BY DEF IdleKeepsUnwraps
  <2> QED
    BY DEF IdleInv, OnlyRefusalPanics, Has
<1> QED
  BY <1>1, IdleInvariance, SessionInvariance, PTL

\* What is proved of sessions without IDLE holds of those that use it as it is meant,
\* too: the map of the active tasks has each command in progress, and no tagged
\* response is unexpected.
THEOREM TidySessions ==
    NoIdleTask => (SessionSpec => [](tidy => ActiveHoldsInProgress /\ NoUnexpectedTagged))
<1>1. MInv /\ IdleInv => (tidy => ActiveHoldsInProgress /\ NoUnexpectedTagged)
  <2> SUFFICES ASSUME MInv, IdleInv, tidy, Alive, NEW c \in Command, Reported(c),
                      kind[c] # "idle", ~Answered(c) \/ VerdictsUnderWay(c) > 0
               PROVE  Has(active, c)
    BY DEF ActiveHoldsInProgress, IdleInv
  <2>1. c <= issued /\ ~UnderSending(c)
    BY DEF Reported, UnderSending, Has
  <2>2. IsPlaced(c)
    BY <2>1 DEF IdleInv, TasksAreThere
  <2>3. output[c] = NoOutput
    <3>1. CASE ~Answered(c)
      BY <3>1 DEF MInv, VInv, Decided, OutputIsAnswer
    <3>2. CASE VerdictsUnderWay(c) > 0
      <4>1. {i \in DOMAIN wire : wire[i].type = "tagged" /\ wire[i].id = c} # {}
        BY <3>2, FS_EmptySet DEF VerdictsUnderWay
      <4>2. PICK i \in DOMAIN wire : wire[i].type = "tagged" /\ wire[i].id = c
        BY <4>1
      <4> QED
        BY <4>2 DEF MInv, VInv, Decided, VerdictsAreOnce, Tagged
    <3> QED
      BY <3>1, <3>2
  <2> QED
    BY <2>1, <2>2, <2>3 DEF IsPlaced
<1> QED
  BY <1>1, IdleInvariance, SessionInvariance, PTL

=============================================================================
