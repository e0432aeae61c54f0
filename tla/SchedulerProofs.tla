-------------------------- MODULE SchedulerProofs --------------------------
(***************************************************************************)
(* Proofs, for every value of the constants, of the invariants of module   *)
(* Scheduler that tie its two maps to each other, to the engine's queue    *)
(* and to the outputs.                                                     *)
(***************************************************************************)
EXTENDS Scheduler, SequenceTheorems, WellFoundedInduction, TLAPS

-----------------------------------------------------------------------------
(* Sequences and the operations of TaskMap *)

\* A set of positions that is not empty has a least one.
LEMMA LeastExists ==
    ASSUME NEW S \in SUBSET Nat, S # {}
    PROVE  \E i \in S : \A j \in S : i <= j
<1>1. PICK i \in S : \A j \in S : ~(<<j, i>> \in OpToRel(<, Nat))
  BY NatLessThanWellFounded, WFMin
<1>2. \A j \in S : ~(j < i)
  BY <1>1 DEF OpToRel
<1> QED
  BY <1>2

\* What is left of a sequence without its i-th element.
LEMMA WithoutProperties ==
    ASSUME NEW S, NEW s \in Seq(S), NEW i \in 1..Len(s)
    PROVE  /\ Without(s, i) \in Seq(S)
           /\ Len(Without(s, i)) = Len(s) - 1
           /\ \A j \in 1..Len(s) - 1 :
                 Without(s, i)[j] = IF j < i THEN s[j] ELSE s[j + 1]
<1> DEFINE l == SubSeq(s, 1, i - 1)
           r == SubSeq(s, i + 1, Len(s))
<1>1. /\ l \in Seq(S) /\ Len(l) = i - 1
      /\ \A j \in 1..i - 1 : l[j] = s[j]
  BY SubSeqProperties, \A j \in 1..i - 1 : s[j] \in S
<1>2. /\ r \in Seq(S) /\ Len(r) = Len(s) - i
      /\ \A j \in 1..Len(s) - i : r[j] = s[i + j]
  <2>1. \A j \in i + 1..Len(s) : s[j] \in S
    OBVIOUS
  <2> QED
    BY <2>1, SubSeqProperties
<1> HIDE DEF l, r
<1>3. /\ l \o r \in Seq(S) /\ Len(l \o r) = Len(l) + Len(r)
      /\ \A j \in 1..Len(l) + Len(r) :
            (l \o r)[j] = IF j <= Len(l) THEN l[j] ELSE r[j - Len(l)]
  BY <1>1, <1>2, ConcatProperties
<1>4. \A j \in 1..Len(s) - 1 : (l \o r)[j] = IF j < i THEN s[j] ELSE s[j + 1]
  <2> TAKE j \in 1..Len(s) - 1
  <2>1. CASE j < i
    BY <2>1, <1>1, <1>2, <1>3
  <2>2. CASE ~(j < i)
    <3>1. j - Len(l) \in 1..Len(s) - i /\ ~(j <= Len(l)) /\ j \in 1..Len(l) + Len(r)
      BY <2>2, <1>1, <1>2
    <3>2. r[j - Len(l)] = s[i + (j - Len(l))] /\ i + (j - Len(l)) = j + 1
      BY <3>1, <1>1, <1>2
    <3> QED
      BY <2>2, <3>1, <3>2, <1>3
  <2> QED
    BY <2>1, <2>2
<1>5. Len(l \o r) = Len(s) - 1
  BY <1>1, <1>2, <1>3
<1>6. Without(s, i) = l \o r
  BY DEF Without, l, r
<1> QED
  BY <1>3, <1>4, <1>5, <1>6, Zenon

\* position finds the element when there is one.
LEMMA PositionProperties ==
    ASSUME NEW S, NEW s \in Seq(S), NEW c, Has(s, c)
    PROVE  position(s, c) \in 1..Len(s) /\ s[position(s, c)] = c
<1> DEFINE P == {i \in DOMAIN s : s[i] = c}
<1>1. P \in SUBSET Nat /\ P # {}
  BY DEF Has
<1>2. PICK i \in P : \A j \in P : i <= j
  BY <1>1, LeastExists
<1> QED
  BY <1>2 DEF position

\* Removing c from a sequence in increasing order removes it altogether, and
\* keeps everything else, in its order.
LEMMA RemoveProperties ==
    ASSUME NEW s \in Seq(Command), Increasing(s), NEW c, Has(s, c)
    PROVE  /\ remove_by_handle(s, c) \in Seq(Command)
           /\ Increasing(remove_by_handle(s, c))
           /\ \A d : Has(remove_by_handle(s, c), d) <=> Has(s, d) /\ d # c
<1> DEFINE p == position(s, c)
           t == remove_by_handle(s, c)
<1>1. p \in 1..Len(s) /\ s[p] = c
  BY PositionProperties
<1>2. /\ t \in Seq(Command) /\ Len(t) = Len(s) - 1
      /\ \A j \in 1..Len(s) - 1 : t[j] = IF j < p THEN s[j] ELSE s[j + 1]
  BY <1>1, WithoutProperties DEF remove_by_handle
<1>3. \A i \in 1..Len(s) : s[i] \in Nat
  BY MaxCommandsAssumption DEF Command
<1> HIDE DEF t, p
<1>4. Increasing(t)
  <2> SUFFICES ASSUME NEW i \in 1..Len(t), NEW j \in 1..Len(t), i < j
               PROVE  t[i] < t[j]
    BY <1>2 DEF Increasing
  <2> DEFINE k == IF i < p THEN i ELSE i + 1
             m == IF j < p THEN j ELSE j + 1
  <2>1. /\ k \in 1..Len(s) /\ m \in 1..Len(s) /\ k < m
        /\ t[i] = s[k] /\ t[j] = s[m]
    BY <1>1, <1>2
  <2> HIDE DEF k, m
  <2> QED
    BY <2>1 DEF Increasing
<1>5. ASSUME NEW d, Has(t, d) PROVE Has(s, d) /\ d # c
  <2>1. PICK j \in 1..Len(t) : t[j] = d
    BY <1>2, <1>5 DEF Has
  <2>2. \E k \in 1..Len(s) : s[k] = d /\ k # p
    BY <2>1, <1>2, <1>1
  <2> QED
    BY <2>2, <1>1, <1>3 DEF Has, Increasing
<1>6. ASSUME NEW d, Has(s, d), d # c PROVE Has(t, d)
  <2>1. PICK k \in 1..Len(s) : s[k] = d
    BY <1>6 DEF Has
  <2>2. CASE k < p
    <3>1. k \in 1..Len(t) /\ t[k] = d
      BY <2>1, <2>2, <1>1, <1>2
    <3> QED
      BY <3>1, <1>2 DEF Has
  <2>3. CASE k > p
    <3>1. k - 1 \in 1..Len(t) /\ t[k - 1] = d
      BY <2>1, <2>3, <1>1, <1>2
    <3> QED
      BY <3>1, <1>2 DEF Has
  <2> QED
    BY <2>1, <2>2, <2>3, <1>1, <1>6
<1> QED
  BY <1>2, <1>4, <1>5, <1>6 DEF t

\* Appending a larger element.
LEMMA PushBackProperties ==
    ASSUME NEW s \in Seq(Command), NEW c \in Command
    PROVE  /\ push_back(s, c) \in Seq(Command)
           /\ \A d : Has(push_back(s, c), d) <=> Has(s, d) \/ d = c
           /\ Increasing(s) /\ (\A d \in Command : Has(s, d) => d < c)
                 => Increasing(push_back(s, c))
<1> DEFINE t == push_back(s, c)
<1>1. /\ t \in Seq(Command) /\ Len(t) = Len(s) + 1
      /\ \A i \in 1..Len(s) : t[i] = s[i]
      /\ t[Len(s) + 1] = c
  BY AppendProperties DEF push_back
<1> HIDE DEF t
<1>2. \A d : Has(t, d) <=> Has(s, d) \/ d = c
  <2>1. ASSUME NEW d, Has(t, d) PROVE Has(s, d) \/ d = c
    BY <1>1, <2>1 DEF Has
  <2>2. ASSUME NEW d, Has(s, d) PROVE Has(t, d)
    <3>1. PICK i \in 1..Len(s) : s[i] = d
      BY <2>2 DEF Has
    <3>2. i \in 1..Len(t) /\ t[i] = d
      BY <3>1, <1>1
    <3> QED
      BY <3>2, <1>1 DEF Has
  <2>3. Has(t, c)
    <3>1. Len(s) + 1 \in 1..Len(t)
      BY <1>1
    <3> QED
      BY <3>1, <1>1 DEF Has
  <2> QED
    BY <2>1, <2>2, <2>3
<1>3. ASSUME Increasing(s), \A d \in Command : Has(s, d) => d < c
      PROVE  Increasing(t)
  <2>1. \A i \in 1..Len(s) : s[i] < c
    BY <1>3 DEF Has
  <2> QED
    BY <2>1, <1>1, <1>3 DEF Increasing
<1> QED
  BY <1>1, <1>2, <1>3 DEF t

\* The first element of a map: what is left without it is the tail.
LEMMA RemoveHead ==
    ASSUME NEW s \in Seq(Command), NEW c \in Command
    PROVE  /\ Has(<<c>> \o s, c)
           /\ remove_by_handle(<<c>> \o s, c) = s
<1> DEFINE t == <<c>> \o s
<1>1. /\ t \in Seq(Command) /\ Len(t) = Len(s) + 1 /\ t[1] = c
      /\ \A i \in 1..Len(s) : t[i + 1] = s[i]
  <2>1. <<c>> \in Seq(Command) /\ Len(<<c>>) = 1 /\ <<c>>[1] = c
    OBVIOUS
  <2> QED
    BY <2>1, ConcatProperties
<1> HIDE DEF t
<1>2. Has(t, c) /\ position(t, c) = 1
  <2>1. 1 \in DOMAIN t /\ t[1] = c /\ \A j \in DOMAIN t : 1 <= j
    BY <1>1
  <2> QED
    BY <2>1 DEF Has, position
<1>3. Without(t, 1) = s
  <2> DEFINE w == Without(t, 1)
  <2>1. 1 \in 1..Len(t)
    BY <1>1
  <2>2. /\ w \in Seq(Command) /\ Len(w) = Len(t) - 1
        /\ \A j \in 1..Len(t) - 1 : w[j] = IF j < 1 THEN t[j] ELSE t[j + 1]
    BY <1>1, <2>1, WithoutProperties
  <2> HIDE DEF w
  <2>3. Len(w) = Len(s) /\ \A j \in 1..Len(w) : w[j] = s[j]
    BY <1>1, <2>2
  <2>4. w = s
    BY <2>2, <2>3, SeqEqual
  <2> QED
    BY <2>4 DEF w
<1> QED
  BY <1>2, <1>3 DEF t, remove_by_handle

-----------------------------------------------------------------------------
(* Tasks *)

TaskType ==
    [shape : {"plain", "literal", "auth", "idle"}, data : SUBSET DataKinds,
     untagged : SUBSET ({"OK", "NO", "BAD"} \X Codes), bye : BOOLEAN,
     answers : BOOLEAN, keeps : {"none", "one", "latest", "all"}, needs : BOOLEAN,
     final : SUBSET Codes, prefers : BOOLEAN]

\* Every task of the table is a task description.
LEMMA TasksTyped == \A k \in TaskKinds : Task[k] \in TaskType
<1>1. Plain \in TaskType
  BY DEF Plain, TaskType, DataKinds, Codes
<1>2. /\ AppendTask \in TaskType /\ PostAppendNoOpTask \in TaskType
      /\ PostAppendCheckTask \in TaskType /\ AppendUidTask \in TaskType
      /\ AuthenticateTask \in TaskType /\ CapabilityTask \in TaskType
      /\ EnableTask \in TaskType /\ ExpungeTask \in TaskType
      /\ FetchTask \in TaskType /\ FetchFirstTask \in TaskType
      /\ IdTask \in TaskType /\ ListTask \in TaskType
      /\ LoginTask \in TaskType /\ LogoutTask \in TaskType
      /\ SearchTask \in TaskType /\ SelectTask \in TaskType
      /\ SortTask \in TaskType /\ StoreTask \in TaskType
      /\ ThreadTask \in TaskType /\ OwnIdleTask \in TaskType
      /\ OwnAuthenticateTask \in TaskType
  <2>1. AppendTask \in TaskType
    BY DEF AppendTask, Plain, TaskType, DataKinds, Codes
  <2>2. PostAppendNoOpTask \in TaskType
    BY DEF PostAppendNoOpTask, Plain, TaskType, DataKinds, Codes
  <2>3. PostAppendCheckTask \in TaskType
    BY DEF PostAppendCheckTask, Plain, TaskType, DataKinds, Codes
  <2>4. AppendUidTask \in TaskType
    BY DEF AppendUidTask, Plain, TaskType, DataKinds, Codes
  <2>5. AuthenticateTask \in TaskType
    BY DEF AuthenticateTask, Plain, TaskType, DataKinds, Codes
  <2>6. CapabilityTask \in TaskType
    BY DEF CapabilityTask, Plain, TaskType, DataKinds, Codes
  <2>7. EnableTask \in TaskType
    BY DEF EnableTask, Plain, TaskType, DataKinds, Codes
  <2>8. ExpungeTask \in TaskType
    BY DEF ExpungeTask, Plain, TaskType, DataKinds, Codes
  <2>9. FetchTask \in TaskType
    BY DEF FetchTask, Plain, TaskType, DataKinds, Codes
  <2>10. FetchFirstTask \in TaskType
    BY DEF FetchFirstTask, Plain, TaskType, DataKinds, Codes
  <2>11. IdTask \in TaskType
    BY DEF IdTask, Plain, TaskType, DataKinds, Codes
  <2>12. ListTask \in TaskType
    BY DEF ListTask, Plain, TaskType, DataKinds, Codes
  <2>13. LoginTask \in TaskType
    BY DEF LoginTask, Plain, TaskType, DataKinds, Codes
  <2>14. LogoutTask \in TaskType
    BY DEF LogoutTask, Plain, TaskType, DataKinds, Codes
  <2>15. SearchTask \in TaskType
    BY DEF SearchTask, Plain, TaskType, DataKinds, Codes
  <2>16. SelectTask \in TaskType
    BY DEF SelectTask, Plain, TaskType, DataKinds, Codes
  <2>17. SortTask \in TaskType
    BY DEF SortTask, Plain, TaskType, DataKinds, Codes
  <2>18. StoreTask \in TaskType
    BY DEF StoreTask, Plain, TaskType, DataKinds, Codes
  <2>19. ThreadTask \in TaskType
    BY DEF ThreadTask, Plain, TaskType, DataKinds, Codes
  <2>20. OwnIdleTask \in TaskType
    BY DEF OwnIdleTask, Plain, TaskType, DataKinds, Codes
  <2>21. OwnAuthenticateTask \in TaskType
    BY DEF OwnAuthenticateTask, Plain, TaskType, DataKinds, Codes
  <2> QED
    BY <2>1, <2>2, <2>3, <2>4, <2>5, <2>6, <2>7, <2>8, <2>9, <2>10, <2>11, <2>12, <2>13, <2>14, <2>15, <2>16, <2>17, <2>18, <2>19, <2>20, <2>21
<1>3. /\ CheckTask \in TaskType /\ CopyTask \in TaskType /\ CreateTask \in TaskType
      /\ DeleteTask \in TaskType /\ MoveTask \in TaskType /\ NoOpTask \in TaskType
      /\ SilentStoreTask \in TaskType
  BY <1>1 DEF CheckTask, CopyTask, CreateTask, DeleteTask, MoveTask, NoOpTask,
              SilentStoreTask
<1> QED
  BY <1>2, <1>3 DEF TaskKinds, Task

\* What a finished task returns has the type of an output, and is not NoOutput.
LEMMA ProcessTaggedTyped ==
    ASSUME NEW k \in TaskKinds, NEW s \in Seq(Responses), NEW r \in Responses,
           r.type = "tagged"
    PROVE  /\ process_tagged(k, s, r) \in [verdict : Verdicts, items : SUBSET Responses]
           /\ process_tagged(k, s, r) # NoOutput
<1>1. r.status \in {"OK", "NO", "BAD"}
  BY DEF Responses
<1>2. Kept(k, s) \subseteq Responses
  <2>1. Task[k].keeps \in {"none", "one", "latest", "all"}
    BY TasksTyped DEF TaskType
  <2>2. s # <<>> => s[Len(s)] \in Responses
    OBVIOUS
  <2> QED
    BY <2>1, <2>2 DEF Kept
<1>3. OkItems(k, s, r) \subseteq Responses
  BY <1>2 DEF OkItems
<1> QED
  BY <1>1, <1>3 DEF process_tagged, NoOutput, Verdicts

-----------------------------------------------------------------------------
(* The inductive invariant *)

IInv == TypeOK /\ WaitingIsUnsent /\ EveryCommandHasItsTask

CurrentType == [cmd : 0..MaxCommands, phase : Phase]

\* A step that touches neither the maps nor what is to be sent.
LEMMA QuietStep ==
    ASSUME IInv, Alive, TypeOK',
           UNCHANGED <<waiting, active, output, issued>>,
           (BeingSent \o unsent)' = BeingSent \o unsent
    PROVE  IInv'
BY DEF IInv, WaitingIsUnsent, EveryCommandHasItsTask, Increasing, Has, Alive

\* The initial states.
LEMMA InitIInv == Init => IInv
<1> SUFFICES ASSUME Init PROVE IInv
  OBVIOUS
<1> USE DEF Init, NextInit, SchedInit
<1>1. NextTypeOK
  <2>1. Greeting \in Responses
    BY MaxCommandsAssumption DEF Greeting, Response, Responses, Types, What
  <2>2. wire \in Seq(Responses)
    <3>1. CASE wire = <<>>
      BY <3>1
    <3>2. CASE wire = <<Greeting>>
      BY <2>1, <3>2
    <3> QED
      BY <3>1, <3>2
  <2>3. current \in [cmd : 0..MaxCommands, phase : Phase]
    BY MaxCommandsAssumption DEF NoCommand, Phase
  <2>4. issued \in 0..MaxCommands /\ budget \in Nat
    BY BoundsAssumption, MaxCommandsAssumption
  <2>8. greeted \in BOOLEAN /\ open \in BOOLEAN
    OBVIOUS
  <2>7. \A c \in 1..issued : kind[c] # "none"
    <3>1. issued = 0
      OBVIOUS
    <3> QED
      BY <3>1
  <2>6. unsent \in Seq(Command)
    OBVIOUS
  <2>5. /\ kind \in [Command -> TaskKinds \cup {"none"}]
        /\ server \in [Command -> ServerPhase]
        /\ given \in [Command -> Seq(Responses)]
    BY DEF ServerPhase
  <2> QED
    BY <2>2, <2>3, <2>4, <2>5, <2>6, <2>7, <2>8 DEF NextTypeOK
<1>2. SchedTypeOK
  BY MaxCommandsAssumption
     DEF SchedTypeOK, NoOutput, Verdicts, Continue, Ended, EventNames
<1>3. WaitingIsUnsent
  BY DEF WaitingIsUnsent, BeingSent, NoCommand
<1>4. EveryCommandHasItsTask
  BY MaxCommandsAssumption DEF EveryCommandHasItsTask, Increasing, Has, Command
<1> QED
  BY <1>1, <1>2, <1>3, <1>4 DEF IInv, TypeOK

\* A sequence that is not empty is its head and its tail.
LEMMA HeadAndTail ==
    ASSUME NEW S, NEW s \in Seq(S), s # <<>>
    PROVE  /\ Head(s) \in S /\ Tail(s) \in Seq(S) /\ s = <<Head(s)>> \o Tail(s)
           /\ 1 \in DOMAIN s /\ s[1] = Head(s) /\ Len(Tail(s)) = Len(s) - 1
           /\ \A i \in 1..Len(s) - 1 : Tail(s)[i] = s[i + 1]
<1> DEFINE c == Head(s)
           t == Tail(s)
           u == <<c>> \o t
<1>1. /\ c \in S /\ t \in Seq(S) /\ Len(t) = Len(s) - 1 /\ s[1] = c
      /\ \A i \in 1..Len(t) : t[i] = s[i + 1]
  BY HeadTailProperties
<1>2. <<c>> \in Seq(S) /\ Len(<<c>>) = 1 /\ <<c>>[1] = c
  BY <1>1
<1> HIDE DEF c, t
<1>3. /\ u \in Seq(S) /\ Len(u) = 1 + Len(t)
      /\ \A i \in 1..1 + Len(t) : u[i] = IF i <= 1 THEN <<c>>[i] ELSE t[i - 1]
  BY <1>1, <1>2, ConcatProperties
<1> HIDE DEF u
<1>4. \A i \in 1..Len(s) : s[i] = u[i]
  BY <1>1, <1>2, <1>3
<1>5. s = u
  BY <1>1, <1>3, <1>4, SeqEqual
<1> QED
  BY <1>1, <1>5 DEF c, t, u

\* Enqueueing a command keeps the types.
LEMMA EnqueueTyped ==
    ASSUME NextTypeOK, NEW k \in TaskKinds, enqueue_command(k)
    PROVE  NextTypeOK'
<1> DEFINE c == issued + 1
<1>1. /\ issued < MaxCommands /\ issued' = c /\ kind' = [kind EXCEPT ![c] = k]
      /\ unsent' = Append(unsent, c)
      /\ UNCHANGED <<greeted, current, wire, server, given, budget, open>>
  BY DEF enqueue_command, serverVars
<1>2. c \in Command /\ issued \in Nat
  BY <1>1, MaxCommandsAssumption DEF NextTypeOK, Command
<1>3. k # "none"
  BY DEF TaskKinds, Task
<1>4. /\ kind' \in [Command -> TaskKinds \cup {"none"}]
      /\ \A d \in 1..c : kind'[d] # "none"
  BY <1>1, <1>2, <1>3 DEF NextTypeOK, Command
<1>5. unsent' \in Seq(Command)
  BY <1>1, <1>2, AppendProperties DEF NextTypeOK
<1>6. issued' \in 0..MaxCommands
  BY <1>1, <1>2 DEF Command
<1> QED
  BY <1>1, <1>4, <1>5, <1>6 DEF NextTypeOK

\* A command that is written was enqueued: its task says how it is written.
LEMMA WriteCommandPhases ==
    ASSUME NextTypeOK, WriteCommand, \A c \in Command : Has(unsent, c) => c <= issued
    PROVE  /\ kind[Head(unsent)] \in TaskKinds
           /\ FirstPhase(kind[Head(unsent)]) \in {"literal", "sent", "auth_sent", "idle_sent"}
           /\ FirstServerPhase(kind[Head(unsent)]) \in {"working", "partial", "auth", "idle_asked"}
           /\ FirstPhase(kind[Head(unsent)]) = "literal" =>
                 FirstServerPhase(kind[Head(unsent)]) = "partial"
<1> DEFINE c == Head(unsent)
<1>1. unsent \in Seq(Command) /\ unsent # <<>>
  BY DEF WriteCommand, NextTypeOK
<1>2. c \in Command /\ c <= issued
  BY <1>1, HeadAndTail DEF Has
<1>3. kind[c] \in TaskKinds
  BY <1>2 DEF NextTypeOK, Command
<1>4. Task[kind[c]].shape \in {"plain", "literal", "auth", "idle"}
  BY <1>3, TasksTyped DEF TaskType
<1> QED
  BY <1>3, <1>4 DEF FirstPhase, FirstServerPhase

\* Writing keeps the types.
LEMMA WriteTyped ==
    ASSUME NextTypeOK, Write, \A c \in Command : Has(unsent, c) => c <= issued
    PROVE  NextTypeOK'
<1>1. ASSUME current' \in CurrentType, unsent' \in Seq(Command),
             server' \in [Command -> ServerPhase]
      PROVE  NextTypeOK'
  BY <1>1 DEF Write, NextTypeOK, CurrentType
<1>2. CASE WriteCommand
  <2> DEFINE c == Head(unsent)
  <2>1. c \in Command /\ unsent' \in Seq(Command)
    BY <1>2, HeadAndTail DEF WriteCommand, NextTypeOK
  <2>2. /\ FirstPhase(kind[c]) \in Phase
        /\ FirstServerPhase(kind[c]) \in ServerPhase
    BY <1>2, WriteCommandPhases DEF Phase, ServerPhase
  <2>3. /\ current' = [cmd |-> c, phase |-> FirstPhase(kind[c])]
        /\ server' = [server EXCEPT ![c] = FirstServerPhase(kind[c])]
    BY <1>2 DEF WriteCommand
  <2> HIDE DEF c
  <2> QED
    BY <1>1, <2>1, <2>2, <2>3, MaxCommandsAssumption DEF CurrentType, NextTypeOK, Command
<1>3. CASE WriteRest \/ WriteAuthenticateData \/ WriteDone
  <2>1. current' \in CurrentType /\ unsent' \in Seq(Command)
    BY <1>3 DEF WriteRest, WriteAuthenticateData, WriteDone, NextTypeOK, CurrentType, Phase
  <2>2. server' \in [Command -> ServerPhase]
    BY <1>3 DEF WriteRest, WriteAuthenticateData, WriteDone, NextTypeOK, ServerPhase
  <2> QED
    BY <1>1, <2>1, <2>2
<1> QED
  BY <1>2, <1>3 DEF Write

\* Whatever the server says keeps the types.
LEMMA ServerTyped ==
    ASSUME NextTypeOK, Server
    PROVE  NextTypeOK'
<1>1. UNCHANGED <<greeted, issued, kind, unsent, current>> /\ NextTypeOK
  BY DEF Server, Answer, GoAhead, AcceptIdle, Invite, Challenge, Provide, Complete, Volunteer
<1>2. ASSUME NEW t \in Types, NEW u \in {"-", "OK", "NO", "BAD"}, NEW w \in What,
             NEW c \in 0..MaxCommands, NEW n \in Nat,
             t = "tagged" => u # "-" /\ c # 0
      PROVE  Response(t, u, w, c, n) \in Responses
  BY <1>2 DEF Response, Responses
<1>3. ASSUME NEW r \in Responses, wire' = Append(wire, r)
      PROVE  wire' \in Seq(Responses)
  BY <1>1, <1>3, AppendProperties DEF NextTypeOK
<1>4. ASSUME NEW c \in 1..issued, Answer(c) PROVE NextTypeOK'
  <2>1. c \in Command /\ kind[c] \in TaskKinds
    <3>1. c \in Command
      BY <1>1, MaxCommandsAssumption DEF NextTypeOK, Command
    <3>2. kind[c] \in TaskKinds \cup {"none"} /\ kind[c] # "none"
      BY <1>1, <3>1 DEF NextTypeOK
    <3> QED
      BY <3>1, <3>2
  <2>2. c \in 0..MaxCommands /\ 0 \in Nat /\ Len(given[c]) + 1 \in Nat
        /\ given[c] \in Seq(Responses) /\ "-" \in What /\ c # 0
    BY <1>1, <2>1, MaxCommandsAssumption DEF NextTypeOK, Command, What
  <2>3. CASE GoAhead(c) \/ AcceptIdle(c) \/ Challenge(c)
    <3>1. wire' = Append(wire, Response("continuation", "-", "-", c, 0))
      BY <2>3 DEF GoAhead, AcceptIdle, Challenge, Invite, Say
    <3>2. Response("continuation", "-", "-", c, 0) \in Responses
      BY <1>2, <2>2 DEF Types
    <3>3. wire' \in Seq(Responses)
      BY <1>3, <3>1, <3>2
    <3>4. server' \in [Command -> ServerPhase]
      BY <1>1, <2>3
         DEF GoAhead, AcceptIdle, Challenge, Invite, NextTypeOK, ServerPhase
    <3>5. budget' \in Nat /\ open' = open /\ given' = given
      BY <1>1, <2>3 DEF GoAhead, AcceptIdle, Challenge, Invite, NextTypeOK
    <3> QED
      BY <1>1, <3>3, <3>4, <3>5 DEF NextTypeOK
  <2>4. ASSUME NEW a \in Wanted(kind[c]), Provide(c, a) PROVE NextTypeOK'
    <3> DEFINE r == Response(a[1], a[2], a[3], c, Len(given[c]) + 1)
    <3>1. /\ a[1] \in {"data", "untagged", "bye"} /\ a[2] \in {"-", "OK", "NO", "BAD"}
          /\ a[3] \in What
      <4>1. Task[kind[c]].data \subseteq DataKinds
            /\ Task[kind[c]].untagged \subseteq ({"OK", "NO", "BAD"} \X Codes)
        BY <2>1, TasksTyped DEF TaskType
      <4>2. CASE a \in {"data"} \X {"-"} \X Task[kind[c]].data
        BY <4>1, <4>2 DEF What
      <4>3. CASE a \in {<<"untagged", u[1], u[2]>> : u \in Task[kind[c]].untagged}
        BY <4>1, <4>3 DEF What
      <4>4. CASE a = <<"bye", "-", "-">>
        BY <4>4 DEF What
      <4> QED
        BY <2>4, <4>2, <4>3, <4>4 DEF Wanted
    <3>2. r \in Responses
      BY <1>2, <2>2, <3>1 DEF Types
    <3>3. /\ wire' = Append(wire, r) /\ given' = [given EXCEPT ![c] = Append(@, r)]
          /\ UNCHANGED <<server, budget, open>>
      BY <2>4 DEF Provide
    <3> HIDE DEF r
    <3>4. given' \in [Command -> Seq(Responses)] /\ wire' \in Seq(Responses)
      BY <1>1, <1>3, <2>2, <3>2, <3>3, AppendProperties DEF NextTypeOK
    <3> QED
      BY <1>1, <3>3, <3>4 DEF NextTypeOK
  <2>5. ASSUME NEW s \in {"OK", "NO", "BAD"}, NEW code \in {"-"} \cup Task[kind[c]].final,
               Complete(c, s, code)
        PROVE  NextTypeOK'
    <3>1. code \in What
      BY <2>1, TasksTyped DEF TaskType, What
    <3>2. Response("tagged", s, code, c, Len(given[c]) + 1) \in Responses
      BY <1>2, <2>2, <3>1 DEF Types
    <3>3. wire' \in Seq(Responses)
      BY <1>3, <2>5, <3>2 DEF Complete, Say
    <3>4. server' \in [Command -> ServerPhase] /\ open' \in BOOLEAN
      BY <1>1, <2>5 DEF Complete, NextTypeOK, ServerPhase
    <3> QED
      BY <1>1, <2>5, <3>3, <3>4 DEF Complete, NextTypeOK
  <2> QED
    BY <1>4, <2>3, <2>4, <2>5 DEF Answer
<1>5. ASSUME NEW v \in Volunteered, Volunteer(v) PROVE NextTypeOK'
  <2>1. /\ v[1] \in {"data", "untagged", "bye", "continuation", "malformed", "close"}
        /\ v[2] \in {"-", "OK", "NO", "BAD"} /\ v[3] \in What
    BY VolunteeredAssumption
  <2>2. CASE v[1] = "close"
    BY <1>1, <1>5, <2>2 DEF Volunteer, NextTypeOK
  <2>3. CASE v[1] # "close"
    <3>1. Response(v[1], v[2], v[3], 0, 0) \in Responses
      BY <1>2, <2>1, <2>3, MaxCommandsAssumption DEF Types
    <3>2. wire' \in Seq(Responses)
      BY <1>3, <1>5, <2>3, <3>1 DEF Volunteer, Say
    <3> QED
      BY <1>1, <1>5, <3>2 DEF Volunteer, NextTypeOK
  <2> QED
    BY <2>2, <2>3
<1> QED
  BY <1>4, <1>5 DEF Server

\* Receiving a response takes it off the wire and keeps the types.
LEMMA ReceiveTyped ==
    ASSUME NextTypeOK, NEW r, Receive(r), greeted' \in BOOLEAN, current' \in CurrentType
    PROVE  r \in Responses /\ NextTypeOK'
<1>1. r \in Responses /\ wire' \in Seq(Responses)
  BY HeadTailProperties DEF Receive, CanReceive, NextTypeOK
<1> QED
  BY <1>1 DEF Receive, NextTypeOK, serverVars, CurrentType

\* Reporting what was sent keeps the types.
LEMMA ReportTyped ==
    ASSUME NextTypeOK, NEW c \in Command, NEW from, NEW to \in CurrentType,
           Report(c, from, to)
    PROVE  NextTypeOK'
BY DEF Report, NextTypeOK, serverVars, CurrentType

\* An iteration that only returns something.
LEMMA ReturnTyped ==
    ASSUME SchedTypeOK, NEW name \in EventNames, Return(name)
    PROVE  SchedTypeOK' /\ UNCHANGED <<waiting, active, output>>
BY MaxCommandsAssumption DEF Return, SchedTypeOK, Ended

\* A response trickles down the active tasks: the maps and the outputs stay.
LEMMA RouteTyped ==
    ASSUME SchedTypeOK, NEW r \in Responses, Route(r)
    PROVE  SchedTypeOK' /\ UNCHANGED <<waiting, active, output>>
<1> DEFINE c == trickle_down(active, r)
<1> HIDE DEF c
<1>1. CASE c = 0
  <2>1. Return(IF r.type = "bye" THEN "Bye" ELSE "Unsolicited")
    BY <1>1 DEF Route, c
  <2> QED
    BY <2>1, ReturnTyped DEF EventNames
<1>2. CASE c # 0
  <2>1. /\ consumed' = [consumed EXCEPT ![c] = Append(@, r)]
        /\ event' = Continue
        /\ UNCHANGED <<waiting, active, output>>
    BY <1>2 DEF Route, c
  <2>2. \A d \in Command : Append(consumed[d], r) \in Seq(Responses)
    BY DEF SchedTypeOK
  <2>3. consumed' \in [Command -> Seq(Responses)]
    BY <2>1, <2>2 DEF SchedTypeOK
  <2> QED
    BY <2>1, <2>3, MaxCommandsAssumption DEF SchedTypeOK, Continue, Ended, EventNames
<1> QED
  BY <1>1, <1>2

\* A task finishes: it leaves the active tasks, and has its output.
LEMMA FinishStep ==
    ASSUME IInv, Alive, NEW r \in Responses, r.type = "tagged", Has(active, r.id),
           Finish(r.id, r, remove_by_handle(active, r.id)),
           NextTypeOK', issued' = issued,
           (BeingSent \o unsent)' = BeingSent \o unsent
    PROVE  IInv'
<1> DEFINE c == r.id
<1>1. c \in Command
  BY MaxCommandsAssumption DEF Responses, Command
<1>2. /\ active \in Seq(Command) /\ Increasing(active)
  BY DEF IInv, TypeOK, SchedTypeOK, EveryCommandHasItsTask
<1>3. /\ active' \in Seq(Command) /\ Increasing(active')
      /\ \A d : Has(active', d) <=> Has(active, d) /\ d # c
  BY <1>2, RemoveProperties DEF Finish
<1>4. c <= issued
  BY <1>1 DEF IInv, EveryCommandHasItsTask
<1>5. kind[c] \in TaskKinds /\ consumed[c] \in Seq(Responses)
  BY <1>1, <1>4 DEF IInv, TypeOK, NextTypeOK, SchedTypeOK, Command
<1> DEFINE o == process_tagged(kind[c], consumed[c], r)
<1>6. o \in [verdict : Verdicts, items : SUBSET Responses] /\ o # NoOutput
  BY <1>5, ProcessTaggedTyped
<1>7. output' = [output EXCEPT ![c] = o] /\ waiting' = waiting /\ consumed' = consumed
      /\ event' = Ended("TaskFinished", c)
  BY DEF Finish
<1> HIDE DEF c, o
<1>8. SchedTypeOK'
  <2>1. output' \in [Command -> [verdict : Verdicts, items : SUBSET Responses]]
    BY <1>6, <1>7 DEF IInv, TypeOK, SchedTypeOK
  <2>2. event' \in [name : EventNames, cmd : 0..MaxCommands]
    BY <1>1, <1>7, MaxCommandsAssumption DEF Ended, EventNames, Command
  <2> QED
    BY <1>3, <1>7, <2>1, <2>2 DEF IInv, TypeOK, SchedTypeOK
<1>9. WaitingIsUnsent'
  BY <1>7 DEF IInv, WaitingIsUnsent
<1>10. \A d \in Command : output'[d] = IF d = c THEN o ELSE output[d]
  BY <1>7 DEF IInv, TypeOK, SchedTypeOK
<1>11. \A d : Has(waiting', d) <=> Has(waiting, d)
  BY <1>7
<1>12. EveryCommandHasItsTask'
  <2>1. Increasing(waiting')
    BY <1>7 DEF IInv, EveryCommandHasItsTask
  <2>2. Has(active, c)
    BY DEF c
  <2>3. ASSUME NEW d \in Command
        PROVE  /\ d <= issued <=> Has(waiting', d) \/ Has(active', d) \/ output'[d] # NoOutput
               /\ Has(waiting', d) => ~Has(active', d) /\ output'[d] = NoOutput
               /\ Has(active', d) => output'[d] = NoOutput
               /\ \A e \in Command : Has(active', d) /\ Has(waiting', e) => d < e
    BY <1>1, <1>3, <1>4, <1>6, <1>10, <1>11, <2>2 DEF IInv, EveryCommandHasItsTask
  <2> QED
    BY <1>3, <2>1, <2>3 DEF EveryCommandHasItsTask
<1> QED
  BY <1>8, <1>9, <1>12 DEF IInv, TypeOK

\* A command was sent: its task is the first that waits, and the last to become
\* active.  The unwrap does not fail.
LEMMA StartStep ==
    ASSUME IInv, Alive, NEW c \in Command, BeingSent = <<c>>, BeingSent' = <<>>,
           UNCHANGED <<issued, unsent>>, NextTypeOK', Start(c)
    PROVE  IInv' /\ Alive'
<1>1. /\ waiting \in Seq(Command) /\ Increasing(waiting)
      /\ active \in Seq(Command) /\ Increasing(active)
      /\ unsent \in Seq(Command) /\ waiting = <<c>> \o unsent
  BY DEF IInv, TypeOK, NextTypeOK, SchedTypeOK, EveryCommandHasItsTask, WaitingIsUnsent
<1>2. Has(waiting, c) /\ remove_by_handle(waiting, c) = unsent
  BY <1>1, RemoveHead
<1>3. /\ waiting' = unsent /\ active' = push_back(active, c)
      /\ event' = Continue /\ UNCHANGED <<consumed, output>>
  BY <1>2 DEF Start
<1>4. /\ Increasing(waiting')
      /\ \A d : Has(waiting', d) <=> Has(waiting, d) /\ d # c
  <2> DEFINE t == remove_by_handle(waiting, c)
  <2>1. /\ Increasing(t)
        /\ \A d : Has(t, d) <=> Has(waiting, d) /\ d # c
    BY <1>1, <1>2, RemoveProperties
  <2>2. t = waiting'
    BY <1>2, <1>3
  <2> HIDE DEF t
  <2> QED
    BY <2>1, <2>2
<1>5. \A d \in Command : Has(active, d) => d < c
  BY <1>2 DEF IInv, EveryCommandHasItsTask
<1>6. /\ active' \in Seq(Command) /\ Increasing(active')
      /\ \A d : Has(active', d) <=> Has(active, d) \/ d = c
  BY <1>1, <1>3, <1>5, PushBackProperties
<1>7. SchedTypeOK'
  BY <1>1, <1>3, <1>6, MaxCommandsAssumption
     DEF IInv, TypeOK, SchedTypeOK, Continue, Ended, EventNames
<1>8. WaitingIsUnsent'
  BY <1>1, <1>3, ConcatEmptySeq DEF WaitingIsUnsent
<1>9. \A d \in Command : Has(waiting, d) /\ d # c => c < d
  <2> SUFFICES ASSUME NEW d \in Command, Has(waiting, d), d # c PROVE c < d
    OBVIOUS
  <2>1. PICK i \in 1..Len(waiting) : waiting[i] = d
    BY <1>1 DEF Has
  <2>2. waiting[1] = c /\ 1 \in 1..Len(waiting)
    <3>1. <<c>> \in Seq(Command) /\ Len(<<c>>) = 1 /\ <<c>>[1] = c
      OBVIOUS
    <3> QED
      BY <1>1, <2>1, <3>1, ConcatProperties
  <2>3. 1 < i /\ 1 \in DOMAIN waiting /\ i \in DOMAIN waiting
    BY <1>1, <2>1, <2>2
  <2> QED
    BY <1>1, <2>1, <2>2, <2>3 DEF Increasing
<1>10. EveryCommandHasItsTask'
  <2>1. ASSUME NEW d \in Command
        PROVE  /\ d <= issued' <=> Has(waiting', d) \/ Has(active', d) \/ output'[d] # NoOutput
               /\ Has(waiting', d) => ~Has(active', d) /\ output'[d] = NoOutput
               /\ Has(active', d) => output'[d] = NoOutput
               /\ \A e \in Command : Has(active', d) /\ Has(waiting', e) => d < e
    BY <1>2, <1>3, <1>4, <1>6, <1>9 DEF IInv, EveryCommandHasItsTask
  <2> QED
    BY <1>4, <1>6, <2>1 DEF EveryCommandHasItsTask
<1>11. Alive'
  BY <1>3 DEF Alive, Continue, Ended
<1> QED
  BY <1>7, <1>8, <1>10, <1>11 DEF IInv, TypeOK

\* An unwrap fails: the types are kept, the rest is said of live programs only.
LEMMA PanicStep ==
    ASSUME IInv, NextTypeOK', Panic
    PROVE  IInv'
<1>1. ~Alive'
  BY DEF Panic, Alive, Ended
<1>2. SchedTypeOK'
  BY MaxCommandsAssumption DEF Panic, IInv, TypeOK, SchedTypeOK, Ended, EventNames
<1> QED
  BY <1>1, <1>2 DEF IInv, TypeOK, WaitingIsUnsent, EveryCommandHasItsTask

-----------------------------------------------------------------------------
(* The steps *)

\* Enqueueing: the command and its task are the last of their queues.
LEMMA EnqueueStep ==
    ASSUME IInv, Enqueue
    PROVE  IInv'
<1> DEFINE c == issued + 1
<1>1. PICK k \in Kinds : enqueue_task(k)
  BY DEF Enqueue
<1>2. /\ issued < MaxCommands /\ issued' = c /\ kind' = [kind EXCEPT ![c] = k]
      /\ unsent' = Append(unsent, c) /\ waiting' = push_back(waiting, c)
      /\ UNCHANGED <<greeted, current, wire, server, given, budget, open,
                     active, consumed, output, event>>
  BY <1>1 DEF enqueue_task, enqueue_command, serverVars
<1>3. c \in Command /\ issued \in Nat
  BY <1>2, MaxCommandsAssumption DEF IInv, TypeOK, NextTypeOK, Command
<1>4. NextTypeOK'
  BY <1>1, KindsAssumption, EnqueueTyped DEF enqueue_task, IInv, TypeOK
<1>5. /\ waiting \in Seq(Command) /\ active \in Seq(Command) /\ unsent \in Seq(Command)
  BY DEF IInv, TypeOK, NextTypeOK, SchedTypeOK
<1>6. /\ \A d \in Command : Has(waiting, d) => d < c
      /\ ~Has(active, c) /\ output[c] = NoOutput /\ ~Has(waiting, c)
      /\ \A d \in Command : Has(active, d) => d < c
      /\ Increasing(waiting) /\ Increasing(active)
      /\ waiting = BeingSent \o unsent
  BY <1>3 DEF IInv, EveryCommandHasItsTask, WaitingIsUnsent, Enqueue, Command
<1> HIDE DEF c
<1>7. /\ waiting' \in Seq(Command) /\ Increasing(waiting')
      /\ \A d : Has(waiting', d) <=> Has(waiting, d) \/ d = c
  <2> DEFINE t == push_back(waiting, c)
  <2>1. /\ t \in Seq(Command) /\ Increasing(t)
        /\ \A d : Has(t, d) <=> Has(waiting, d) \/ d = c
    BY <1>3, <1>5, <1>6, PushBackProperties
  <2>2. t = waiting'
    BY <1>2
  <2> HIDE DEF t
  <2> QED
    BY <2>1, <2>2
<1>8. SchedTypeOK'
  BY <1>2, <1>7 DEF IInv, TypeOK, SchedTypeOK
<1>9. WaitingIsUnsent'
  <2>1. BeingSent' = BeingSent
    BY <1>2 DEF BeingSent
  <2>2. BeingSent \in Seq(Command)
    <3>1. CASE current.phase \in {"literal", "rest", "sent", "auth_sent", "idle_sent"}
      <4>1. <<current.cmd>> \o unsent \in Seq(Command)
        BY <1>5, <1>6, <3>1 DEF BeingSent
      <4>2. current.cmd \in Nat
        BY DEF IInv, TypeOK, NextTypeOK
      <4>3. /\ Len(<<current.cmd>> \o unsent) = Len(unsent) + 1
            /\ (<<current.cmd>> \o unsent)[1] = current.cmd
        <5>1. <<current.cmd>> \in Seq(Nat) /\ unsent \in Seq(Nat)
          BY <4>2, <1>5, MaxCommandsAssumption DEF Command
        <5> QED
          BY <5>1, ConcatProperties
      <4>4. current.cmd \in Command
        BY <4>1, <4>3
      <4> QED
        BY <4>4, <3>1 DEF BeingSent
    <3>2. CASE current.phase \notin {"literal", "rest", "sent", "auth_sent", "idle_sent"}
      BY <3>2 DEF BeingSent
    <3> QED
      BY <3>1, <3>2
  <2>3. ASSUME NEW s \in Seq(Command), NEW t \in Seq(Command)
        PROVE  Append(s \o t, c) = s \o Append(t, c)
    <3>1. <<c>> \in Seq(Command) /\ s \o t \in Seq(Command)
      BY <1>3, ConcatProperties
    <3>2. Append(s \o t, c) = (s \o t) \o <<c>> /\ Append(t, c) = t \o <<c>>
      BY <3>1, <1>3, AppendIsConcat
    <3> QED
      BY <3>1, <3>2, ConcatAssociative
  <2>4. waiting' = BeingSent \o Append(unsent, c)
    BY <1>2, <1>5, <1>6, <2>2, <2>3 DEF push_back
  <2> QED
    BY <1>2, <2>1, <2>4 DEF WaitingIsUnsent
<1>10. EveryCommandHasItsTask'
  <2>1. /\ \A d : Has(active', d) <=> Has(active, d)
        /\ output' = output /\ Increasing(active')
    BY <1>2, <1>6
  <2>2. ASSUME NEW d \in Command
        PROVE  /\ d <= issued' <=> Has(waiting', d) \/ Has(active', d) \/ output'[d] # NoOutput
               /\ Has(waiting', d) => ~Has(active', d) /\ output'[d] = NoOutput
               /\ Has(active', d) => output'[d] = NoOutput
               /\ \A e \in Command : Has(active', d) /\ Has(waiting', e) => d < e
    <3>1. d <= issued' <=> d <= issued \/ d = c
      BY <1>2, <1>3 DEF c, Command
    <3> QED
      BY <3>1, <1>2, <1>3, <1>6, <1>7, <2>1 DEF IInv, EveryCommandHasItsTask, Enqueue
  <2> QED
    BY <1>7, <2>1, <2>2 DEF EveryCommandHasItsTask
<1> QED
  BY <1>4, <1>8, <1>9, <1>10 DEF IInv, TypeOK

\* Writing: what is being sent is the head of what was to be sent.
LEMMA WriteStep ==
    ASSUME IInv, WriteOutput
    PROVE  IInv'
<1>1. /\ UNCHANGED <<greeted, issued, kind, wire, given, budget, open, waiting, active,
                     consumed, output, event>>
      /\ WriteCommand \/ WriteRest \/ WriteAuthenticateData \/ WriteDone
      /\ Alive /\ NextTypeOK /\ SchedTypeOK
  BY DEF WriteOutput, Write, schedVars, IInv, TypeOK
<1>2. SchedTypeOK'
  BY <1>1 DEF SchedTypeOK
<1>3. ASSUME current' \in CurrentType, unsent' \in Seq(Command),
             server' \in [Command -> ServerPhase],
             (BeingSent \o unsent)' = BeingSent \o unsent
      PROVE  IInv'
  <2>1. NextTypeOK'
    BY <1>1, <1>3 DEF NextTypeOK, CurrentType
  <2> QED
    BY <1>1, <1>2, <1>3, <2>1, QuietStep DEF TypeOK
<1>4. CASE WriteCommand
  <2> DEFINE c == Head(unsent)
  <2>1. unsent \in Seq(Command) /\ unsent # <<>>
    BY <1>1, <1>4 DEF WriteCommand, NextTypeOK
  <2>2. \A d \in Command : Has(unsent, d) => d <= issued
    <3>1. BeingSent = <<>>
      BY <1>4 DEF WriteCommand, BeingSent
    <3>2. waiting = unsent
      BY <1>1, <2>1, <3>1, ConcatEmptySeq DEF IInv, WaitingIsUnsent
    <3> QED
      BY <1>1, <3>2 DEF IInv, EveryCommandHasItsTask
  <2>3. NextTypeOK'
    BY <1>1, <2>2, WriteTyped DEF WriteOutput
  <2>4. /\ c \in Command /\ Tail(unsent) \in Seq(Command)
        /\ unsent = <<c>> \o Tail(unsent)
    BY <2>1, HeadAndTail
  <2>5. BeingSent = <<>> /\ BeingSent' = <<c>>
    <3>1. FirstPhase(kind[c]) \in {"literal", "sent", "auth_sent", "idle_sent"}
      BY <1>1, <1>4, <2>2, WriteCommandPhases
    <3> HIDE DEF c
    <3> QED
      BY <1>4, <3>1 DEF WriteCommand, BeingSent, c
  <2> HIDE DEF c
  <2>6. (BeingSent \o unsent)' = BeingSent \o unsent
    BY <1>4, <2>1, <2>4, <2>5, ConcatEmptySeq DEF WriteCommand
  <2> QED
    BY <1>3, <2>3, <2>6 DEF NextTypeOK, CurrentType
<1>5. ASSUME WriteRest \/ WriteAuthenticateData \/ WriteDone
      PROVE  IInv'
  <2>1. /\ unsent' = unsent
        /\ \/ current.phase = "rest" /\ current' = [current EXCEPT !.phase = "sent"]
           \/ current.phase = "auth_data" /\ current' = [current EXCEPT !.phase = "auth"]
           \/ current.phase = "done" /\ current' = [current EXCEPT !.phase = "done_sent"]
    BY <1>5 DEF WriteRest, WriteAuthenticateData, WriteDone
  <2>2. current' \in CurrentType /\ BeingSent' = BeingSent
    BY <1>1, <2>1 DEF NextTypeOK, CurrentType, Phase, BeingSent
  <2>3. server' \in [Command -> ServerPhase]
    BY <1>1, <1>5
       DEF WriteRest, WriteAuthenticateData, WriteDone, NextTypeOK, ServerPhase
  <2> QED
    BY <1>1, <1>3, <2>1, <2>2, <2>3 DEF NextTypeOK
<1> QED
  BY <1>1, <1>4, <1>5

\* The caller ends an IDLE.
LEMMA EndIdleStep ==
    ASSUME IInv, EndIdle
    PROVE  IInv'
<1>1. /\ UNCHANGED <<greeted, issued, kind, unsent, wire, server, given, budget, open,
                     waiting, active, consumed, output, event>>
      /\ Alive /\ NextTypeOK /\ SchedTypeOK
      /\ current.phase = "idling" /\ current' = [current EXCEPT !.phase = "done"]
  BY DEF EndIdle, set_idle_done, schedVars, serverVars, IInv, TypeOK
<1>2. TypeOK' /\ BeingSent' = BeingSent
  BY <1>1 DEF TypeOK, NextTypeOK, SchedTypeOK, Phase, BeingSent
<1> QED
  BY <1>1, <1>2, QuietStep

\* The server says something: the client does not know yet.
LEMMA ServerStepKeeps ==
    ASSUME IInv, ServerStep
    PROVE  IInv'
<1>1. /\ UNCHANGED <<greeted, issued, kind, unsent, current, waiting, active, consumed,
                     output, event>>
      /\ NextTypeOK /\ SchedTypeOK
  BY DEF ServerStep, Server, Answer, GoAhead, AcceptIdle, Invite, Challenge, Provide,
         Complete, Volunteer, schedVars, IInv, TypeOK
<1>2. TypeOK'
  BY <1>1, ServerTyped DEF ServerStep, TypeOK, SchedTypeOK
<1>3. Alive' <=> Alive
  BY <1>1 DEF Alive
<1>4. (BeingSent \o unsent)' = BeingSent \o unsent
  BY <1>1 DEF BeingSent
<1> QED
  BY <1>1, <1>2, <1>3, <1>4, QuietStep
     DEF IInv, WaitingIsUnsent, EveryCommandHasItsTask

\* One event that was sent is reported.
LEMMA SendStep ==
    ASSUME IInv, Alive, NEW c \in Command, SendEvent(c)
    PROVE  IInv'
<1>1. NextTypeOK /\ SchedTypeOK
  BY DEF IInv, TypeOK
<1>2. /\ NoCommand \in CurrentType
      /\ [cmd |-> c, phase |-> "auth"] \in CurrentType
      /\ [cmd |-> c, phase |-> "idle_asked"] \in CurrentType
  BY MaxCommandsAssumption DEF NoCommand, CurrentType, Phase, Command
<1>3. ASSUME NEW from \in {"sent", "auth_sent", "idle_sent"}, NEW to \in CurrentType,
             to.phase \in {"none", "auth", "idle_asked"}, Report(c, from, to), Start(c)
      PROVE  IInv'
  <2>1. NextTypeOK'
    BY <1>1, <1>3, ReportTyped
  <2>2. BeingSent = <<c>> /\ BeingSent' = <<>> /\ UNCHANGED <<issued, unsent>>
    BY <1>3 DEF Report, BeingSent
  <2> QED
    BY <1>3, <2>1, <2>2, StartStep
<1>4. CASE CommandSent(c)
  BY <1>2, <1>3, <1>4 DEF CommandSent, EventCommandSent, NoCommand
<1>5. CASE AuthenticateStarted(c)
  BY <1>2, <1>3, <1>5 DEF AuthenticateStarted, EventAuthenticateStarted
<1>6. CASE IdleCommandSent(c)
  BY <1>2, <1>3, <1>6 DEF IdleCommandSent, EventIdleCommandSent
<1>7. CASE IdleDoneSent(c)
  <2>1. Report(c, "done_sent", NoCommand) /\ Return("continue")
    BY <1>7 DEF IdleDoneSent, EventIdleDoneSent
  <2>2. NextTypeOK'
    BY <1>1, <1>2, <2>1, ReportTyped
  <2>3. SchedTypeOK' /\ UNCHANGED <<waiting, active, output>>
    BY <1>1, <2>1, ReturnTyped DEF EventNames
  <2>4. (BeingSent \o unsent)' = BeingSent \o unsent /\ issued' = issued
    BY <2>1 DEF Report, BeingSent, NoCommand
  <2> QED
    BY <2>2, <2>3, <2>4, QuietStep DEF TypeOK
<1> QED
  BY <1>4, <1>5, <1>6, <1>7 DEF SendEvent

\* A tagged response ends the command it is for, if its task is active; until
\* then the task waits, and only a refused literal can come that early.
LEMMA FinishByHandleStep ==
    ASSUME IInv, Alive, NEW r \in Responses, r.type = "tagged", FinishByHandle(r.id, r),
           NextTypeOK', issued' = issued,
           Has(active, r.id) => (BeingSent \o unsent)' = BeingSent \o unsent
    PROVE  IInv'
<1>1. CASE Has(active, r.id)
  BY <1>1, FinishStep DEF FinishByHandle
<1>2. CASE ~Has(active, r.id)
  BY <1>2, PanicStep DEF FinishByHandle
<1> QED
  BY <1>1, <1>2

\* The engine is not sending: what happens to the connection does not matter.
LEMMA NotSending ==
    ASSUME current.phase \notin {"literal", "rest", "sent", "auth_sent", "idle_sent"},
           current'.phase \notin {"literal", "rest", "sent", "auth_sent", "idle_sent"},
           unsent' = unsent
    PROVE  (BeingSent \o unsent)' = BeingSent \o unsent
BY DEF BeingSent

\* A response is received.
LEMMA ReceiveStep ==
    ASSUME IInv, Alive, NEW r, ReceiveEvent(r)
    PROVE  IInv'
<1>1. NextTypeOK /\ SchedTypeOK
  BY DEF IInv, TypeOK
<1>2. Receive(r) /\ UNCHANGED <<issued, unsent>>
  BY DEF ReceiveEvent, GreetingReceived, CommandRejected, AuthenticateStatusReceived,
         AuthenticateContinuationRequestReceived, DataReceived, StatusReceived,
         ContinuationRequestReceived, TaggedReceived, IdleAccepted, IdleRejected,
         MalformedMessage, EventGreetingReceived, LiteralContinue, EventCommandRejected,
         EventAuthenticateContinuationRequestReceived, EventAuthenticateStatusReceived,
         EventIdleAccepted, EventIdleRejected, EventContinuationRequestReceived,
         EventDataReceived, EventStatusReceived, ErrorMalformedMessage, Receive
<1>3. greeted \in BOOLEAN /\ current \in CurrentType /\ NoCommand \in CurrentType
  BY <1>1, MaxCommandsAssumption DEF NextTypeOK, CurrentType, NoCommand, Phase
<1>4. ASSUME greeted' \in BOOLEAN, current' \in CurrentType
      PROVE  r \in Responses /\ NextTypeOK'
  BY <1>1, <1>2, <1>4, ReceiveTyped
<1>5. ASSUME current' = current PROVE (BeingSent \o unsent)' = BeingSent \o unsent
  BY <1>2, <1>5 DEF BeingSent
\* Arms that only return, or go on.
<1>6. ASSUME NEW name \in EventNames, Return(name), NextTypeOK',
             (BeingSent \o unsent)' = BeingSent \o unsent
      PROVE  IInv'
  <2>1. SchedTypeOK' /\ UNCHANGED <<waiting, active, output>>
    BY <1>1, <1>6, ReturnTyped
  <2> QED
    BY <1>2, <1>6, <2>1, QuietStep DEF TypeOK
\* Arms that let the response trickle down.
<1>7. ASSUME UNCHANGED engineVars, Route(r) PROVE IInv'
  <2>1. r \in Responses /\ NextTypeOK'
    BY <1>3, <1>4, <1>7 DEF engineVars
  <2>2. SchedTypeOK' /\ UNCHANGED <<waiting, active, output>>
    BY <1>1, <1>7, <2>1, RouteTyped
  <2> QED
    BY <1>2, <1>5, <1>7, <2>1, <2>2, QuietStep DEF TypeOK, engineVars
\* The tagged response of the command that holds the connection.
<1>8. ASSUME NEW phases, NEW statuses, Ends(r, phases, statuses), current' = NoCommand,
             UNCHANGED greeted, FinishByHandle(r.id, r),
             phases \in {{"literal"}, {"auth"}, {"idle_asked"}}
      PROVE  IInv'
  <2>1. r \in Responses /\ NextTypeOK' /\ r.type = "tagged" /\ r.id = current.cmd
    BY <1>3, <1>4, <1>8 DEF Ends
  <2>2. Has(active, r.id) => (BeingSent \o unsent)' = BeingSent \o unsent
    <3>1. CASE phases = {"literal"}
      <4>1. BeingSent = <<r.id>> /\ waiting = <<r.id>> \o unsent
        BY <1>8, <2>1, <3>1 DEF Ends, BeingSent, IInv, WaitingIsUnsent
      <4>2. r.id \in Command /\ unsent \in Seq(Command)
        BY <1>1, <2>1, MaxCommandsAssumption DEF Responses, Command, NextTypeOK
      <4>3. Has(waiting, r.id)
        BY <4>1, <4>2, RemoveHead
      <4> QED
        BY <4>2, <4>3 DEF IInv, EveryCommandHasItsTask
    <3>2. CASE phases # {"literal"}
      BY <1>2, <1>8, <3>2, NotSending DEF Ends, NoCommand
    <3> QED
      BY <3>1, <3>2
  <2> QED
    BY <1>2, <1>8, <2>1, <2>2, FinishByHandleStep
<1>9. CASE GreetingReceived(r)
  <2>1. greeted' = TRUE /\ current' = current /\ Return("GreetingReceived")
    BY <1>9 DEF GreetingReceived, EventGreetingReceived
  <2> QED
    BY <1>3, <1>4, <1>5, <1>6, <2>1 DEF EventNames
<1>10. CASE LiteralContinue(r) /\ Return("continue")
  <2>1. /\ current.phase = "literal" /\ current' = [current EXCEPT !.phase = "rest"]
        /\ greeted' = greeted
    BY <1>10 DEF LiteralContinue
  <2>2. current' \in CurrentType /\ BeingSent' = BeingSent
    BY <1>3, <2>1 DEF CurrentType, Phase, BeingSent
  <2> QED
    BY <1>2, <1>3, <1>4, <1>6, <1>10, <2>1, <2>2 DEF EventNames
<1>11. CASE CommandRejected(r)
  BY <1>8, <1>11 DEF CommandRejected, EventCommandRejected, LiteralRefused
<1>12. CASE AuthenticateStatusReceived(r)
  BY <1>8, <1>12
     DEF AuthenticateStatusReceived, EventAuthenticateStatusReceived, AuthenticateEnded
<1>13. CASE IdleRejected(r)
  BY <1>8, <1>13 DEF IdleRejected, EventIdleRejected, IdleRefused
<1>14. ASSUME NEW c \in Command, AuthenticateContinuationRequestReceived(c, r)
       PROVE  IInv'
  <2>1. current = [cmd |-> c, phase |-> "auth"] /\ greeted' = greeted
    BY <1>14 DEF AuthenticateContinuationRequestReceived,
                 EventAuthenticateContinuationRequestReceived
  <2>2. CASE ~Has(active, c)
    <3>1. Panic /\ current' = current
      BY <1>14, <2>2 DEF AuthenticateContinuationRequestReceived
    <3> QED
      BY <1>3, <1>4, <2>1, <3>1, PanicStep
  <2>3. CASE Has(active, c) /\ Task[kind[c]].answers
    <3>1. set_authenticate_data /\ Return("continue")
      BY <1>14, <2>3 DEF AuthenticateContinuationRequestReceived
    <3>2. current' = [cmd |-> c, phase |-> "auth_data"]
      BY <2>1, <3>1 DEF set_authenticate_data
    <3>3. current' \in CurrentType
      BY <1>3, <2>1, <3>2 DEF CurrentType, Phase
    <3>4. (BeingSent \o unsent)' = BeingSent \o unsent
      BY <1>2, <2>1, <3>2, NotSending
    <3> QED
      BY <1>3, <1>4, <1>6, <2>1, <3>1, <3>3, <3>4 DEF EventNames
  <2>4. CASE Has(active, c) /\ ~Task[kind[c]].answers
    <3>1. Return("Unsolicited") /\ current' = current
      BY <1>14, <2>4 DEF AuthenticateContinuationRequestReceived
    <3> QED
      BY <1>3, <1>4, <1>5, <1>6, <2>1, <3>1 DEF EventNames
  <2> QED
    BY <2>2, <2>3, <2>4
<1>15. CASE DataReceived(r)
  BY <1>7, <1>15 DEF DataReceived, EventDataReceived
<1>16. CASE ContinuationRequestReceived(r)
  BY <1>7, <1>16 DEF ContinuationRequestReceived, EventContinuationRequestReceived
<1>17. CASE StatusReceived(r)
  BY <1>7, <1>17 DEF StatusReceived, EventStatusReceived
<1>18. CASE TaggedReceived(r)
  <2>1. r.type = "tagged" /\ greeted' = greeted /\ current' = current
    BY <1>18 DEF TaggedReceived, EventStatusReceived, engineVars
  <2>2. r \in Responses /\ NextTypeOK' /\ (BeingSent \o unsent)' = BeingSent \o unsent
    BY <1>3, <1>4, <1>5, <2>1
  <2>3. CASE Has(active, r.id)
    <3>1. Finish(r.id, r, remove_by_handle(active, r.id))
      BY <1>18, <2>3 DEF TaggedReceived, remove_by_tag, remove_by_handle
    <3> QED
      BY <1>2, <2>1, <2>2, <2>3, <3>1, FinishStep
  <2>4. CASE ~Has(active, r.id)
    <3>1. Return("UnexpectedTaggedResponse")
      BY <1>18, <2>4 DEF TaggedReceived
    <3> QED
      BY <1>6, <2>2, <3>1 DEF EventNames
  <2> QED
    BY <2>3, <2>4
<1>19. CASE IdleAccepted(r)
  <2>1. /\ current.phase = "idle_asked" /\ current' = [current EXCEPT !.phase = "idling"]
        /\ greeted' = greeted /\ Return("continue")
    BY <1>19 DEF IdleAccepted, EventIdleAccepted
  <2>2. current' \in CurrentType /\ BeingSent' = BeingSent
    BY <1>3, <2>1 DEF CurrentType, Phase, BeingSent
  <2> QED
    BY <1>2, <1>3, <1>4, <1>6, <2>1, <2>2 DEF EventNames
<1>20. CASE MalformedMessage(r)
  <2>1. /\ UNCHANGED engineVars
        /\ Return(IF r.what = "FETCH" THEN "continue" ELSE "Flow")
    BY <1>20 DEF MalformedMessage, ErrorMalformedMessage
  <2>2. (IF r.what = "FETCH" THEN "continue" ELSE "Flow") \in EventNames
    BY DEF EventNames
  <2> QED
    BY <1>3, <1>4, <1>5, <1>6, <2>1, <2>2 DEF engineVars
<1> QED
  BY <1>9, <1>10, <1>11, <1>12, <1>13, <1>14, <1>15, <1>16, <1>17, <1>18, <1>19, <1>20
     DEF ReceiveEvent

-----------------------------------------------------------------------------
(* The theorems *)

\* The invariant is inductive.
LEMMA NextIInv ==
    ASSUME IInv, [Next]_vars
    PROVE  IInv'
<1>1. CASE Enqueue
  BY <1>1, EnqueueStep
<1>2. CASE progress
  BY <1>2, SendStep, ReceiveStep DEF progress
<1>3. CASE WriteOutput
  BY <1>3, WriteStep
<1>4. CASE EndIdle
  BY <1>4, EndIdleStep
<1>5. CASE ServerStep
  BY <1>5, ServerStepKeeps
<1>6. CASE UNCHANGED vars
  BY <1>6 DEF vars, IInv, TypeOK, NextTypeOK, SchedTypeOK, WaitingIsUnsent, BeingSent,
              EveryCommandHasItsTask, Increasing, Has, Alive
<1> QED
  BY <1>1, <1>2, <1>3, <1>4, <1>5, <1>6 DEF Next, Rest

\* It holds in every reachable state.
LEMMA Invariance == Spec => []IInv
  BY InitIInv, NextIInv, PTL DEF Spec

\* Every variable always has its type: no arm of progress() leaves the maps,
\* the consumed responses or the outputs in a shape they should not have.
THEOREM TypeCorrect == Spec => []TypeOK
<1>1. IInv => TypeOK
  BY DEF IInv
<1> QED
  BY <1>1, Invariance, PTL

\* waiting_tasks is exactly the queue of unsent commands of the engine, so the
\* unwrap in the arms CommandSent, AuthenticateStarted and IdleCommandSent
\* (mod.rs:163) cannot fail, for any number of commands and tasks of any kind.
THEOREM WaitingIsUnsentHolds == Spec => []WaitingIsUnsent
<1>1. IInv => WaitingIsUnsent
  BY DEF IInv
<1> QED
  BY <1>1, Invariance, PTL

\* Every command enqueued has its task in exactly one place, once, and the maps
\* keep the order of enqueueing: nothing the server says or fails to say makes
\* the scheduler lose a task, duplicate it or let it overtake another.
THEOREM EveryCommandHasItsTaskHolds == Spec => []EveryCommandHasItsTask
<1>1. IInv => EveryCommandHasItsTask
  BY DEF IInv
<1> QED
  BY <1>1, Invariance, PTL

\* What trickles down is consumed by a task that is active.
LEMMA TakerIsActive ==
    ASSUME active \in Seq(Command), NEW r, trickle_down(active, r) # 0
    PROVE  Has(active, trickle_down(active, r))
<1> DEFINE S == Takers(active, r)
<1>1. S \in SUBSET Nat /\ S \subseteq DOMAIN active
  BY DEF Takers
<1>2. S # {} /\ trickle_down(active, r) = active[CHOOSE i \in S : \A j \in S : i <= j]
  BY DEF trickle_down
<1> HIDE DEF S
<1>3. \E i \in S : \A j \in S : i <= j
  BY <1>1, <1>2, LeastExists
<1>4. (CHOOSE i \in S : \A j \in S : i <= j) \in S
  BY <1>3
<1> QED
  BY <1>1, <1>2, <1>4 DEF Has

\* A step leaves alone every task that is not active.
LEMMA FinalStep ==
    ASSUME SchedTypeOK, Next, NEW c \in Command, Alive => ~Has(active, c)
    PROVE  output'[c] = output[c] /\ consumed'[c] = consumed[c]
<1>2. ASSUME NEW r, Alive, Route(r) PROVE UNCHANGED output /\ consumed'[c] = consumed[c]
  <2> DEFINE d == trickle_down(active, r)
  <2>1. CASE d = 0
    BY <1>2, <2>1 DEF Route, Return
  <2>2. CASE d # 0
    <3>1. Has(active, d)
      BY <2>2, TakerIsActive DEF SchedTypeOK
    <3>2. d # c
      BY <1>2, <3>1
    <3>3. consumed' = [consumed EXCEPT ![d] = Append(@, r)] /\ UNCHANGED output
      BY <1>2, <2>2 DEF Route
    <3> HIDE DEF d
    <3> QED
      BY <3>2, <3>3 DEF SchedTypeOK
  <2> QED
    BY <2>1, <2>2
<1>3. ASSUME NEW d, NEW r, NEW rest, Alive, Has(active, d), Finish(d, r, rest)
      PROVE  UNCHANGED consumed /\ output'[c] = output[c]
  <2>1. d # c
    BY <1>3
  <2> QED
    BY <1>3, <2>1 DEF Finish, SchedTypeOK
<1>4. ASSUME NEW d, NEW r, Alive, FinishByHandle(d, r)
      PROVE  UNCHANGED consumed /\ output'[c] = output[c]
  BY <1>3, <1>4 DEF FinishByHandle, Panic
<1>5. CASE Enqueue \/ WriteOutput \/ EndIdle \/ ServerStep \/ Rest
  BY <1>5 DEF Enqueue, enqueue_task, WriteOutput, EndIdle, ServerStep, Rest, schedVars, vars
<1>6. ASSUME Alive, NEW h \in Command, SendEvent(h)
      PROVE  output'[c] = output[c] /\ consumed'[c] = consumed[c]
  BY <1>6 DEF SendEvent, CommandSent, AuthenticateStarted, IdleCommandSent, IdleDoneSent,
              Start, Panic, Return
<1>7. ASSUME Alive, NEW r, ReceiveEvent(r)
      PROVE  output'[c] = output[c] /\ consumed'[c] = consumed[c]
  <2>1. CASE GreetingReceived(r) \/ (LiteralContinue(r) /\ Return("continue"))
                \/ IdleAccepted(r) \/ MalformedMessage(r)
    BY <2>1 DEF GreetingReceived, IdleAccepted, MalformedMessage, Return
  <2>2. CASE CommandRejected(r) \/ AuthenticateStatusReceived(r) \/ IdleRejected(r)
    BY <1>4, <1>7, <2>2 DEF CommandRejected, AuthenticateStatusReceived, IdleRejected
  <2>3. CASE DataReceived(r) \/ ContinuationRequestReceived(r) \/ StatusReceived(r)
    BY <1>2, <1>7, <2>3 DEF DataReceived, ContinuationRequestReceived, StatusReceived
  <2>4. CASE TaggedReceived(r)
    BY <1>3, <1>7, <2>4 DEF TaggedReceived, Return
  <2>5. CASE \E h \in Command : AuthenticateContinuationRequestReceived(h, r)
    BY <2>5 DEF AuthenticateContinuationRequestReceived, Panic, Return
  <2> QED
    BY <1>7, <2>1, <2>2, <2>3, <2>4, <2>5 DEF ReceiveEvent
<1> QED
  BY <1>5, <1>6, <1>7 DEF Next, progress

\* An output is final: a late or repeated response is never given to a task that
\* has finished, and no second verdict overwrites the first.
THEOREM FinishedIsFinalHolds == Spec => FinishedIsFinal
<1>1. IInv /\ [Next]_vars =>
         [\A c \in Command : output[c] # NoOutput =>
             output'[c] = output[c] /\ consumed'[c] = consumed[c]]_vars
  BY FinalStep DEF IInv, TypeOK, EveryCommandHasItsTask
<1> QED
  BY <1>1, Invariance, PTL DEF Spec, FinishedIsFinal
=============================================================================
