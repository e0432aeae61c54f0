------------------------------- MODULE Stream -------------------------------
(***************************************************************************)
(* Stream::next (src/src/stream.rs), byte by byte: what the engine hands   *)
(* out is written, flushed, and then input is read; the future may be      *)
(* dropped, or the transport fail, at each of these awaits.                *)
(*                                                                         *)
(* Session takes from here that a call only ever waits at the read.        *)
(*                                                                         *)
(* The engine and the transport are external.  The transport may accept    *)
(* part of what it is given, and hold it back until it is flushed (as TLS  *)
(* does).  A byte is its number.                                           *)
(***************************************************************************)
EXTENDS Naturals, Sequences

CONSTANTS
    Requests,   \* for each request the engine will hand out, its last byte
    AnswerLen,  \* the length of an answer
    BufLen      \* the length of the read buffer

ASSUME RequestsAssumption ==
    /\ Requests \in Seq(Nat \ {0})
    /\ \A i, j \in DOMAIN Requests : i < j => Requests[i] < Requests[j]
ASSUME LengthsAssumption == AnswerLen \in Nat \ {0} /\ BufLen \in Nat \ {0}

VARIABLES
    at,         \* the await the call is at; ask: it turns to the engine
    queued,     \* how many requests the program has made
    handed,     \* how many of them the engine has handed out
    sent,       \* has the engine yet to report that the last one was sent?
    fed,        \* the input the engine was given
    answered,   \* how many answers the engine has reported
    left,       \* the bytes that write_all has yet to write
    held,       \* those the transport holds back
    received,   \* those the peer got
    replied,    \* how many requests the peer has answered
    wire,       \* the bytes of its answers on their way
    buf,        \* the read buffer
    open,       \* is the connection up?
    cut,        \* ghost: was a call dropped in the middle of a write?
    unflushed   \* ghost: was one dropped before its flush, and none made since?

engineVars == <<queued, handed, sent, fed, answered>>
outVars == <<left, held, received, cut, unflushed>>
inVars == <<replied, wire, buf>>
vars == <<at, queued, handed, sent, fed, answered, left, held, received, replied, wire, buf,
          open, cut, unflushed>>

Init ==
    /\ at = "free" /\ queued = 0 /\ handed = 0 /\ sent = FALSE /\ fed = <<>> /\ answered = 0
    /\ left = <<>> /\ held = <<>> /\ received = <<>> /\ cut = FALSE /\ unflushed = FALSE
    /\ replied = 0 /\ wire = <<>> /\ buf = [i \in 1..BufLen |-> 0] /\ open = TRUE

Bytes(from, to) == [i \in 1..(to - from) |-> from + i]
Last(k) == IF k = 0 THEN 0 ELSE Requests[k]
Least(m, n) == IF m < n THEN m ELSE n

-----------------------------------------------------------------------------
(* The program and the engine *)

\* The program makes a request, then awaits what becomes of it.
Enqueue ==
    /\ at = "free" /\ queued < Len(Requests) /\ queued' = queued + 1
    /\ UNCHANGED <<at, handed, sent, fed, answered, outVars, inVars, open>>

Call ==
    /\ at = "free" /\ open /\ answered < queued /\ at' = "ask"
    /\ UNCHANGED <<engineVars, outVars, inVars, open>>

\* Events are returned "immediately without doing IO".
EventSent ==
    /\ at = "ask" /\ sent /\ sent' = FALSE /\ at' = "free"
    /\ UNCHANGED <<queued, handed, fed, answered, outVars, inVars, open>>

Output ==
    /\ at = "ask" /\ ~sent /\ handed < queued
    /\ left' = Bytes(Last(handed), Last(handed + 1))
    /\ handed' = handed + 1 /\ sent' = TRUE /\ at' = "write"
    /\ UNCHANGED <<queued, fed, answered, held, received, cut, unflushed, inVars, open>>

AnswerIsThere == Len(fed) >= (answered + 1) * AnswerLen

EventReceived ==
    /\ at = "ask" /\ ~sent /\ handed = queued /\ AnswerIsThere
    /\ answered' = answered + 1 /\ at' = "free"
    /\ UNCHANGED <<queued, handed, sent, fed, outVars, inVars, open>>

NeedMoreInput ==
    /\ at = "ask" /\ ~sent /\ handed = queued /\ ~AnswerIsThere /\ at' = "read"
    /\ UNCHANGED <<engineVars, outVars, inVars, open>>

-----------------------------------------------------------------------------
(* I/O *)

\* A slip: write, not write_all.
write_all_Once ==
    /\ at = "write" /\ open /\ at' = "flush"
    /\ \E n \in 1..Len(left), m \in 0..1 :
          LET all == held \o SubSeq(left, 1, n)
          IN  /\ received' = received \o SubSeq(all, 1, m * Len(all))
              /\ held' = SubSeq(all, m * Len(all) + 1, Len(all))
    /\ left' = <<>>
    /\ UNCHANGED <<engineVars, inVars, open, cut, unflushed>>

\* One poll_write: the transport takes n bytes and passes all or none on.
write_all ==
    /\ at = "write" /\ open
    /\ \E n \in 1..Len(left), m \in 0..1 :
          LET all == held \o SubSeq(left, 1, n)
          IN  /\ received' = received \o SubSeq(all, 1, m * Len(all))
              /\ held' = SubSeq(all, m * Len(all) + 1, Len(all))
              /\ left' = SubSeq(left, n + 1, Len(left))
              /\ at' = IF n = Len(left) THEN "flush" ELSE "write"
    /\ UNCHANGED <<engineVars, inVars, open, cut, unflushed>>

\* A slip: no flush.
flush_None ==
    /\ at = "flush" /\ at' = "read"
    /\ UNCHANGED <<engineVars, outVars, inVars, open>>

flush ==
    /\ at = "flush" /\ open /\ at' = "read"
    /\ received' = received \o held /\ held' = <<>> /\ unflushed' = FALSE
    /\ UNCHANGED <<engineVars, inVars, open, left, cut>>

\* A slip: the whole buffer is given to the engine.
enqueue_input_All(n) == fed' = fed \o buf'

enqueue_input(n) == fed' = fed \o SubSeq(buf', 1, n)

\* read and enqueue_input(&buf[..n]): what is left in the buffer is stale.
read ==
    /\ at = "read" /\ wire # <<>> /\ at' = "ask"
    /\ \E n \in 1..Least(BufLen, Len(wire)) :
          /\ buf' = [i \in 1..BufLen |-> IF i <= n THEN wire[i] ELSE buf[i]]
          /\ wire' = SubSeq(wire, n + 1, Len(wire))
          /\ enqueue_input(n)
    /\ UNCHANGED <<queued, handed, sent, answered, outVars, replied, open>>

\* read returns 0, write_all WriteZero, or either an I/O error.
Fails ==
    /\ at \in {"write", "flush", "read"} /\ ~open
    /\ at' = "free" /\ left' = <<>> /\ cut' = (cut \/ left # <<>>)
    /\ UNCHANGED <<engineVars, inVars, open, held, received, unflushed>>

\* The future is dropped (the timeout of idle drops it, too).  The engine has
\* handed the bytes out and will not do so again.
Drop ==
    /\ at \in {"write", "flush", "read"} /\ open
    /\ at' = "free" /\ left' = <<>>
    /\ cut' = (cut \/ left # <<>>)
    /\ unflushed' = (unflushed \/ at \in {"write", "flush"})
    /\ UNCHANGED <<engineVars, inVars, open, held, received>>

-----------------------------------------------------------------------------
(* The peer *)

\* It answers a request once it has the whole of it.
Reply ==
    /\ open /\ replied < handed
    /\ Len(received) >= Last(replied + 1)
    /\ SubSeq(received, 1, Last(replied + 1)) = Bytes(0, Last(replied + 1))
    /\ wire' = wire \o Bytes(replied * AnswerLen, (replied + 1) * AnswerLen)
    /\ replied' = replied + 1
    /\ UNCHANGED <<at, engineVars, outVars, buf, open>>

Close == open /\ open' = FALSE /\ UNCHANGED <<at, engineVars, outVars, inVars>>

\* All is answered, or the call waits for an answer to what never arrived.
Rest ==
    /\ \/ at = "free" /\ (~open \/ answered = Len(Requests))
       \/ at = "read" /\ (cut \/ unflushed)
    /\ UNCHANGED vars

Next ==
    \/ Enqueue
    \/ Call
    \/ EventSent
    \/ Output
    \/ EventReceived
    \/ NeedMoreInput
    \/ write_all
    \/ flush
    \/ read
    \/ Fails
    \/ Drop
    \/ Reply
    \/ Close
    \/ Rest

Spec == Init /\ [][Next]_vars

\* The runtime polls the call, the peer answers what it got.
FairSpec ==
    /\ Spec
    /\ WF_vars(EventSent \/ Output \/ EventReceived \/ NeedMoreInput)
    /\ WF_vars(write_all) /\ WF_vars(flush) /\ WF_vars(read) /\ WF_vars(Fails)
    /\ WF_vars(Reply)

-----------------------------------------------------------------------------
(* Properties *)

\* The peer gets what the engine handed out: all of it and in order, however the
\* transport cuts it up, and whatever calls were dropped, unless one was in the
\* middle of write_all: from then on there is a gap, but even then no byte
\* arrives twice or out of order.
OutIsInOrder ==
    LET out == received \o held \o left
    IN  /\ ~cut => out = Bytes(0, Last(handed))
        /\ \A i, j \in DOMAIN out : i < j => out[i] < out[j]

\* A call waits for input only when the peer has got all that was handed out: the
\* two ends never wait for each other, unless a dropped call left bytes behind.
ReadsAfterFlush == at = "read" /\ ~cut /\ ~unflushed => Len(received) = Last(handed)

\* The engine is given what the peer sent, all of it and in order: nothing of
\* what a dropped read had is lost, and nothing of an earlier read comes again.
InIsInOrder == fed \o wire = Bytes(0, replied * AnswerLen)

\* A call returns: there is always an event in the end, unless bytes of a dropped
\* call are missing.
NextReturns == (at # "free") ~> (at = "free" \/ cut \/ unflushed)
=============================================================================
