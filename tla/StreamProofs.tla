---------------------------- MODULE StreamProofs ----------------------------
(***************************************************************************)
(* Proofs, for requests, answers and buffers of every length, that what    *)
(* Stream::next writes and reads arrives in order, however the transport   *)
(* cuts it up and wherever the future is dropped.                          *)
(***************************************************************************)
EXTENDS Stream, SequenceTheorems, TLAPS

-----------------------------------------------------------------------------
(* The invariant *)

StreamTypeOK ==
    /\ at \in {"free", "ask", "write", "flush", "read"}
    /\ queued \in 0..Len(Requests) /\ handed \in 0..queued /\ replied \in 0..handed
    /\ sent \in BOOLEAN /\ answered \in Nat /\ open \in BOOLEAN
    /\ fed \in Seq(Nat) /\ wire \in Seq(Nat) /\ buf \in [1..BufLen -> Nat]
    /\ left \in Seq(Nat) /\ held \in Seq(Nat) /\ received \in Seq(Nat)
    /\ cut \in BOOLEAN /\ unflushed \in BOOLEAN

\* Only a call in write_all has something left to write.
LeftIsWritten == at # "write" => left = <<>>

\* What the transport holds back is flushed before the engine is asked again, if
\* no call was dropped before its flush.
HeldIsFlushed ==
    ~unflushed /\ (at \in {"ask", "read"} \/ (at = "free" /\ open)) => held = <<>>

\* No byte was written that was not handed out.
Out == received \o held \o left
OutIsHanded == \A i \in DOMAIN Out : Out[i] <= Last(handed)

SInv ==
    /\ StreamTypeOK /\ LeftIsWritten /\ HeldIsFlushed
    /\ OutIsInOrder /\ OutIsHanded /\ InIsInOrder

-----------------------------------------------------------------------------
(* Bytes *)

LEMMA BytesProperties ==
    ASSUME NEW a \in Nat, NEW b \in Nat, a <= b
    PROVE  /\ Bytes(a, b) \in Seq(Nat) /\ Len(Bytes(a, b)) = b - a
           /\ \A i \in 1..(b - a) : Bytes(a, b)[i] = a + i
<1>1. b - a \in Nat
  OBVIOUS
<1> QED
  BY <1>1 DEF Bytes

\* What comes after the b-th byte continues what comes up to it.
LEMMA BytesJoin ==
    ASSUME NEW a \in Nat, NEW b \in Nat, NEW c \in Nat, a <= b, b <= c
    PROVE  Bytes(a, b) \o Bytes(b, c) = Bytes(a, c)
<1> DEFINE s == Bytes(a, b)
           t == Bytes(b, c)
           u == Bytes(a, c)
<1>1. /\ s \in Seq(Nat) /\ Len(s) = b - a /\ \A i \in 1..(b - a) : s[i] = a + i
      /\ t \in Seq(Nat) /\ Len(t) = c - b /\ \A i \in 1..(c - b) : t[i] = b + i
      /\ u \in Seq(Nat) /\ Len(u) = c - a /\ \A i \in 1..(c - a) : u[i] = a + i
  <2>1. a <= c
    OBVIOUS
  <2> QED
    BY <2>1, BytesProperties
<1> HIDE DEF s, t, u
<1>2. /\ s \o t \in Seq(Nat) /\ Len(s \o t) = Len(u)
      /\ \A i \in 1..Len(u) : (s \o t)[i] = IF i <= Len(s) THEN s[i] ELSE t[i - Len(s)]
  <2>1. /\ s \o t \in Seq(Nat) /\ Len(s \o t) = Len(s) + Len(t)
        /\ \A i \in 1..(Len(s) + Len(t)) : (s \o t)[i] = IF i <= Len(s) THEN s[i] ELSE t[i - Len(s)]
    BY <1>1, ConcatProperties
  <2>2. Len(s) + Len(t) = Len(u)
    BY <1>1
  <2> QED
    BY <2>1, <2>2
<1>3. ASSUME NEW i \in 1..Len(u) PROVE (s \o t)[i] = u[i]
  <2>1. CASE i <= Len(s)
    BY <1>1, <1>2, <2>1
  <2>2. CASE ~(i <= Len(s))
    <3>1. i - (b - a) \in 1..(c - b)
      BY <1>1, <2>2
    <3>2. t[i - (b - a)] = b + (i - (b - a))
      BY <1>1, <3>1
    <3> QED
      BY <1>1, <1>2, <2>2, <3>2, SMTT(30)
  <2> QED
    BY <2>1, <2>2
<1>4. s \o t = u
  BY <1>1, <1>2, <1>3, SeqEqual
<1> QED
  BY <1>4 DEF s, t, u

\* The requests end one after the other.
LEMMA LastGrows ==
    ASSUME NEW k \in 0..Len(Requests)
    PROVE  /\ Last(k) \in Nat
           /\ k + 1 \in 1..Len(Requests) => Last(k + 1) \in Nat /\ Last(k) < Last(k + 1)
<1>1. /\ Requests \in Seq(Nat \ {0}) /\ Len(Requests) \in Nat
      /\ \A i \in 1..Len(Requests) : Requests[i] \in Nat \ {0}
      /\ \A i, j \in 1..Len(Requests) : i < j => Requests[i] < Requests[j]
  BY RequestsAssumption
<1>2. CASE k = 0
  BY <1>1, <1>2 DEF Last
<1>3. CASE k # 0
  BY <1>1, <1>3 DEF Last
<1> QED
  BY <1>2, <1>3

\* Concatenation, of sequences of bytes.
LEMMA ConcatTyped ==
    \A s, t \in Seq(Nat) :
        /\ s \o t \in Seq(Nat) /\ Len(s \o t) = Len(s) + Len(t)
        /\ \A i \in 1..(Len(s) + Len(t)) :
              (s \o t)[i] = IF i <= Len(s) THEN s[i] ELSE t[i - Len(s)]
BY ConcatProperties

LEMMA ConcatRegroups ==
    ASSUME NEW s \in Seq(Nat), NEW t \in Seq(Nat), NEW u \in Seq(Nat)
    PROVE  (s \o t) \o u = s \o (t \o u)
BY ConcatAssociative

\* The three parts of what was written, grouped in either way.
LEMMA OutTyped ==
    ASSUME StreamTypeOK
    PROVE  /\ received \o held \in Seq(Nat) /\ Out \in Seq(Nat)
           /\ Out = (received \o held) \o left
           /\ left = <<>> => Out = received \o held
<1>1. received \o held \in Seq(Nat)
  BY ConcatProperties DEF StreamTypeOK
<1>2. (received \o held) \o left \in Seq(Nat)
  BY <1>1, ConcatProperties DEF StreamTypeOK
<1>3. (received \o held) \o <<>> = received \o held
  BY <1>1, ConcatEmptySeq
<1> QED
  BY <1>1, <1>2, <1>3 DEF Out

\* What has been written so far is still so.
LEMMA OutStays ==
    ASSUME SInv, Out' = Out, handed' = handed, cut => cut'
    PROVE  OutIsInOrder' /\ OutIsHanded'
BY DEF SInv, OutIsInOrder, OutIsHanded, Out

-----------------------------------------------------------------------------
(* The steps *)

LEMMA InitStream == Init => SInv
<1> SUFFICES ASSUME Init PROVE SInv
  OBVIOUS
<1> USE DEF Init
<1>1. StreamTypeOK
  <2>1. <<>> \in Seq(Nat) /\ [i \in 1..BufLen |-> 0] \in [1..BufLen -> Nat]
    OBVIOUS
  <2>2. Len(Requests) \in Nat
    BY RequestsAssumption
  <2>3. 0 \in 0..Len(Requests) /\ 0 \in 0..0 /\ 0 \in Nat
    BY <2>2
  <2>4. queued \in 0..Len(Requests) /\ handed \in 0..queued /\ replied \in 0..handed
    BY <2>3
  <2>5. /\ fed \in Seq(Nat) /\ wire \in Seq(Nat) /\ buf \in [1..BufLen -> Nat]
        /\ left \in Seq(Nat) /\ held \in Seq(Nat) /\ received \in Seq(Nat)
    BY <2>1
  <2>6. /\ at \in {"free", "ask", "write", "flush", "read"}
        /\ sent \in BOOLEAN /\ open \in BOOLEAN /\ cut \in BOOLEAN /\ unflushed \in BOOLEAN
        /\ answered \in Nat
    BY <2>3
  <2> QED
    BY <2>4, <2>5, <2>6 DEF StreamTypeOK
<1>2. Out = <<>> /\ fed \o wire = <<>>
  BY DEF Out
<1>3. Bytes(0, 0) = <<>> /\ Last(0) = 0 /\ 0 * AnswerLen = 0
  BY BytesProperties, LengthsAssumption DEF Last
<1> QED
  BY <1>1, <1>2, <1>3
     DEF SInv, LeftIsWritten, HeldIsFlushed, OutIsInOrder, OutIsHanded, Out, InIsInOrder

\* The program and the engine, a call that ends, the connection that closes: all
\* that does no I/O.
LEMMA QuietStep ==
    ASSUME SInv, UNCHANGED <<handed, left, held, received, replied, fed, wire, buf>>,
           StreamTypeOK', LeftIsWritten', HeldIsFlushed', cut => cut'
    PROVE  SInv'
<1>1. Out' = Out
  BY DEF Out
<1>2. InIsInOrder'
  BY DEF SInv, InIsInOrder
<1> QED
  BY <1>1, <1>2, OutStays DEF SInv

\* The engine hands out the next request.
LEMMA OutputStep ==
    ASSUME SInv, Output
    PROVE  SInv'
<1>1. /\ at = "ask" /\ handed < queued /\ handed' = handed + 1 /\ at' = "write"
      /\ left' = Bytes(Last(handed), Last(handed + 1))
      /\ UNCHANGED <<queued, fed, answered, held, received, cut, unflushed, replied, wire, buf,
                     open>>
      /\ sent' = TRUE /\ StreamTypeOK
  BY DEF Output, inVars, SInv
<1>2. handed \in 0..Len(Requests) /\ handed + 1 \in 1..Len(Requests) /\ Len(Requests) \in Nat
  BY <1>1, RequestsAssumption DEF StreamTypeOK
<1>3. PICK a, b \in Nat : a = Last(handed) /\ b = Last(handed + 1) /\ a < b
  BY <1>2, LastGrows
<1>4. /\ left' \in Seq(Nat) /\ Len(left') = b - a
      /\ \A i \in 1..(b - a) : left'[i] = a + i
  <2>1. left' = Bytes(a, b) /\ a <= b
    BY <1>1, <1>3
  <2> QED
    BY <2>1, BytesProperties
<1>5. StreamTypeOK' /\ LeftIsWritten' /\ HeldIsFlushed'
  BY <1>1, <1>2, <1>4 DEF StreamTypeOK, LeftIsWritten, HeldIsFlushed
<1>6. PICK s \in Seq(Nat) : s = received \o held /\ s = Out
  BY <1>1, OutTyped DEF SInv, LeftIsWritten
<1>7. Out' = s \o left' /\ Out' \in Seq(Nat) /\ Len(Out') = Len(s) + Len(left')
      /\ \A i \in 1..Len(Out') : Out'[i] = IF i <= Len(s) THEN s[i] ELSE left'[i - Len(s)]
  <2>1. Out' = s \o left'
    BY <1>1, <1>6 DEF Out
  <2> QED
    BY <1>4, <2>1, ConcatTyped
<1>8. Last(handed)' = b
  BY <1>1, <1>3 DEF Last
<1>9. \A i \in 1..Len(s) : s[i] \in Nat /\ s[i] <= a
  BY <1>3, <1>6 DEF SInv, OutIsHanded
<1>10. \A i, j \in 1..Len(s) : i < j => s[i] < s[j]
  <2>1. \A i, j \in DOMAIN Out : i < j => Out[i] < Out[j]
    BY DEF SInv, OutIsInOrder, Out
  <2> QED
    BY <1>6, <2>1
<1>11. ASSUME NEW i \in 1..Len(Out')
       PROVE  \/ i \in 1..Len(s) /\ Out'[i] = s[i]
              \/ /\ i - Len(s) \in 1..(b - a) /\ ~(i <= Len(s))
                 /\ Out'[i] = a + (i - Len(s))
  BY <1>3, <1>4, <1>6, <1>7
<1>12. OutIsHanded'
  <2>1. ASSUME NEW i \in 1..Len(Out') PROVE Out'[i] <= b
    BY <1>3, <1>9, <1>11
  <2> QED
    BY <1>7, <1>8, <2>1 DEF OutIsHanded
<1>13. ASSUME NEW i \in 1..Len(Out'), NEW j \in 1..Len(Out'), i < j PROVE Out'[i] < Out'[j]
  <2>1. Len(s) \in Nat
    BY <1>6
  <2>2. CASE i \in 1..Len(s) /\ j \in 1..Len(s) /\ Out'[i] = s[i] /\ Out'[j] = s[j]
    BY <1>10, <1>13, <2>2
  <2>3. CASE /\ i \in 1..Len(s) /\ Out'[i] = s[i]
             /\ j - Len(s) \in 1..(b - a) /\ Out'[j] = a + (j - Len(s))
    <3>1. s[i] \in Nat /\ s[i] <= a /\ j - Len(s) > 0
      BY <1>9, <2>3
    <3> QED
      BY <1>3, <2>3, <3>1
  <2>4. CASE Out'[i] = a + (i - Len(s)) /\ Out'[j] = a + (j - Len(s))
    BY <1>3, <1>13, <2>1, <2>4
  <2>5. i \in Nat /\ j \in Nat
    OBVIOUS
  <2> QED
    BY <1>11, <1>13, <2>1, <2>2, <2>3, <2>4, <2>5
<1>14. ~cut => Out' = Bytes(0, b)
  <2>1. ~cut => s = Bytes(0, a)
    BY <1>3, <1>6 DEF SInv, OutIsInOrder, Out
  <2>2. Bytes(0, a) \o Bytes(a, b) = Bytes(0, b)
    <3>1. 0 \in Nat /\ 0 <= a /\ a <= b
      BY <1>3
    <3> QED
      BY <3>1, BytesJoin
  <2> QED
    BY <1>1, <1>3, <1>7, <2>1, <2>2
<1>15. OutIsInOrder'
  <2>1. \A i, j \in DOMAIN Out' : i < j => Out'[i] < Out'[j]
    BY <1>7, <1>13
  <2>2. ~cut' => Out' = Bytes(0, Last(handed)')
    BY <1>1, <1>8, <1>14
  <2> QED
    BY <2>1, <2>2 DEF OutIsInOrder, Out
<1>16. InIsInOrder'
  BY <1>1 DEF SInv, InIsInOrder
<1> QED
  BY <1>5, <1>12, <1>15, <1>16 DEF SInv

\* A sequence is what comes up to a place and what comes after it.
LEMMA Cut ==
    ASSUME NEW s \in Seq(Nat), NEW n \in 0..Len(s)
    PROVE  /\ SubSeq(s, 1, n) \in Seq(Nat) /\ SubSeq(s, n + 1, Len(s)) \in Seq(Nat)
           /\ SubSeq(s, 1, n) \o SubSeq(s, n + 1, Len(s)) = s
           /\ Len(SubSeq(s, 1, n)) = n /\ Len(SubSeq(s, n + 1, Len(s))) = Len(s) - n
<1>1. Len(s) \in Nat /\ n \in Nat /\ \A i \in 1..Len(s) : s[i] \in Nat
  OBVIOUS
<1>2. SubSeq(s, 1, n) \o SubSeq(s, n + 1, Len(s)) = SubSeq(s, 1, Len(s))
  <2>1. 1 \in 1..(Len(s) + 1) /\ n \in (1 - 1)..Len(s) /\ Len(s) \in n..Len(s)
    BY <1>1
  <2> QED
    BY <2>1, ConcatAdjacentSubSeq
<1>3. SubSeq(s, 1, Len(s)) = s
  BY SubSeqFull
<1>4. /\ SubSeq(s, 1, n) \in Seq(Nat)
      /\ Len(SubSeq(s, 1, n)) = IF 1 <= n THEN n - 1 + 1 ELSE 0
  BY <1>1, SubSeqProperties
<1>5. /\ SubSeq(s, n + 1, Len(s)) \in Seq(Nat)
      /\ Len(SubSeq(s, n + 1, Len(s))) = IF n + 1 <= Len(s) THEN Len(s) - (n + 1) + 1 ELSE 0
  <2>1. n + 1 \in Int /\ Len(s) \in Int /\ \A i \in (n + 1)..Len(s) : s[i] \in Nat
    BY <1>1
  <2> QED
    BY <2>1, SubSeqProperties
<1>6. Len(SubSeq(s, 1, n)) = n
  BY <1>1, <1>4
<1>7. Len(SubSeq(s, n + 1, Len(s))) = Len(s) - n
  BY <1>1, <1>5
<1> QED
  BY <1>2, <1>3, <1>4, <1>5, <1>6, <1>7

\* The transport takes some of the bytes and passes all it has on, or nothing.
LEMMA WriteStep ==
    ASSUME SInv, write_all
    PROVE  SInv'
<1>1. PICK n \in 1..Len(left), m \in 0..1 :
         LET all == held \o SubSeq(left, 1, n)
         IN  /\ received' = received \o SubSeq(all, 1, m * Len(all))
             /\ held' = SubSeq(all, m * Len(all) + 1, Len(all))
             /\ left' = SubSeq(left, n + 1, Len(left))
             /\ at' = IF n = Len(left) THEN "flush" ELSE "write"
  BY DEF write_all
<1>2. /\ UNCHANGED <<queued, handed, sent, fed, answered, replied, wire, buf, open, cut,
                     unflushed>>
      /\ StreamTypeOK /\ at = "write" /\ open
  BY DEF write_all, engineVars, inVars, SInv
<1>3. received \in Seq(Nat) /\ held \in Seq(Nat) /\ left \in Seq(Nat) /\ n \in 0..Len(left)
  BY <1>2 DEF StreamTypeOK
<1>4. PICK u \in Seq(Nat), v \in Seq(Nat) :
         /\ u = SubSeq(left, 1, n) /\ v = SubSeq(left, n + 1, Len(left)) /\ u \o v = left
         /\ Len(v) = Len(left) - n
  BY <1>3, Cut
<1>5. PICK all \in Seq(Nat) : all = held \o u
  BY <1>3, <1>4, ConcatProperties
<1>6. PICK k \in 0..Len(all) : k = m * Len(all)
  BY <1>5
<1>7. PICK x \in Seq(Nat), y \in Seq(Nat) :
         x = SubSeq(all, 1, k) /\ y = SubSeq(all, k + 1, Len(all)) /\ x \o y = all
  BY <1>5, <1>6, Cut
<1>8. received' = received \o x /\ held' = y /\ left' = v
  BY <1>1, <1>4, <1>5, <1>6, <1>7
<1>9. received' \in Seq(Nat) /\ held' \in Seq(Nat) /\ left' \in Seq(Nat)
  BY <1>3, <1>4, <1>7, <1>8, ConcatProperties
<1>10. Out' = Out
  <2>1. x \o y = held \o u /\ u \o v = left
    BY <1>4, <1>5, <1>7
  <2>2. ((received \o x) \o y) \o v = (received \o held) \o (u \o v)
    <3>1. PICK r \in Seq(Nat), h \in Seq(Nat) : r = received /\ h = held
      BY <1>3
    <3>2. u \in Seq(Nat) /\ v \in Seq(Nat) /\ x \in Seq(Nat) /\ y \in Seq(Nat)
          /\ r \in Seq(Nat) /\ h \in Seq(Nat)
      BY <1>4, <1>7, <3>1
    <3>3. x \o y = h \o u
      BY <2>1, <3>1
    <3>4. r \o h \in Seq(Nat)
      BY <3>2, ConcatTyped
    <3>5. (r \o x) \o y = r \o (x \o y)
      BY <3>2, ConcatRegroups
    <3>6. (r \o h) \o u = r \o (h \o u)
      BY <3>2, ConcatRegroups
    <3>7. ((r \o h) \o u) \o v = (r \o h) \o (u \o v)
      BY <3>2, <3>4, ConcatRegroups
    <3> QED
      BY <3>1, <3>3, <3>5, <3>6, <3>7
  <2> QED
    BY <1>8, <2>1, <2>2 DEF Out
<1>11. at' # "write" => left' = <<>>
  <2>1. at' # "write" => n = Len(left)
    BY <1>1
  <2>2. PICK l \in Nat : l = Len(left)
    BY <1>3
  <2>3. Len(v) = l - n
    BY <1>4, <2>2
  <2>4. n = l => Len(v) = 0
    BY <2>3
  <2>5. Len(v) = 0 => v = <<>>
    OBVIOUS
  <2> QED
    BY <1>8, <2>1, <2>2, <2>4, <2>5
<1>12. StreamTypeOK' /\ LeftIsWritten' /\ HeldIsFlushed'
  BY <1>1, <1>2, <1>9, <1>11 DEF StreamTypeOK, LeftIsWritten, HeldIsFlushed
<1>13. OutIsInOrder' /\ OutIsHanded'
  BY <1>2, <1>10, OutStays
<1>14. InIsInOrder'
  BY <1>2 DEF SInv, InIsInOrder
<1> QED
  BY <1>12, <1>13, <1>14 DEF SInv

\* It passes on what it held back.
LEMMA FlushStep ==
    ASSUME SInv, flush
    PROVE  SInv'
<1>1. /\ at = "flush" /\ at' = "read" /\ received' = received \o held /\ held' = <<>>
      /\ unflushed' = FALSE /\ StreamTypeOK
      /\ UNCHANGED <<queued, handed, sent, fed, answered, replied, wire, buf, open, left, cut>>
  BY DEF flush, engineVars, inVars, SInv
<1>2. received' \in Seq(Nat) /\ held' \in Seq(Nat)
  BY <1>1, ConcatProperties DEF StreamTypeOK
<1>3. StreamTypeOK' /\ LeftIsWritten' /\ HeldIsFlushed'
  BY <1>1, <1>2 DEF StreamTypeOK, LeftIsWritten, HeldIsFlushed, SInv
<1>4. Out' = Out
  <2>1. (received \o held) \o <<>> = received \o held
    BY <1>1, <1>2, ConcatEmptySeq
  <2> QED
    BY <1>1, <2>1 DEF Out
<1>5. OutIsInOrder' /\ OutIsHanded'
  BY <1>1, <1>4, OutStays
<1>6. InIsInOrder'
  BY <1>1 DEF SInv, InIsInOrder
<1> QED
  BY <1>3, <1>5, <1>6 DEF SInv

\* The engine gets what is new in the buffer, which is the head of what came.
LEMMA ReadStep ==
    ASSUME SInv, read
    PROVE  SInv'
<1>1. /\ at = "read" /\ wire # <<>> /\ at' = "ask" /\ StreamTypeOK
      /\ UNCHANGED <<queued, handed, sent, answered, left, held, received, cut, unflushed,
                     replied, open>>
  BY DEF read, outVars, SInv
<1>2. PICK n \in 1..Least(BufLen, Len(wire)) :
         /\ buf' = [i \in 1..BufLen |-> IF i <= n THEN wire[i] ELSE buf[i]]
         /\ wire' = SubSeq(wire, n + 1, Len(wire))
         /\ fed' = fed \o SubSeq(buf', 1, n)
  BY DEF read, enqueue_input
<1>3. wire \in Seq(Nat) /\ buf \in [1..BufLen -> Nat] /\ fed \in Seq(Nat) /\ BufLen \in Nat
  BY <1>1, LengthsAssumption DEF StreamTypeOK
<1>4. n \in 0..Len(wire) /\ n \in 1..BufLen /\ n \in 1..Len(wire)
  BY <1>3 DEF Least
<1>5. PICK x \in Seq(Nat), w \in Seq(Nat) :
         /\ x = SubSeq(wire, 1, n) /\ w = SubSeq(wire, n + 1, Len(wire)) /\ x \o w = wire
         /\ Len(x) = n
  <2>1. PICK s \in Seq(Nat) : s = wire
    BY <1>3
  <2>2. s \in Seq(Nat) /\ n \in 0..Len(s)
    BY <1>4, <2>1
  <2>3. /\ SubSeq(s, 1, n) \in Seq(Nat) /\ SubSeq(s, n + 1, Len(s)) \in Seq(Nat)
        /\ SubSeq(s, 1, n) \o SubSeq(s, n + 1, Len(s)) = s
        /\ Len(SubSeq(s, 1, n)) = n
    BY <2>2, Cut
  <2> QED
    BY <2>1, <2>3
<1>6. PICK b : b = buf'
  OBVIOUS
<1>7. /\ b \in [1..BufLen -> Nat] /\ b \in Seq(Nat) /\ Len(b) = BufLen
      /\ \A i \in 1..n : b[i] = wire[i]
  <2>1. b = [i \in 1..BufLen |-> IF i <= n THEN wire[i] ELSE buf[i]]
    BY <1>2, <1>6
  <2>2. n \in Nat /\ \A i \in 1..n : i \in 1..BufLen /\ i \in 1..Len(wire) /\ i <= n
    BY <1>3, <1>4
  <2>3. \A i \in 1..n : b[i] = wire[i]
    BY <2>1, <2>2
  <2>4. ASSUME NEW i \in 1..BufLen PROVE b[i] \in Nat
    <3>1. CASE i <= n
      <4>1. i \in 1..n
        BY <2>2, <3>1
      <4>2. b[i] = wire[i] /\ i \in 1..Len(wire)
        BY <2>2, <2>3, <4>1
      <4>3. \A j \in 1..Len(wire) : wire[j] \in Nat
        BY <1>3
      <4> QED
        BY <4>2, <4>3
    <3>2. CASE ~(i <= n)
      BY <1>3, <2>1, <3>2
    <3> QED
      BY <3>1, <3>2
  <2>5. b \in [1..BufLen -> Nat]
    BY <2>1, <2>4
  <2> QED
    BY <1>3, <2>3, <2>5
<1>8. SubSeq(b, 1, n) = x
  <2>1. /\ SubSeq(b, 1, n) \in Seq(Nat) /\ Len(SubSeq(b, 1, n)) = n
        /\ \A i \in 1..n : SubSeq(b, 1, n)[i] = b[i]
    BY <1>3, <1>4, <1>7
  <2>2. \A i \in 1..n : x[i] = wire[i]
    BY <1>3, <1>4, <1>5
  <2>3. \A i \in 1..n : SubSeq(b, 1, n)[i] = x[i]
    BY <1>7, <2>1, <2>2
  <2> QED
    BY <1>5, <2>1, <2>3, SeqEqual
<1>9. fed' = fed \o x /\ wire' = w
  BY <1>2, <1>5, <1>6, <1>8
<1>10. fed' \in Seq(Nat) /\ wire' \in Seq(Nat)
  BY <1>3, <1>5, <1>9, ConcatTyped
<1>11. StreamTypeOK' /\ LeftIsWritten' /\ HeldIsFlushed'
  BY <1>1, <1>6, <1>7, <1>10 DEF StreamTypeOK, LeftIsWritten, HeldIsFlushed, SInv
<1>12. InIsInOrder'
  <2>1. PICK f \in Seq(Nat) : f = fed
    BY <1>3
  <2>2. f \in Seq(Nat) /\ x \in Seq(Nat) /\ w \in Seq(Nat)
    BY <1>5, <2>1
  <2>3. (f \o x) \o w = f \o (x \o w)
    BY <2>2, ConcatRegroups
  <2>4. fed' \o wire' = fed \o wire
    BY <1>5, <1>9, <2>1, <2>3
  <2> QED
    BY <1>1, <2>4 DEF SInv, InIsInOrder
<1>13. Out' = Out
  BY <1>1 DEF Out
<1>14. OutIsInOrder' /\ OutIsHanded'
  BY <1>1, <1>13, OutStays
<1> QED
  BY <1>11, <1>12, <1>14 DEF SInv

\* The answers follow each other.
LEMMA ReplyStep ==
    ASSUME SInv, Reply
    PROVE  SInv'
<1>1. /\ replied < handed /\ replied' = replied + 1 /\ StreamTypeOK
      /\ wire' = wire \o Bytes(replied * AnswerLen, (replied + 1) * AnswerLen)
      /\ UNCHANGED <<at, queued, handed, sent, fed, answered, left, held, received, cut,
                     unflushed, buf, open>>
  BY DEF Reply, engineVars, outVars, SInv
<1>2. AnswerLen \in Nat /\ replied \in Nat /\ handed \in Nat /\ queued \in Nat
  BY <1>1, LengthsAssumption, RequestsAssumption DEF StreamTypeOK
<1>3. PICK a : a = replied * AnswerLen
  OBVIOUS
<1>4. PICK b : b = (replied + 1) * AnswerLen
  OBVIOUS
<1>5. a \in Nat /\ b \in Nat /\ a <= b
  <2>1. PICK l : l = AnswerLen
    OBVIOUS
  <2>2. PICK r : r = replied
    OBVIOUS
  <2>3. l \in Nat /\ r \in Nat /\ a = r * l /\ b = (r + 1) * l
    BY <1>2, <1>3, <1>4, <2>1, <2>2
  <2>4. b = r * l + l /\ r * l \in Nat
    BY <2>3
  <2> QED
    BY <2>3, <2>4
<1>6. PICK f \in Seq(Nat), w \in Seq(Nat) : f = fed /\ w = wire
  BY <1>1 DEF StreamTypeOK
<1>7. PICK t \in Seq(Nat) : t = Bytes(a, b) /\ Bytes(0, a) \o t = Bytes(0, b)
  <2>1. 0 \in Nat /\ 0 <= a
    BY <1>5
  <2> QED
    BY <1>5, <2>1, BytesProperties, BytesJoin
<1>8. wire' = w \o t /\ wire' \in Seq(Nat)
  <2>1. f \in Seq(Nat) /\ w \in Seq(Nat) /\ t \in Seq(Nat)
    BY <1>6, <1>7
  <2>2. w \o t \in Seq(Nat)
    BY <2>1, ConcatTyped
  <2> QED
    BY <1>1, <1>3, <1>4, <1>6, <1>7, <2>2
<1>9. StreamTypeOK' /\ LeftIsWritten' /\ HeldIsFlushed'
  <2>1. replied' \in 0..handed'
    BY <1>1, <1>2
  <2> QED
    BY <1>1, <1>8, <2>1 DEF StreamTypeOK, LeftIsWritten, HeldIsFlushed, SInv
<1>10. InIsInOrder'
  <2>1. f \in Seq(Nat) /\ w \in Seq(Nat) /\ t \in Seq(Nat)
    BY <1>6, <1>7
  <2>2. (f \o w) \o t = f \o (w \o t)
    BY <2>1, ConcatRegroups
  <2>3. f \o w = Bytes(0, a)
    BY <1>3, <1>6 DEF SInv, InIsInOrder
  <2>4. fed' \o wire' = Bytes(0, b)
    BY <1>1, <1>6, <1>7, <1>8, <2>2, <2>3
  <2>5. replied' * AnswerLen = b
    BY <1>1, <1>4
  <2> QED
    BY <2>4, <2>5 DEF InIsInOrder
<1>11. Out' = Out
  BY <1>1 DEF Out
<1>12. OutIsInOrder' /\ OutIsHanded'
  BY <1>1, <1>11, OutStays
<1> QED
  BY <1>9, <1>10, <1>12 DEF SInv

\* A call is dropped, or fails: what it had yet to write never arrives.
LEMMA GiveUpStep ==
    ASSUME SInv, at' = "free", left' = <<>>, cut' = (cut \/ left # <<>>),
           UNCHANGED <<engineVars, inVars, open, held, received>>,
           unflushed' \in BOOLEAN, HeldIsFlushed'
    PROVE  SInv'
<1>1. UNCHANGED <<queued, handed, sent, fed, answered, replied, wire, buf>> /\ StreamTypeOK
  BY DEF engineVars, inVars, SInv
<1>2. StreamTypeOK' /\ LeftIsWritten'
  BY <1>1 DEF StreamTypeOK, LeftIsWritten
<1>3. InIsInOrder'
  BY <1>1 DEF SInv, InIsInOrder
<1>4. PICK s \in Seq(Nat), l \in Seq(Nat), o \in Seq(Nat) :
         s = received \o held /\ l = left /\ o = Out /\ o = s \o l
  BY <1>1, OutTyped DEF StreamTypeOK
<1>5. Out' = s
  <2>1. s \o <<>> = s
    BY <1>4
  <2> QED
    BY <1>4, <2>1 DEF Out
<1>6. CASE left = <<>>
  <2>1. Out' = Out /\ (cut => cut')
    BY <1>1, <1>4, <1>5, <1>6, OutTyped
  <2>2. OutIsInOrder' /\ OutIsHanded'
    BY <1>1, <2>1, OutStays
  <2> QED
    BY <1>2, <1>3, <2>2 DEF SInv
<1>7. CASE left # <<>>
  <2>1. /\ Len(o) = Len(s) + Len(l) /\ Len(s) \in Nat /\ Len(l) \in Nat
        /\ \A i \in 1..Len(s) : i \in 1..Len(o) /\ o[i] = s[i]
    <3>1. s \in Seq(Nat) /\ l \in Seq(Nat) /\ Len(s) \in Nat /\ Len(l) \in Nat
      BY <1>4
    <3>2. /\ Len(s \o l) = Len(s) + Len(l)
          /\ \A i \in 1..(Len(s) + Len(l)) :
                (s \o l)[i] = IF i <= Len(s) THEN s[i] ELSE l[i - Len(s)]
      BY <3>1, ConcatTyped
    <3>3. \A i \in 1..Len(s) : i \in 1..(Len(s) + Len(l)) /\ i <= Len(s)
      BY <3>1
    <3> QED
      BY <1>4, <3>1, <3>2, <3>3
  <2>2. /\ \A i, j \in DOMAIN o : i < j => o[i] < o[j]
        /\ \A i \in DOMAIN o : o[i] <= Last(handed)
    BY <1>4 DEF SInv, OutIsInOrder, OutIsHanded, Out
  <2>3. DOMAIN o = 1..Len(o) /\ DOMAIN s = 1..Len(s)
    BY <1>4
  <2>4. /\ \A i, j \in DOMAIN s : i < j => s[i] < s[j]
        /\ \A i \in DOMAIN s : s[i] <= Last(handed)
    BY <2>1, <2>2, <2>3
  <2>5. OutIsHanded'
    BY <1>1, <1>5, <2>4 DEF OutIsHanded, Last
  <2>6. OutIsInOrder'
    BY <1>5, <1>7, <2>4 DEF OutIsInOrder, Out
  <2> QED
    BY <1>2, <1>3, <2>5, <2>6 DEF SInv
<1> QED
  BY <1>6, <1>7

LEMMA NextStream ==
    ASSUME SInv, [Next]_vars
    PROVE  SInv'
<1>1. StreamTypeOK
  BY DEF SInv
<1>2. Len(Requests) \in Nat /\ queued \in Nat /\ handed \in Nat
  BY <1>1, RequestsAssumption DEF StreamTypeOK
<1> USE DEF engineVars, outVars, inVars
<1>3. CASE Enqueue
  <2>1. StreamTypeOK'
    BY <1>1, <1>2, <1>3 DEF Enqueue, StreamTypeOK
  <2>2. /\ LeftIsWritten' /\ HeldIsFlushed' /\ (cut => cut')
        /\ UNCHANGED <<handed, left, held, received, replied, fed, wire, buf>>
    BY <1>3 DEF Enqueue, SInv, LeftIsWritten, HeldIsFlushed
  <2> QED
    BY <2>1, <2>2, QuietStep
<1>4. CASE Call
  <2>1. StreamTypeOK'
    BY <1>1, <1>4 DEF Call, StreamTypeOK
  <2>2. /\ LeftIsWritten' /\ HeldIsFlushed' /\ (cut => cut')
        /\ UNCHANGED <<handed, left, held, received, replied, fed, wire, buf>>
    BY <1>4 DEF Call, SInv, LeftIsWritten, HeldIsFlushed
  <2> QED
    BY <2>1, <2>2, QuietStep
<1>5. CASE EventSent
  <2>1. StreamTypeOK'
    BY <1>1, <1>5 DEF EventSent, StreamTypeOK
  <2>2. /\ LeftIsWritten' /\ HeldIsFlushed' /\ (cut => cut')
        /\ UNCHANGED <<handed, left, held, received, replied, fed, wire, buf>>
    BY <1>5 DEF EventSent, SInv, LeftIsWritten, HeldIsFlushed
  <2> QED
    BY <2>1, <2>2, QuietStep
<1>6. CASE EventReceived
  <2>1. StreamTypeOK'
    BY <1>1, <1>6 DEF EventReceived, StreamTypeOK
  <2>2. /\ LeftIsWritten' /\ HeldIsFlushed' /\ (cut => cut')
        /\ UNCHANGED <<handed, left, held, received, replied, fed, wire, buf>>
    BY <1>6 DEF EventReceived, SInv, LeftIsWritten, HeldIsFlushed
  <2> QED
    BY <2>1, <2>2, QuietStep
<1>7. CASE NeedMoreInput
  <2>1. StreamTypeOK'
    BY <1>1, <1>7 DEF NeedMoreInput, StreamTypeOK
  <2>2. /\ LeftIsWritten' /\ HeldIsFlushed' /\ (cut => cut')
        /\ UNCHANGED <<handed, left, held, received, replied, fed, wire, buf>>
    BY <1>7 DEF NeedMoreInput, SInv, LeftIsWritten, HeldIsFlushed
  <2> QED
    BY <2>1, <2>2, QuietStep
<1>8. CASE Close
  <2>1. StreamTypeOK'
    BY <1>1, <1>8 DEF Close, StreamTypeOK
  <2>2. /\ LeftIsWritten' /\ HeldIsFlushed' /\ (cut => cut')
        /\ UNCHANGED <<handed, left, held, received, replied, fed, wire, buf>>
    BY <1>8 DEF Close, SInv, LeftIsWritten, HeldIsFlushed
  <2> QED
    BY <2>1, <2>2, QuietStep
<1>9. CASE Rest \/ UNCHANGED vars
  <2>1. StreamTypeOK'
    BY <1>1, <1>9 DEF Rest, vars, StreamTypeOK
  <2>2. /\ LeftIsWritten' /\ HeldIsFlushed' /\ (cut => cut')
        /\ UNCHANGED <<handed, left, held, received, replied, fed, wire, buf>>
    BY <1>9 DEF Rest, vars, SInv, LeftIsWritten, HeldIsFlushed
  <2> QED
    BY <2>1, <2>2, QuietStep
<1>10. CASE Fails
  <2>1. /\ at' = "free" /\ left' = <<>> /\ cut' = (cut \/ left # <<>>)
        /\ UNCHANGED <<engineVars, inVars, open, held, received>>
    BY <1>10 DEF Fails
  <2>2. unflushed' \in BOOLEAN /\ HeldIsFlushed'
    BY <1>1, <1>10 DEF Fails, StreamTypeOK, HeldIsFlushed
  <2> QED
    BY <2>1, <2>2, GiveUpStep
<1>11. CASE Drop
  <2>1. /\ at' = "free" /\ left' = <<>> /\ cut' = (cut \/ left # <<>>)
        /\ UNCHANGED <<engineVars, inVars, open, held, received>>
    BY <1>11 DEF Drop
  <2>2. unflushed' \in BOOLEAN /\ HeldIsFlushed'
    BY <1>1, <1>11 DEF Drop, StreamTypeOK, HeldIsFlushed, SInv
  <2> QED
    BY <2>1, <2>2, GiveUpStep
<1> QED
  BY <1>3, <1>4, <1>5, <1>6, <1>7, <1>8, <1>9, <1>10, <1>11,
     OutputStep, WriteStep, FlushStep, ReadStep, ReplyStep DEF Next

-----------------------------------------------------------------------------
(* Theorems *)

LEMMA StreamInvariance == Spec => []SInv
<1>1. SInv /\ [Next]_vars => SInv'
  BY NextStream
<1> QED
  BY InitStream, <1>1, PTL DEF Spec

\* Of write_all, flush and the drops: the peer gets what the engine handed out,
\* all and in order; after a call dropped in the middle of a write still no byte
\* twice or out of order.
THEOREM OutIsInOrderHolds == Spec => []OutIsInOrder
<1>1. SInv => OutIsInOrder
  BY DEF SInv
<1> QED
  BY StreamInvariance, <1>1, PTL

\* Of read and enqueue_input: the engine gets what the peer sent, all and in
\* order, whatever was in the buffer before and however long the buffer is.
THEOREM InIsInOrderHolds == Spec => []InIsInOrder
<1>1. SInv => InIsInOrder
  BY DEF SInv
<1> QED
  BY StreamInvariance, <1>1, PTL

\* Of Stream::next: it reads only when all it was handed has reached the peer,
\* unless a call was dropped before.
THEOREM ReadsAfterFlushHolds == Spec => []ReadsAfterFlush
<1>1. SInv => ReadsAfterFlush
  <2> SUFFICES ASSUME SInv, at = "read", ~cut, ~unflushed
               PROVE  Len(received) = Last(handed)
    BY DEF ReadsAfterFlush
  <2>1. left = <<>> /\ held = <<>> /\ received \in Seq(Nat)
    BY DEF SInv, LeftIsWritten, HeldIsFlushed, StreamTypeOK
  <2>2. Out = received
    <3>1. received \o <<>> = received
      BY <2>1
    <3> QED
      BY <2>1, <3>1 DEF Out
  <2>3. received = Bytes(0, Last(handed))
    BY <2>2 DEF SInv, OutIsInOrder, Out
  <2>4. handed \in 0..Len(Requests)
    BY RequestsAssumption DEF SInv, StreamTypeOK
  <2>5. PICK b \in Nat : b = Last(handed)
    BY <2>4, LastGrows
  <2>6. 0 \in Nat /\ 0 <= b
    OBVIOUS
  <2>7. Len(Bytes(0, b)) = b - 0
    BY <2>6, BytesProperties
  <2> QED
    BY <2>3, <2>5, <2>7
<1> QED
  BY StreamInvariance, <1>1, PTL
=============================================================================
