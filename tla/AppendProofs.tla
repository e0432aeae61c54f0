---------------------------- MODULE AppendProofs ----------------------------
(***************************************************************************)
(* Proofs, for any mailbox and any number of deliveries and expunges by    *)
(* other sessions, about what appenduid_or_fallback finds.                 *)
(***************************************************************************)
EXTENDS AppendFallback, FiniteSetTheorems, TLAPS

-----------------------------------------------------------------------------
(* The invariant *)

AppendTypeOK ==
    /\ ext_uidplus_supported \in BOOLEAN
    /\ box \subseteq 1..MaxUid /\ view \subseteq 1..MaxUid /\ old \subseteq 1..MaxUid
    /\ theirs \subseteq 1..MaxUid /\ uidnext \in 1..(MaxUid + 1) /\ mine \in 0..MaxUid
    /\ pending \in {"appenduid", "select", "append", "noop", "check", "search", "ok",
                    "missing", "error", "panic"}
    /\ seq \subseteq Nat /\ result \in Nat

\* UIDs are given out in ascending order.
Ascending == \A m \in box \cup view \cup old \cup theirs \cup {mine} : m < uidnext

\* The fallback, once it has selected the mailbox: before and after EXISTS.
Waits == {"append", "noop", "check", "missing"}
Told == {"search", "ok", "panic"}
Selected == ~ext_uidplus_supported /\ pending \in Waits \cup Told

\* What is in the mailbox and in the view was there, is theirs or mine, what was
\* there comes first, and the session still sees what is left of it.
Origin ==
    /\ pending = "appenduid" => ext_uidplus_supported
    /\ ext_uidplus_supported => pending \in {"appenduid", "ok", "error"}
    /\ pending # "ok" => result = 0
    /\ pending \in {"select", "append"} => mine = 0
    /\ Selected =>
          /\ box \cup view \subseteq old \cup theirs \cup {mine}
          /\ \A m \in (box \cup view) \ old, k \in old : k < m
          /\ old \cap box \subseteq view
          /\ 0 \notin box /\ mine \notin old

\* Until EXISTS the session sees nothing new.
NothingNew == Selected /\ pending \in Waits => view \subseteq old

\* EXISTS gave a number no smaller than that of the last message the session sees.
\* That message is new unless something was expunged.
LastIsNew ==
    Selected /\ pending \in Told =>
        /\ \E n \in seq : seq = {n} /\ Cardinality(view) <= n
        /\ old \cup theirs \subseteq box => view \ old # {}
        /\ 0 \in seq => old \cap box = {}
        /\ result \in {0, Cardinality(view)}
        /\ pending = "panic" => 0 \in seq

AppendInv == AppendTypeOK /\ Ascending /\ Origin /\ NothingNew /\ LastIsNew

-----------------------------------------------------------------------------
(* Numbers *)

LEMMA UidsAreFinite ==
    ASSUME NEW S \in SUBSET (1..MaxUid)
    PROVE  IsFiniteSet(S) /\ Cardinality(S) \in Nat /\ (Cardinality(S) = 0 <=> S = {})
<1>1. IsFiniteSet(1..MaxUid)
  BY MailboxAssumption, FS_Interval
<1>2. IsFiniteSet(S)
  BY <1>1, FS_Subset
<1> QED
  BY <1>2, FS_CardinalityType, FS_EmptySet

LEMMA Fewer ==
    ASSUME NEW S \in SUBSET (1..MaxUid), NEW T \in SUBSET S
    PROVE  Cardinality(T) <= Cardinality(S)
BY UidsAreFinite, FS_Subset

\* There is a last message, unless there is none.
LEMMA LastMessage ==
    ASSUME NEW S \in SUBSET (1..MaxUid), S # {}
    PROVE  \E m \in S : \A k \in S : k <= m
<1> DEFINE T == {i \in Nat : MaxUid - i \in S}
<1>1. MaxUid \in Nat /\ \A k \in S : k \in 1..MaxUid
  BY MailboxAssumption
<1>2. \A k \in S : MaxUid - k \in T
  BY <1>1
<1>3. T # {} /\ T \subseteq Nat
  BY <1>2
<1>4. PICK n \in T : \A y \in T : ~ (<<y, n>> \in OpToRel(<, Nat))
  <2> HIDE DEF T
  <2> QED
    BY <1>3, NatLessThanWellFounded, WFMin
<1>5. ASSUME NEW y \in T PROVE n <= y
  <2>1. n \in Nat /\ y \in Nat
    OBVIOUS
  <2>2. y < n => <<y, n>> \in OpToRel(<, Nat)
    BY <2>1 DEF OpToRel
  <2>3. ~ (<<y, n>> \in OpToRel(<, Nat))
    <3> HIDE DEF T
    <3> QED
      BY <1>4
  <2>4. ~(y < n)
    BY <2>2, <2>3, Zenon
  <2> QED
    BY <2>1, <2>4
<1>6. MaxUid - n \in S
  OBVIOUS
<1>7. ASSUME NEW k \in S PROVE k <= MaxUid - n
  <2>1. n \in Nat /\ n <= MaxUid - k
    BY <1>2, <1>5
  <2> QED
    BY <1>1, <2>1
<1> QED
  BY <1>6, <1>7

\* The last message has the number that is the number of messages.
LEMMA LastNumber ==
    ASSUME NEW m \in view, \A k \in view : k <= m
    PROVE  Number(m) = Cardinality(view)
<1>1. {k \in view : k <= m} = view
  OBVIOUS
<1> QED
  BY <1>1 DEF Number

-----------------------------------------------------------------------------
(* What the server says *)

\* Without EXISTS nothing new is seen.  With it either what is new is seen or
\* something is gone, and the number it gave is not too small.
LEMMA SaidProperties ==
    ASSUME NEW v \in SUBSET (1..MaxUid), NEW b \in SUBSET (1..MaxUid), NEW s \in Said(v, b)
    PROVE  /\ s[1] \subseteq v \cup b /\ s[1] \in SUBSET (1..MaxUid)
           /\ v \cap b \subseteq s[1]
           /\ \A m \in s[1] \ v, k \in v : k < m
           /\ s[2] = {} => s[1] \subseteq v
           /\ s[2] # {} => (\E m \in s[1] \ v : m \in b) \/ ~(v \subseteq b)
           /\ s[2] # {} => \E n \in Nat : s[2] = {n} /\ Cardinality(s[1]) <= n
           /\ 0 \in s[2] => v \cap b = {}
<1> DEFINE new == New(v, b)
           all == v \cup new
           left == all \cap b
           n == IF new = {} THEN {} ELSE {Cardinality(all)}
<1>1. /\ new \subseteq b /\ new \cap v = {} /\ \A m \in new, k \in v : k < m
      /\ all \in SUBSET (1..MaxUid) /\ left \in SUBSET all /\ left \in SUBSET (1..MaxUid)
  <2>1. new \subseteq b /\ \A m \in new, k \in v : k < m
    BY DEF New
  <2>2. new \cap v = {}
    <3>1. \A m \in 1..MaxUid : ~(m < m)
      BY MailboxAssumption
    <3> QED
      BY <2>1, <3>1
  <2> HIDE DEF new
  <2> QED
    BY <2>1, <2>2
<1>2. /\ Cardinality(all) \in Nat /\ Cardinality(left) \in Nat
      /\ Cardinality(left) <= Cardinality(all)
      /\ new # {} => Cardinality(all) # 0
      /\ Cardinality(left) = 0 => left = {}
  <2> HIDE DEF left
  <2>1. new # {} => all # {}
    OBVIOUS
  <2> HIDE DEF all
  <2> QED
    BY <1>1, <2>1, UidsAreFinite, Fewer
<1>3. \/ s = <<v, {}>>
      \/ s = <<v \cap b, {}>>
      \/ s = <<all, n>>
      \/ s = <<left, n>>
      \/ s = <<left, IF left = v THEN {} ELSE {Cardinality(left)}>>
  BY DEF Said
<1>4. new = {} => all = v
  OBVIOUS
<1>5. v \cap b \subseteq left /\ (v \subseteq b /\ left # v => new # {}) /\ new \subseteq left
  BY <1>1
<1> HIDE DEF new
<1>6. CASE s = <<v, {}>>
  BY <1>6
<1>7. CASE s = <<v \cap b, {}>>
  BY <1>7
<1>8. CASE s = <<all, n>>
  <2>1. CASE new = {}
    BY <1>1, <1>4, <1>8, <2>1
  <2>2. CASE new # {}
    <3>1. s[1] = all /\ s[2] = {Cardinality(all)}
      BY <1>8, <2>2
    <3>2. PICK m \in new : m \in all /\ m \notin v /\ m \in b
      BY <1>1, <2>2
    <3>3. s[1] \subseteq v \cup b /\ s[1] \in SUBSET (1..MaxUid) /\ v \cap b \subseteq s[1]
      BY <1>1, <3>1
    <3>4. \A i \in s[1] \ v, k \in v : k < i
      BY <1>1, <3>1
    <3>5. \E i \in s[1] \ v : i \in b
      BY <3>1, <3>2
    <3> HIDE DEF all
    <3>6. s[2] # {} /\ 0 \notin s[2] /\ Cardinality(s[1]) <= Cardinality(all)
      BY <1>2, <2>2, <3>1
    <3> QED
      BY <1>2, <3>1, <3>3, <3>4, <3>5, <3>6
  <2> QED
    BY <2>1, <2>2
<1>9. CASE s = <<left, n>>
  <2>1. CASE new = {}
    BY <1>1, <1>4, <1>5, <1>9, <2>1
  <2>2. CASE new # {}
    <3>1. s[1] = left /\ s[2] = {Cardinality(all)}
      BY <1>9, <2>2
    <3>2. PICK m \in new : m \in left /\ m \notin v /\ m \in b
      BY <1>1, <1>5, <2>2
    <3> QED
      BY <1>1, <1>2, <1>5, <2>2, <3>1, <3>2
  <2> QED
    BY <2>1, <2>2
<1>10. CASE s = <<left, IF left = v THEN {} ELSE {Cardinality(left)}>>
  <2>1. CASE left = v
    BY <1>1, <1>5, <1>10, <2>1
  <2>2. CASE left # v
    <3>1. s[1] = left /\ s[2] = {Cardinality(left)}
      BY <1>10, <2>2
    <3>2. v \subseteq b => \E m \in left : m \in new /\ m \notin v /\ m \in b
      BY <1>1, <1>5, <2>2
    <3>3. s[1] \subseteq v \cup b /\ s[1] \in SUBSET (1..MaxUid) /\ v \cap b \subseteq s[1]
      BY <1>1, <1>5, <3>1
    <3>4. \A i \in s[1] \ v, k \in v : k < i
      BY <1>1, <3>1
    <3>5. (\E i \in s[1] \ v : i \in b) \/ ~(v \subseteq b)
      BY <3>1, <3>2
    <3>6. 0 \in s[2] => v \cap b = {}
      BY <1>2, <1>5, <3>1
    <3> HIDE DEF left
    <3>7. s[2] # {} /\ Cardinality(s[1]) <= Cardinality(left)
      BY <1>2, <3>1
    <3> QED
      BY <1>2, <3>1, <3>3, <3>4, <3>5, <3>6, <3>7
  <2> QED
    BY <2>1, <2>2
<1> QED
  BY <1>3, <1>6, <1>7, <1>8, <1>9, <1>10

-----------------------------------------------------------------------------
(* The steps *)

LEMMA InitAppend == Init => AppendInv
<1> SUFFICES ASSUME Init PROVE AppendInv
  OBVIOUS
<1>1. /\ box = Mailbox /\ view = {} /\ old = {} /\ mine = 0 /\ theirs = {} /\ seq = {}
      /\ result = 0 /\ uidnext \in 1..(MaxUid + 1) /\ \A m \in Mailbox : m < uidnext
      /\ ext_uidplus_supported \in BOOLEAN
      /\ pending = IF ext_uidplus_supported THEN "appenduid" ELSE "select"
  BY DEF Init
<1>2. AppendTypeOK
  BY <1>1, MailboxAssumption DEF AppendTypeOK
<1>3. Ascending
  BY <1>1, MailboxAssumption DEF Ascending
<1> QED
  BY <1>1, <1>2, <1>3
     DEF AppendInv, Origin, NothingNew, LastIsNew, Selected, Waits, Told

LEMMA FailsStep ==
    ASSUME AppendInv, NEW step, step # "ok", Fails(step)
    PROVE  AppendInv'
BY DEF AppendInv, Fails, boxVars, AppendTypeOK, Ascending, Origin, NothingNew, LastIsNew,
       Selected, Waits, Told

LEMMA SelectStep ==
    ASSUME AppendInv, select
    PROVE  AppendInv'
<1>1. CASE Fails("select")
  BY <1>1, FailsStep
<1>2. CASE ~Fails("select")
  <2>1. /\ pending = "select" /\ pending' = "append" /\ view' = box /\ old' = box
        /\ UNCHANGED <<ext_uidplus_supported, box, uidnext, mine, theirs, seq, result>>
    BY <1>2 DEF select
  <2>2. AppendTypeOK' /\ Ascending'
    BY <2>1 DEF AppendInv, AppendTypeOK, Ascending
  <2>3. mine = 0 /\ 0 \notin box /\ result = 0 /\ ~ext_uidplus_supported
    BY <2>1, MailboxAssumption DEF AppendInv, Origin, AppendTypeOK
  <2>4. Origin' /\ NothingNew' /\ LastIsNew'
    BY <2>1, <2>3 DEF Origin, NothingNew, LastIsNew, Selected, Waits, Told
  <2> QED
    BY <2>2, <2>4 DEF AppendInv
<1> QED
  BY <1>1, <1>2

\* What the server says of a box of which the session sees nothing new yet.
LEMMA PostAppendStep ==
    ASSUME AppendInv, NEW step \in {"noop", "check"}, NEW next \in Waits, next # "append",
           PostAppend(step, next)
    PROVE  AppendInv'
<1>1. CASE Fails(step)
  BY <1>1, FailsStep
<1>2. CASE ~Fails(step)
  <2>1. PICK s \in Said(view, box) :
           /\ view' = s[1] /\ seq' = s[2]
           /\ pending = step /\ pending' = IF seq' # {} THEN "search" ELSE next
           /\ UNCHANGED <<ext_uidplus_supported, box, uidnext, old, mine, theirs, result>>
    BY <1>2 DEF PostAppend
  <2>2. /\ AppendTypeOK /\ Ascending /\ Origin /\ NothingNew
        /\ view \in SUBSET (1..MaxUid) /\ box \in SUBSET (1..MaxUid)
    BY DEF AppendInv, AppendTypeOK
  <2>3. /\ view' \subseteq view \cup box /\ view' \in SUBSET (1..MaxUid)
        /\ view \cap box \subseteq view'
        /\ seq' = {} => view' \subseteq view
        /\ seq' # {} => (\E m \in view' \ view : m \in box) \/ ~(view \subseteq box)
        /\ seq' # {} => \E n \in Nat : seq' = {n} /\ Cardinality(view') <= n
        /\ 0 \in seq' => view \cap box = {}
        /\ \A m \in view' \ view, k \in view : k < m
    <3>1. /\ s[1] \subseteq view \cup box /\ s[1] \in SUBSET (1..MaxUid)
          /\ view \cap box \subseteq s[1]
          /\ \A m \in s[1] \ view, k \in view : k < m
          /\ s[2] = {} => s[1] \subseteq view
          /\ s[2] # {} => (\E m \in s[1] \ view : m \in box) \/ ~(view \subseteq box)
          /\ s[2] # {} => \E n \in Nat : s[2] = {n} /\ Cardinality(s[1]) <= n
          /\ 0 \in s[2] => view \cap box = {}
      BY <2>2, SaidProperties
    <3>2. view' = s[1] /\ seq' = s[2]
      BY <2>1
    <3> QED
      BY <3>1, <3>2
  <2>4. pending' \in {"search", "noop", "check", "missing"}
    BY <2>1 DEF Waits
  <2>5. AppendTypeOK'
    BY <2>1, <2>2, <2>3, <2>4 DEF AppendTypeOK
  <2>6. Ascending'
    BY <2>1, <2>2, <2>3 DEF Ascending
  <2>7. CASE ext_uidplus_supported
    BY <2>1, <2>4, <2>5, <2>6, <2>7 DEF AppendInv, Origin, NothingNew, LastIsNew, Selected
  <2>8. CASE ~ext_uidplus_supported
    <3>1. /\ box \cup view \subseteq old \cup theirs \cup {mine}
          /\ \A m \in (box \cup view) \ old, k \in old : k < m
          /\ old \cap box \subseteq view /\ 0 \notin box /\ mine \notin old
          /\ view \subseteq old
      BY <2>1, <2>2, <2>8 DEF Origin, NothingNew, Selected, Waits
    <3>2. Origin'
      BY <2>1, <2>2, <2>3, <2>4, <3>1 DEF Origin
    <3>3. NothingNew'
      BY <2>1, <2>3, <3>1 DEF NothingNew, Waits
    <3>4. CASE seq' = {}
      <4>1. pending' \notin Told
        BY <2>1, <3>4 DEF Waits, Told
      <4> QED
        BY <2>5, <2>6, <3>2, <3>3, <4>1 DEF AppendInv, LastIsNew
    <3>5. CASE seq' # {}
      <4>1. \E n \in seq' : seq' = {n} /\ Cardinality(view') <= n
        BY <2>3, <3>5
      <4>2. old \cup theirs \subseteq box => view' \ old # {}
        <5>1. ASSUME NEW m \in view', m \notin view, m \in box PROVE m \notin old
          BY <3>1, <5>1
        <5>2. old \subseteq box => view \subseteq box
          BY <3>1
        <5> QED
          BY <2>3, <3>5, <5>1, <5>2
      <4>3. 0 \in seq' => old \cap box = {}
        BY <2>3, <3>1
      <4>4. result = 0 /\ pending' = "search"
        BY <2>1, <2>2, <3>5 DEF Origin
      <4> QED
        BY <2>1, <2>5, <2>6, <3>2, <3>3, <4>1, <4>2, <4>3, <4>4 DEF AppendInv, LastIsNew
    <3> QED
      BY <3>4, <3>5
  <2> QED
    BY <2>7, <2>8
<1> QED
  BY <1>1, <1>2

\* The server may speak before the message is in, and then once more.
LEMMA AppendStep ==
    ASSUME AppendInv, append
    PROVE  AppendInv'
<1>1. CASE Fails("append")
  BY <1>1, FailsStep
<1>2. CASE ~Fails("append")
  <2>1. /\ pending = "append" /\ uidnext <= MaxUid /\ box' = box \cup {uidnext}
        /\ mine' = uidnext /\ uidnext' = uidnext + 1
        /\ pending' = IF seq' # {} THEN "search" ELSE "noop"
        /\ UNCHANGED <<ext_uidplus_supported, old, theirs, result>>
    BY <1>2 DEF append, Appended
  <2>2. PICK s \in Said(view, box) : \E t \in Said(s[1], box') :
           view' = t[1] /\ seq' = IF t[2] # {} THEN t[2] ELSE s[2]
    BY <1>2 DEF append
  <2>3. /\ AppendTypeOK /\ Ascending /\ Origin /\ NothingNew
        /\ view \in SUBSET (1..MaxUid) /\ box \in SUBSET (1..MaxUid)
        /\ uidnext \in 1..MaxUid /\ MaxUid \in Nat
    BY <2>1, MailboxAssumption DEF AppendInv, AppendTypeOK
  <2>4. PICK x, p : x = s[1] /\ p = s[2]
    OBVIOUS
  <2>5. /\ x \subseteq view \cup box /\ x \in SUBSET (1..MaxUid) /\ view \cap box \subseteq x
        /\ \A m \in x \ view, k \in view : k < m
        /\ p = {} => x \subseteq view
        /\ p # {} => (\E m \in x \ view : m \in box) \/ ~(view \subseteq box)
        /\ p # {} => \E n \in Nat : p = {n} /\ Cardinality(x) <= n
        /\ 0 \in p => view \cap box = {}
    <3>1. /\ s[1] \subseteq view \cup box /\ s[1] \in SUBSET (1..MaxUid)
          /\ view \cap box \subseteq s[1]
          /\ \A m \in s[1] \ view, k \in view : k < m
          /\ s[2] = {} => s[1] \subseteq view
          /\ s[2] # {} => (\E m \in s[1] \ view : m \in box) \/ ~(view \subseteq box)
          /\ s[2] # {} => \E n \in Nat : s[2] = {n} /\ Cardinality(s[1]) <= n
          /\ 0 \in s[2] => view \cap box = {}
      BY <2>3, SaidProperties
    <3> QED
      BY <2>4, <3>1
  <2>6. PICK c \in SUBSET (1..MaxUid) : c = box'
    BY <2>1, <2>3
  <2>7. PICK t \in Said(x, c) : view' = t[1] /\ seq' = IF t[2] # {} THEN t[2] ELSE p
    BY <2>2, <2>4, <2>6
  <2>8. PICK w, q : w = t[1] /\ q = t[2]
    OBVIOUS
  <2>9. /\ w \subseteq x \cup c /\ w \in SUBSET (1..MaxUid) /\ x \cap c \subseteq w
        /\ q = {} => w \subseteq x
        /\ q # {} => (\E m \in w \ x : m \in c) \/ ~(x \subseteq c)
        /\ q # {} => \E n \in Nat : q = {n} /\ Cardinality(w) <= n
        /\ 0 \in q => x \cap c = {}
    <3>1. /\ t[1] \subseteq x \cup c /\ t[1] \in SUBSET (1..MaxUid)
          /\ x \cap c \subseteq t[1]
          /\ \A m \in t[1] \ x, k \in x : k < m
          /\ t[2] = {} => t[1] \subseteq x
          /\ t[2] # {} => (\E m \in t[1] \ x : m \in c) \/ ~(x \subseteq c)
          /\ t[2] # {} => \E n \in Nat : t[2] = {n} /\ Cardinality(t[1]) <= n
          /\ 0 \in t[2] => x \cap c = {}
      <4>1. x \in SUBSET (1..MaxUid) /\ c \in SUBSET (1..MaxUid) /\ t \in Said(x, c)
        BY <2>5, <2>6, <2>7
      <4> QED
        BY <4>1, SaidProperties
    <3> QED
      BY <2>8, <3>1
  <2>10. view' = w /\ seq' = IF q # {} THEN q ELSE p
    BY <2>7, <2>8
  <2>11. AppendTypeOK'
    <3>1. seq' \subseteq Nat
      BY <2>5, <2>9, <2>10
    <3>2. uidnext + 1 \in 1..(MaxUid + 1) /\ uidnext \in 0..MaxUid
      BY <2>3
    <3>3. pending' \in {"search", "noop"}
      BY <2>1
    <3> QED
      BY <2>1, <2>3, <2>6, <2>9, <2>10, <3>1, <3>2, <3>3 DEF AppendTypeOK
  <2>12. Ascending'
    <3>1. \A m \in view \cup box \cup old \cup theirs : m \in Nat /\ m < uidnext
      BY <2>3 DEF Ascending, AppendTypeOK
    <3>2. w \subseteq view \cup box \cup {uidnext}
      BY <2>1, <2>5, <2>6, <2>9
    <3> QED
      BY <2>1, <2>3, <2>10, <3>1, <3>2 DEF Ascending
  <2>13. CASE ext_uidplus_supported
    BY <2>1, <2>3, <2>11, <2>12, <2>13
       DEF AppendInv, Origin, NothingNew, LastIsNew, Selected
  <2>14. CASE ~ext_uidplus_supported
    <3>1. /\ box \cup view \subseteq old \cup theirs
          /\ \A m \in (box \cup view) \ old, k \in old : k < m
          /\ old \cap box \subseteq view /\ 0 \notin box /\ view \subseteq old /\ result = 0
      <4>1. Selected /\ mine = 0 /\ 0 \notin box /\ 0 \notin view
        BY <2>1, <2>3, <2>14 DEF Origin, Selected, Waits, AppendTypeOK
      <4> QED
        BY <2>1, <2>3, <4>1 DEF Origin, NothingNew, Waits
    <3>2. /\ c = box \cup {uidnext} /\ uidnext \notin old /\ uidnext \notin box
          /\ \A k \in old : k < uidnext
      <4>1. \A k \in old \cup box : k < uidnext
        BY <2>3 DEF Ascending
      <4>2. ~(uidnext < uidnext)
        BY <2>3
      <4> QED
        BY <2>1, <2>6, <4>1, <4>2
    <3>3. w \subseteq view \cup c
      BY <2>5, <2>9, <3>2
    <3>4. Origin'
      <4>1. c \cup w \subseteq old \cup theirs \cup {uidnext}
        BY <3>1, <3>2, <3>3
      <4>2. \A m \in (c \cup w) \ old, k \in old : k < m
        BY <3>1, <3>2, <3>3
      <4>3. old \cap c \subseteq w
        BY <2>5, <2>9, <3>1, <3>2
      <4>4. 0 \notin c
        BY <2>3, <3>1, <3>2
      <4> QED
        BY <2>1, <2>6, <2>10, <2>14, <3>1, <3>2, <4>1, <4>2, <4>3, <4>4 DEF Origin
    <3>5. CASE seq' = {}
      <4>1. w \subseteq old
        BY <2>5, <2>9, <2>10, <3>1, <3>5
      <4>2. pending' = "noop"
        BY <2>1, <3>5
      <4> QED
        BY <2>1, <2>10, <2>11, <2>12, <3>4, <4>1, <4>2
           DEF AppendInv, NothingNew, LastIsNew, Told
    <3>6. CASE seq' # {}
      <4>1. \E n \in seq' : seq' = {n} /\ Cardinality(w) <= n
        <5>1. CASE q # {}
          BY <2>9, <2>10, <5>1
        <5>2. CASE q = {}
          <6>1. PICK n \in Nat : p = {n} /\ Cardinality(x) <= n
            BY <2>5, <2>10, <3>6, <5>2
          <6>2. Cardinality(w) <= Cardinality(x)
            BY <2>5, <2>9, <5>2, Fewer
          <6>3. Cardinality(w) \in Nat /\ Cardinality(x) \in Nat
            BY <2>5, <2>9, UidsAreFinite
          <6> QED
            BY <2>10, <5>2, <6>1, <6>2, <6>3
        <5> QED
          BY <5>1, <5>2
      <4>2. old \cup theirs \subseteq c => w \ old # {}
        <5> SUFFICES ASSUME old \cup theirs \subseteq c PROVE w \ old # {}
          OBVIOUS
        <5>1. old \subseteq box /\ view \subseteq box /\ old \subseteq x /\ x \subseteq c
          BY <2>5, <3>1, <3>2
        <5>2. CASE q # {}
          BY <2>9, <5>1, <5>2
        <5>3. CASE q = {}
          <6>1. PICK m \in x : m \notin view /\ m \in box
            BY <2>5, <2>10, <3>6, <5>1, <5>3
          <6> QED
            BY <2>9, <3>1, <3>2, <6>1
        <5> QED
          BY <5>2, <5>3
      <4>3. 0 \in seq' => old \cap c = {}
        <5>1. old \cap c \subseteq view \cap box /\ old \cap c \subseteq x \cap c
          BY <2>5, <3>1, <3>2
        <5> QED
          BY <2>5, <2>9, <2>10, <5>1
      <4>4. pending' = "search"
        BY <2>1, <3>6
      <4> QED
        BY <2>1, <2>6, <2>10, <2>11, <2>12, <3>1, <3>4, <4>1, <4>2, <4>3, <4>4
           DEF AppendInv, NothingNew, LastIsNew, Waits
    <3> QED
      BY <3>5, <3>6
  <2> QED
    BY <2>13, <2>14
<1> QED
  BY <1>1, <1>2

LEMMA SearchStep ==
    ASSUME AppendInv, search
    PROVE  AppendInv'
<1>1. CASE Fails("search")
  BY <1>1, FailsStep
<1>2. CASE ~Fails("search")
  <2>1. PICK n \in seq :
           /\ pending = "search"
           /\ IF n = 0 THEN pending' = "panic" /\ UNCHANGED result
              ELSE pending' = "ok" /\ result' = IF n \in 1..Cardinality(view) THEN n ELSE 0
           /\ UNCHANGED <<ext_uidplus_supported, box, uidnext, view, old, mine, theirs, seq>>
    BY <1>2 DEF search, number, boxVars
  <2>2. AppendTypeOK /\ Ascending /\ Origin /\ LastIsNew /\ n \in Nat /\ result = 0
    BY <2>1 DEF AppendInv, AppendTypeOK, Origin
  <2>3. Cardinality(view) \in Nat
    BY <2>2, UidsAreFinite DEF AppendTypeOK
  <2>4. AppendTypeOK' /\ Ascending'
    BY <2>1, <2>2, <2>3 DEF AppendTypeOK, Ascending
  <2>5. Selected' => Selected
    BY <2>1 DEF Selected, Told
  <2>6. Origin'
    BY <2>1, <2>2, <2>5 DEF Origin
  <2>7. NothingNew'
    BY <2>1 DEF NothingNew, Waits
  <2>8. LastIsNew'
    <3>1. CASE Selected'
      <4>1. /\ \E k \in seq : seq = {k} /\ Cardinality(view) <= k
            /\ old \cup theirs \subseteq box => view \ old # {}
            /\ 0 \in seq => old \cap box = {}
        BY <2>1, <2>2, <2>5, <3>1 DEF LastIsNew, Told
      <4>2. Cardinality(view) <= n
        BY <4>1
      <4>3. result' \in {0, Cardinality(view)}
        BY <2>1, <2>2, <2>3, <4>2
      <4>4. pending' = "panic" => 0 \in seq
        BY <2>1
      <4> QED
        BY <2>1, <4>1, <4>3, <4>4 DEF LastIsNew
    <3> QED
      BY <3>1 DEF LastIsNew
  <2> QED
    BY <2>4, <2>6, <2>7, <2>8 DEF AppendInv
<1> QED
  BY <1>1, <1>2

LEMMA AppenduidStep ==
    ASSUME AppendInv, appenduid
    PROVE  AppendInv'
<1>1. CASE Fails("appenduid")
  BY <1>1, FailsStep
<1>2. CASE ~Fails("appenduid")
  <2>1. /\ pending = "appenduid" /\ pending' = "ok" /\ result' \in {0, uidnext}
        /\ uidnext <= MaxUid /\ box' = box \cup {uidnext} /\ mine' = uidnext
        /\ uidnext' = uidnext + 1
        /\ UNCHANGED <<ext_uidplus_supported, view, old, theirs, seq>>
    BY <1>2 DEF appenduid, Appended
  <2>2. AppendTypeOK /\ Ascending /\ ext_uidplus_supported /\ MaxUid \in Nat
    BY <2>1, MailboxAssumption DEF AppendInv, Origin
  <2>3. uidnext \in 1..MaxUid /\ uidnext \in Nat
    BY <2>1, <2>2 DEF AppendTypeOK
  <2>4. AppendTypeOK'
    BY <2>1, <2>2, <2>3 DEF AppendTypeOK
  <2>5. Ascending'
    <3>1. \A m \in view \cup box \cup old \cup theirs : m \in Nat /\ m < uidnext
      BY <2>2 DEF Ascending, AppendTypeOK
    <3> QED
      BY <2>1, <2>3, <3>1 DEF Ascending
  <2> QED
    BY <2>1, <2>2, <2>4, <2>5
       DEF AppendInv, Origin, NothingNew, LastIsNew, Selected
<1> QED
  BY <1>1, <1>2

\* What others deliver is new, and the session does not see it yet.
LEMMA OtherDeliversStep ==
    ASSUME AppendInv, OtherDelivers
    PROVE  AppendInv'
<1>1. /\ uidnext < MaxUid /\ box' = box \cup {uidnext} /\ uidnext' = uidnext + 1
      /\ theirs' = theirs \cup {uidnext}
      /\ UNCHANGED <<ext_uidplus_supported, view, old, mine, pending, seq, result>>
  BY DEF OtherDelivers
<1>2. AppendTypeOK /\ Ascending /\ Origin /\ NothingNew /\ LastIsNew /\ MaxUid \in Nat
  BY MailboxAssumption DEF AppendInv
<1>3. uidnext \in 1..MaxUid /\ uidnext \in Nat /\ uidnext # 0
  BY <1>1, <1>2 DEF AppendTypeOK
<1>4. \A m \in view \cup box \cup old \cup theirs \cup {mine} : m \in Nat /\ m < uidnext
  BY <1>2 DEF Ascending, AppendTypeOK
<1>5. AppendTypeOK'
  BY <1>1, <1>2, <1>3 DEF AppendTypeOK
<1>6. Ascending'
  BY <1>1, <1>3, <1>4 DEF Ascending
<1>7. uidnext \notin old /\ \A k \in old : k < uidnext
  BY <1>3, <1>4
<1>8. Selected' <=> Selected
  BY <1>1 DEF Selected
<1>9. Origin'
  BY <1>1, <1>2, <1>3, <1>7, <1>8 DEF Origin
<1>10. NothingNew'
  BY <1>1, <1>2, <1>8 DEF NothingNew
<1>11. LastIsNew'
  <2>1. old' \cup theirs' \subseteq box' => old \cup theirs \subseteq box
    BY <1>1, <1>3, <1>4
  <2>2. old' \cap box' = old \cap box
    BY <1>1, <1>7
  <2> QED
    BY <1>1, <1>2, <1>8, <2>1, <2>2 DEF LastIsNew
<1> QED
  BY <1>5, <1>6, <1>9, <1>10, <1>11 DEF AppendInv

LEMMA OtherExpungesStep ==
    ASSUME AppendInv, NEW m \in box, OtherExpunges(m)
    PROVE  AppendInv'
<1>1. /\ box' = box \ {m}
      /\ UNCHANGED <<ext_uidplus_supported, uidnext, view, old, mine, theirs, pending, seq,
                     result>>
  BY DEF OtherExpunges
<1>2. AppendTypeOK' /\ Ascending'
  BY <1>1 DEF AppendInv, AppendTypeOK, Ascending
<1>3. Selected' <=> Selected
  BY <1>1 DEF Selected
<1>4. Origin' /\ NothingNew' /\ LastIsNew'
  BY <1>1, <1>3 DEF AppendInv, Origin, NothingNew, LastIsNew
<1> QED
  BY <1>2, <1>4 DEF AppendInv

LEMMA AppendInvariance == Spec => []AppendInv
<1>1. AppendInv /\ [Next]_vars => AppendInv'
  <2> SUFFICES ASSUME AppendInv, [Next]_vars PROVE AppendInv'
    OBVIOUS
  <2>1. post_append_noop => AppendInv'
    BY PostAppendStep DEF post_append_noop, Waits
  <2>2. post_append_check => AppendInv'
    BY PostAppendStep DEF post_append_check, Waits
  <2>3. UNCHANGED vars => AppendInv'
    BY DEF vars, AppendInv, AppendTypeOK, Ascending, Origin, NothingNew, LastIsNew, Selected
  <2> QED
    BY <2>1, <2>2, <2>3, SelectStep, AppendStep, SearchStep, AppenduidStep,
       OtherDeliversStep, OtherExpungesStep DEF Next
<1> QED
  BY InitAppend, <1>1, PTL DEF Spec

-----------------------------------------------------------------------------
(* Theorems *)

\* Of appenduid_or_fallback: it finds the appended message, whichever command
\* brought EXISTS, if nobody else delivered and nothing was expunged.
THEOREM FoundIsMineHolds == Spec => []FoundIsMine
<1>1. AppendInv => FoundIsMine
  <2> SUFFICES ASSUME AppendInv, Found, theirs \subseteq old, old \cup {mine} \subseteq box
               PROVE  mine \in view /\ Number(mine) = result
    BY DEF FoundIsMine
  <2>1. Selected /\ pending \in Told /\ result # 0
    BY DEF Found, Selected, Told
  <2>2. /\ view \subseteq old \cup {mine} /\ view \ old # {} /\ result = Cardinality(view)
        /\ \A m \in view \ old, k \in old : k < m
    BY <2>1 DEF AppendInv, Origin, LastIsNew
  <2>3. mine \in view /\ mine \notin old /\ mine \in Nat
    <3>1. mine \notin old /\ mine \in 0..MaxUid
      BY <2>1 DEF AppendInv, Origin, AppendTypeOK
    <3> QED
      BY <2>2, <3>1, MailboxAssumption
  <2>4. \A k \in view : k <= mine
    <3>1. \A k \in view : k \in Nat /\ (k = mine \/ k < mine)
      BY <2>2, <2>3 DEF AppendInv, AppendTypeOK
    <3> QED
      BY <2>3, <3>1
  <2> QED
    BY <2>2, <2>3, <2>4, LastNumber
<1> QED
  BY AppendInvariance, <1>1, PTL

\* Of appenduid_or_fallback: whatever others deliver, it never finds a message
\* that was there before, while nothing is expunged.
THEOREM FoundIsNewHolds == Spec => []FoundIsNew
<1>1. AppendInv => FoundIsNew
  <2> SUFFICES ASSUME AppendInv, Found, old \cup theirs \subseteq box
               PROVE  \E m \in view \ old : Number(m) = result
    BY DEF FoundIsNew
  <2>1. Selected /\ pending \in Told /\ result # 0
    BY DEF Found, Selected, Told
  <2>2. /\ result = Cardinality(view) /\ view \in SUBSET (1..MaxUid)
        /\ \A m \in view \ old, k \in old : k < m
    BY <2>1 DEF AppendInv, Origin, LastIsNew, AppendTypeOK
  <2>3. PICK n \in view : n \notin old
    BY <2>1 DEF AppendInv, LastIsNew
  <2>4. PICK m \in view : \A k \in view : k <= m
    BY <2>2, <2>3, LastMessage
  <2>5. m \notin old
    <3>1. m \in Nat /\ n \in Nat /\ n <= m /\ (m \in old => m < n)
      BY <2>2, <2>3, <2>4
    <3> QED
      BY <3>1
  <2>6. Number(m) = Cardinality(view)
    BY <2>4, LastNumber
  <2> QED
    BY <2>2, <2>5, <2>6
<1> QED
  BY AppendInvariance, <1>1, PTL

\* Of `seq.try_into().unwrap()`: it panics only if all that was there before the
\* call is gone.
THEOREM PanicsOnlyIfEmptiedHolds == Spec => []PanicsOnlyIfEmptied
<1>1. AppendInv => PanicsOnlyIfEmptied
  BY DEF AppendInv, LastIsNew, Origin, Selected, Told, PanicsOnlyIfEmptied
<1> QED
  BY AppendInvariance, <1>1, PTL

\* Of the last ok_or: the call gives up only if the server told of nothing new.
THEOREM MissingOnlyIfUntoldHolds == Spec => []MissingOnlyIfUntold
<1>1. AppendInv => MissingOnlyIfUntold
  BY DEF AppendInv, NothingNew, Origin, Selected, Waits, MissingOnlyIfUntold
<1> QED
  BY AppendInvariance, <1>1, PTL
=============================================================================
