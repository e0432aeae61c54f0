---------------------------- MODULE MoveProofs ----------------------------
(***************************************************************************)
(* Proof, for any mailbox, any sequence sets and any number of calls, of   *)
(* what the fallback for MOVE promises: it loses no message, Ok means      *)
(* moved, and nothing moves that nobody asked for; but for messages that a *)
(* sequence set stood for only before or only after its COPY, and of those *)
(* there are none for a careful program.                                   *)
(***************************************************************************)
EXTENDS MoveFallback, FiniteSetTheorems, TLAPS

\* There is a copy of m, or one of the excuses for there being none.
Safe(m) == m \in copied \/ m \in foreign \/ m \in shifted

MoveTypes ==
    /\ arrived \subseteq 1..MaxUid
    /\ present \subseteq arrived /\ view \subseteq arrived
    /\ flagged \subseteq present /\ expunged \subseteq arrived /\ expunged \cap present = {}
    /\ wanted \subseteq arrived /\ wanted \subseteq asked

\* This session is told of messages in the order they come in.
ToldInOrder == \A m \in present \ view, k \in view : k < m

\* Why nothing is lost: what left the mailbox or is flagged to leave it has a copy,
\* and so has, once COPY succeeded, all that STORE is going to flag.
NothingIsAtRisk ==
    /\ \A m \in arrived : m \notin present \/ m \in flagged \/ m \in expunged => Safe(m)
    /\ pending = "store" => \A m \in Named : m \in copied \/ m \in shifted

\* Why nothing else moves: a call names only what was asked for.
NothingElseIsNamed ==
    /\ copied \subseteq asked
    /\ \A m \in flagged \cup expunged : m \in asked \/ m \in foreign \/ m \in shifted
    /\ pending \in {"move", "copy"} => Named \subseteq asked
    /\ pending = "store" => Named \subseteq asked \cup shifted

\* Why Ok means moved: what is wanted and still there is named, then flagged, then
\* gone; and it was copied on the way.
WantedGoesOn ==
    /\ pending \in {"move", "copy"} => wanted \cap present \subseteq Named
    /\ pending = "store" => wanted \cap present \subseteq Named \cup shifted
    /\ pending = "expunge" => wanted \cap present \subseteq flagged \cup unflagged \cup shifted
    /\ pending = "ok" => wanted \cap present \subseteq unflagged \cup shifted
    /\ pending \in {"store", "expunge", "ok"} =>
         wanted \cap present \subseteq copied \cup shifted

\* Why nothing shifts for a careful program: its sequence sets have no room for a
\* message that this session has not seen, and keep their meaning.
CareHelps ==
    careful =>
      /\ shifted = {} /\ star = 0
      /\ pending \in {"move", "copy", "store"} =>
           IF uid THEN numbers \subseteq arrived /\ numbers \cap present \subseteq view
           ELSE ~ReportsInCopy /\ numbers \subseteq 1..Cardinality(view)

IInv == /\ MoveTypes /\ ToldInOrder /\ NothingIsAtRisk /\ NothingElseIsNamed
        /\ WantedGoesOn /\ CareHelps

-----------------------------------------------------------------------------

\* At the start nothing has happened yet.
LEMMA InitIInv == Init => IInv
BY MessagesAssumption DEF Init, IInv, MoveTypes, ToldInOrder, NothingIsAtRisk,
                          NothingElseIsNamed, WantedGoesOn, CareHelps

\* A call names what it wants and what is still there of it.
LEMMA CallStep == IInv /\ Call => IInv'
<1> SUFFICES ASSUME IInv, Call PROVE IInv'
  OBVIOUS
<1>1. /\ UNCHANGED <<present, view, flagged, copied, arrived, foreign, expunged, shifted>>
      /\ wanted' = Meant(view)' /\ asked' = asked \cup wanted'
      /\ pending' \in {"move", "copy"}
  BY DEF Call
<1>2. Meant(view)' \subseteq view
  BY <1>1 DEF Meant
<1>3. Named' = wanted' \cap present
  BY <1>1 DEF Named, NamedIn
<1>4. MoveTypes' /\ ToldInOrder'
  BY <1>1, <1>2 DEF IInv, MoveTypes, ToldInOrder
<1>5. NothingIsAtRisk'
  BY <1>1 DEF IInv, NothingIsAtRisk, Safe
<1>6. NothingElseIsNamed'
  BY <1>1, <1>3 DEF IInv, NothingElseIsNamed
<1>7. WantedGoesOn'
  BY <1>1, <1>3 DEF WantedGoesOn
<1>8. CareHelps'
  <2> SUFFICES ASSUME careful' PROVE CareHelps'
    BY DEF CareHelps
  <2>1. /\ careful /\ star' = 0 /\ (uid' \/ ~ReportsInCopy)
        /\ numbers' \subseteq (IF uid' THEN view ELSE 1..Cardinality(view))
    BY DEF Call
  <2> QED
    BY <1>1, <2>1 DEF IInv, MoveTypes, CareHelps
<1> QED
  BY <1>4, <1>5, <1>6, <1>7, <1>8 DEF IInv

\* The call ends without an effect.
LEMMA EndStep ==
    ASSUME IInv, UNCHANGED <<boxVars, setVars, wanted, asked>>,
           pending' \in {"error", "dropped"}
    PROVE  IInv'
BY DEF IInv, boxVars, setVars, MoveTypes, ToldInOrder, NothingIsAtRisk, NothingElseIsNamed,
       WantedGoesOn, CareHelps, Safe

\* A report of expunged messages takes only these from the view.
LEMMA ReportKeeps ==
    ASSUME IInv, NEW allowed, Report(allowed), present' = present, arrived' = arrived
    PROVE  /\ view' \subseteq view /\ view \cap present = view' \cap present
           /\ view' \subseteq arrived' /\ ToldInOrder'
BY DEF IInv, MoveTypes, ToldInOrder, Report

\* COPY succeeds: what STORE will name has been copied, or was shifted just now.
LEMMA CopyStep ==
    ASSUME IInv, pending = "copy", CopyNamed, pending' \in {"store", "dropped"},
           UNCHANGED <<setVars, wanted, asked>>
    PROVE  IInv'
<1>1. /\ copied' = copied \cup Named
      /\ shifted' = shifted \cup (Named \ NamedIn(view')) \cup (NamedIn(view') \ Named)
      /\ UNCHANGED <<present, flagged, arrived, foreign, unflagged, expunged>>
      /\ UNCHANGED <<uid, numbers, star, careful>>
  BY DEF CopyNamed, Shift, setVars
<1>2. Named' = NamedIn(view')
  BY <1>1 DEF Named, NamedIn, Meant, Id
<1>3. Named' \subseteq Named \cup shifted' /\ Named \subseteq Named' \cup shifted'
  BY <1>1, <1>2
<1>4. shifted \subseteq shifted' /\ Named \subseteq arrived
  BY <1>1 DEF Named, NamedIn, IInv, MoveTypes
<1>5. /\ view' \subseteq view /\ view \cap present = view' \cap present
      /\ view' \subseteq arrived' /\ ToldInOrder'
  BY <1>1, ReportKeeps DEF CopyNamed
<1>6. MoveTypes'
  BY <1>1, <1>5 DEF IInv, MoveTypes
<1>7. NothingIsAtRisk'
  BY <1>1, <1>3, <1>4 DEF IInv, NothingIsAtRisk, Safe
<1>8. NothingElseIsNamed'
  BY <1>1, <1>3, <1>4 DEF IInv, NothingElseIsNamed
<1>9. WantedGoesOn'
  BY <1>1, <1>3, <1>4 DEF IInv, WantedGoesOn
<1>10. CareHelps'
  <2> SUFFICES ASSUME careful PROVE CareHelps'
    BY <1>1 DEF CareHelps
  <2>1. CASE uid
    <3>1. NamedIn(view') = Named
      BY <1>5, <2>1 DEF IInv, CareHelps, Named, NamedIn, Meant, Id
    <3> QED
      BY <1>1, <1>5, <2>1, <3>1 DEF IInv, CareHelps
  <2>2. CASE ~uid
    <3>1. view' = view
      BY <2>2 DEF IInv, CareHelps, CopyNamed, Report
    <3> QED
      BY <1>1, <2>2, <3>1 DEF IInv, CareHelps, Named
  <2> QED
    BY <2>1, <2>2
<1> QED
  BY <1>5, <1>6, <1>7, <1>8, <1>9, <1>10 DEF IInv

\* STORE, complete or not, flags only what has been copied.
LEMMA StoreStep ==
    ASSUME IInv, pending = "store", NEW S \in SUBSET Named, StoreDeleted(S),
           pending' \in {"dropped", "error"} \/ (pending' = "expunge" /\ S = Named),
           UNCHANGED <<setVars, wanted, asked>>
    PROVE  IInv'
<1>1. /\ flagged' = flagged \cup S
      /\ UNCHANGED <<present, arrived, foreign, unflagged, copied, expunged, shifted>>
      /\ UNCHANGED <<star, careful>>
  BY DEF StoreDeleted, setVars
<1>2. Named \subseteq present
  BY DEF Named, NamedIn
<1>3. MoveTypes' /\ ToldInOrder'
  BY <1>1, <1>2, ReportKeeps DEF StoreDeleted, IInv, MoveTypes
<1>4. NothingIsAtRisk'
  BY <1>1 DEF IInv, NothingIsAtRisk, Safe
<1>5. NothingElseIsNamed'
  BY <1>1 DEF IInv, NothingElseIsNamed
<1>6. WantedGoesOn'
  BY <1>1 DEF IInv, WantedGoesOn, Safe
<1>7. CareHelps'
  BY <1>1 DEF IInv, CareHelps
<1> QED
  BY <1>3, <1>4, <1>5, <1>6, <1>7 DEF IInv

\* EXPUNGE removes what is flagged: it has been copied, or is another's.
LEMMA ExpungeStep ==
    ASSUME IInv, pending = "expunge", ExpungeFlagged, pending' \in {"ok", "dropped"},
           UNCHANGED <<setVars, wanted, asked>>
    PROVE  IInv'
<1>1. /\ expunged' = expunged \cup flagged
      /\ present' = present \ flagged /\ flagged' = {} /\ view' = view \cap present'
      /\ UNCHANGED <<arrived, foreign, unflagged, copied, shifted>>
      /\ UNCHANGED <<star, careful>>
  BY DEF ExpungeFlagged, setVars
<1>2. MoveTypes' /\ ToldInOrder'
  BY <1>1 DEF IInv, MoveTypes, ToldInOrder
<1> QED
  BY <1>1, <1>2 DEF IInv, MoveTypes, NothingIsAtRisk, NothingElseIsNamed, WantedGoesOn,
                    CareHelps, Safe

\* MOVE copies what it removes.
LEMMA MoveStep ==
    ASSUME IInv, pending = "move", MoveNamed, pending' \in {"ok", "dropped"},
           UNCHANGED <<setVars, wanted, asked>>
    PROVE  IInv'
<1>1. /\ copied' = copied \cup Named /\ expunged' = expunged \cup Named
      /\ present' = present \ Named /\ flagged' = flagged \ Named
      /\ view' = view \cap present'
      /\ UNCHANGED <<arrived, foreign, unflagged, shifted>>
      /\ UNCHANGED <<star, careful>>
  BY DEF MoveNamed, setVars
<1>2. Named \subseteq asked /\ Named \subseteq present /\ wanted \cap present \subseteq Named
  BY DEF IInv, NothingElseIsNamed, WantedGoesOn, Named, NamedIn
<1>3. MoveTypes' /\ ToldInOrder'
  BY <1>1, <1>2 DEF IInv, MoveTypes, ToldInOrder
<1>4. NothingIsAtRisk'
  BY <1>1 DEF IInv, NothingIsAtRisk, Safe
<1>5. NothingElseIsNamed'
  BY <1>1, <1>2 DEF IInv, NothingElseIsNamed
<1>6. WantedGoesOn'
  BY <1>1, <1>2 DEF IInv, MoveTypes, NothingIsAtRisk, WantedGoesOn, Safe
<1>7. CareHelps'
  BY <1>1 DEF IInv, CareHelps
<1> QED
  BY <1>3, <1>4, <1>5, <1>6, <1>7 DEF IInv

-----------------------------------------------------------------------------
(* Other sessions *)

\* Another session flags, unflags or expunges: what this one is about to copy or flag
\* can only get less, and what leaves the flagged messages unmoved is accounted for.
LEMMA OtherStep ==
    ASSUME IInv, UNCHANGED <<view, copied, arrived, expunged, shifted>>,
           UNCHANGED <<setVars, pending, wanted, asked>>,
           present' \subseteq present, present \ present' \subseteq flagged,
           flagged' \subseteq present',
           foreign \ foreign' \subseteq present' \ flagged', unflagged \subseteq unflagged',
           \A m \in flagged' : m \in flagged \/ m \in foreign',
           \A m \in (flagged \ flagged') \cap present' : m \in unflagged'
    PROVE  IInv'
<1>1. Named' = Named \cap present'
  BY DEF setVars, Named, NamedIn, Meant, Id
<1>2. MoveTypes' /\ ToldInOrder'
  BY DEF IInv, MoveTypes, ToldInOrder
<1>3. NothingIsAtRisk'
  BY <1>1 DEF IInv, MoveTypes, NothingIsAtRisk, Safe
<1>4. NothingElseIsNamed'
  BY <1>1 DEF IInv, MoveTypes, NothingElseIsNamed
<1>5. WantedGoesOn'
  BY <1>1 DEF IInv, WantedGoesOn
<1>6. CareHelps'
  BY DEF IInv, CareHelps, setVars
<1> QED
  BY <1>2, <1>3, <1>4, <1>5, <1>6 DEF IInv

\* Another session delivers a message: this one does not number it yet.
LEMMA DeliverStep ==
    ASSUME IInv, NEW m \in 1..MaxUid, OtherDelivers(m),
           UNCHANGED <<setVars, pending, wanted, asked>>
    PROVE  IInv'
<1>1. /\ m \notin arrived /\ \A k \in view : k < m
      /\ present' = present \cup {m} /\ arrived' = arrived \cup {m}
      /\ UNCHANGED <<view, flagged, copied, foreign, unflagged, expunged, shifted>>
  BY DEF OtherDelivers, IInv, MoveTypes
<1>2. Named' = Named
  BY <1>1 DEF setVars, Named, NamedIn, Meant, Id, IInv, MoveTypes
<1>3. MoveTypes' /\ ToldInOrder'
  BY <1>1 DEF IInv, MoveTypes, ToldInOrder
<1>4. NothingIsAtRisk'
  BY <1>1, <1>2 DEF IInv, MoveTypes, NothingIsAtRisk, Safe
<1>5. NothingElseIsNamed'
  BY <1>1, <1>2 DEF IInv, NothingElseIsNamed
<1>6. WantedGoesOn'
  BY <1>1, <1>2 DEF IInv, MoveTypes, WantedGoesOn
<1>7. CareHelps'
  BY <1>1 DEF IInv, CareHelps, setVars
<1> QED
  BY <1>3, <1>4, <1>5, <1>6, <1>7 DEF IInv

\* A message that comes after all the others gets the next number, and leaves theirs
\* alone.
LEMMA NextNumber ==
    ASSUME NEW v \in SUBSET (1..MaxUid), NEW m \in 1..MaxUid, \A k \in v : k < m
    PROVE  /\ Cardinality(v) \in Nat
           /\ Number(v \cup {m}, m) = Cardinality(v) + 1
           /\ Cardinality(v \cup {m}) = Cardinality(v) + 1
           /\ \A k \in v : Number(v \cup {m}, k) = Number(v, k)
<1>0. \A k \in v \cup {m} : k \in Int /\ k <= m
  BY MessagesAssumption
<1>1. IsFiniteSet(v) /\ m \notin v
  <2>1. IsFiniteSet(1..MaxUid)
    BY FS_Interval, MessagesAssumption
  <2>2. m \notin v
    BY <1>0
  <2> QED
    BY <2>1, <2>2, FS_Subset
<1>2. Cardinality(v) \in Nat /\ Cardinality(v \cup {m}) = Cardinality(v) + 1
  BY <1>1, FS_AddElement, FS_CardinalityType
<1>3. {k \in v \cup {m} : k <= m} = v \cup {m}
  BY <1>0
<1>4. \A k \in v : {j \in v \cup {m} : j <= k} = {j \in v : j <= k}
  BY MessagesAssumption
<1> QED
  BY <1>2, <1>3, <1>4 DEF Number

\* So the sequence set of a careful program has no room for it.
LEMMA CarefulIsUnmoved ==
    ASSUME IInv, careful, pending \in {"move", "copy", "store"},
           NEW m \in present \ view
    PROVE  NamedIn(view \cup {m}) = Named
<1>1. star = 0 /\ m \in 1..MaxUid /\ view \in SUBSET (1..MaxUid) /\ \A k \in view : k < m
  BY DEF IInv, MoveTypes, ToldInOrder, CareHelps
<1>2. CASE uid
  BY <1>1, <1>2 DEF IInv, CareHelps, Named, NamedIn, Meant, Id
<1>3. CASE ~uid
  <2>1. numbers \subseteq 1..Cardinality(view)
    BY <1>3 DEF IInv, CareHelps
  <2>2. Id(view \cup {m}, m) \notin numbers
    BY <1>1, <1>3, <2>1, NextNumber DEF Id
  <2>3. \A k \in view : Id(view \cup {m}, k) = Id(view, k)
    BY <1>1, <1>3, NextNumber DEF Id
  <2> QED
    BY <1>1, <2>2, <2>3 DEF Named, NamedIn, Meant
<1> QED
  BY <1>2, <1>3

\* This session is told of a message: a call that has not been executed is for what
\* its set stands for now, one between COPY and STORE accounts for the difference.
LEMMA ExistsStep ==
    ASSUME IInv, NEW m \in 1..MaxUid, Exists(m)
    PROVE  IInv'
<1>1. /\ m \in present \ view /\ view' = view \cup {m}
      /\ \A k \in present \ view : m <= k
      /\ UNCHANGED <<present, flagged, copied, arrived, foreign, unflagged, expunged>>
      /\ UNCHANGED <<uid, numbers, star, careful, pending>>
  BY DEF Exists, setVars
<1>2. Named' = NamedIn(view') /\ Named' \subseteq present /\ Meant(view') \subseteq view'
  BY <1>1 DEF Named, NamedIn, Meant, Id
<1>3. IF pending = "store"
      THEN shifted' = shifted \cup (Named \ NamedIn(view')) \cup (NamedIn(view') \ Named)
      ELSE shifted' = shifted
  BY DEF Exists, Shift
<1>4. IF pending \in {"move", "copy"}
      THEN wanted' = (wanted \ Meant(view)) \cup Meant(view') /\ asked' = asked \cup wanted'
      ELSE UNCHANGED <<wanted, asked>>
  BY DEF Exists
<1>5. shifted \subseteq shifted' /\ asked \subseteq asked'
  BY <1>3, <1>4
<1>6. MoveTypes' /\ ToldInOrder'
  <2>1. MoveTypes'
    BY <1>1, <1>2, <1>4 DEF IInv, MoveTypes
  <2>2. ToldInOrder'
    BY <1>1, MessagesAssumption DEF IInv, MoveTypes, ToldInOrder
  <2> QED
    BY <2>1, <2>2
<1>7. NothingIsAtRisk'
  BY <1>1, <1>2, <1>3, <1>5 DEF IInv, NothingIsAtRisk, Safe
<1>8. NothingElseIsNamed'
  BY <1>1, <1>2, <1>3, <1>4, <1>5 DEF IInv, NothingElseIsNamed, NamedIn
<1>9. WantedGoesOn'
  BY <1>1, <1>2, <1>3, <1>4, <1>5 DEF IInv, WantedGoesOn, Named, NamedIn
<1>10. CareHelps'
  <2> SUFFICES ASSUME careful PROVE CareHelps'
    BY <1>1 DEF CareHelps
  <2>1. shifted' = {}
    BY <1>1, <1>3, CarefulIsUnmoved DEF IInv, CareHelps
  <2>2. Cardinality(view') = Cardinality(view) + 1 /\ Cardinality(view) \in Nat
    BY <1>1, NextNumber DEF IInv, MoveTypes, ToldInOrder
  <2> QED
    BY <1>1, <2>1, <2>2 DEF IInv, CareHelps
<1> QED
  BY <1>6, <1>7, <1>8, <1>9, <1>10 DEF IInv

-----------------------------------------------------------------------------

\* The invariant is inductive.
LEMMA NextIInv == IInv /\ [Next]_vars => IInv'
<1> SUFFICES ASSUME IInv, [Next]_vars PROVE IInv'
  OBVIOUS
<1>1. CASE Call
  BY <1>1, CallStep
<1>2. CASE _move
  BY <1>2, MoveStep, EndStep DEF _move, Resolve
<1>3. CASE _copy
  BY <1>3, CopyStep, EndStep DEF _copy, Resolve
<1>4. CASE _silent_store
  <2>1. CASE /\ pending = "store" /\ UNCHANGED <<setVars, wanted, asked>>
             /\ pending' \in {"expunge", "dropped"} /\ StoreDeleted(Named)
    BY <2>1, StoreStep
  <2>2. CASE /\ pending = "store" /\ UNCHANGED <<setVars, wanted, asked>>
             /\ pending' = "error" /\ \E S \in SUBSET Named : StoreDeleted(S)
    BY <2>2, StoreStep
  <2>3. CASE UNCHANGED <<boxVars, setVars, wanted, asked>> /\ pending' \in {"error", "dropped"}
    BY <2>3, EndStep
  <2> QED
    BY <1>4, <2>1, <2>2, <2>3 DEF _silent_store, Resolve
<1>5. CASE expunge
  BY <1>5, ExpungeStep, EndStep DEF expunge, Resolve
<1>6. CASE Other
  <2>1. UNCHANGED <<setVars, pending, wanted, asked>>
    BY <1>6 DEF Other
  <2>2. ASSUME NEW m \in 1..MaxUid, OtherFlags(m) PROVE IInv'
    BY <2>1, <2>2, OtherStep DEF OtherFlags, IInv, MoveTypes
  <2>3. ASSUME NEW m \in 1..MaxUid, OtherUnflags(m) PROVE IInv'
    BY <2>1, <2>3, OtherStep DEF OtherUnflags, IInv, MoveTypes
  <2>4. ASSUME NEW m \in 1..MaxUid, OtherDelivers(m) PROVE IInv'
    BY <2>1, <2>4, DeliverStep
  <2>5. CASE OtherExpunges
    BY <2>1, <2>5, OtherStep DEF OtherExpunges
  <2> QED
    BY <1>6, <2>2, <2>3, <2>4, <2>5 DEF Other
<1>7. ASSUME NEW m \in 1..MaxUid, Exists(m) PROVE IInv'
  BY <1>7, ExistsStep
<1>8. CASE UNCHANGED vars
  BY <1>8 DEF vars, IInv, MoveTypes, ToldInOrder, NothingIsAtRisk, NothingElseIsNamed,
              WantedGoesOn, CareHelps, Safe, Named, NamedIn, Meant, Id
<1> QED
  BY <1>1, <1>2, <1>3, <1>4, <1>5, <1>6, <1>7, <1>8 DEF Next

\* The invariant always holds.
LEMMA AlwaysIInv == Spec => []IInv
BY InitIInv, NextIInv, PTL DEF Spec

\* move_or_fallback loses no message of a careful program, over failures at any of
\* its commands, dropped and repeated calls and whatever other sessions deliver, flag
\* and expunge in between: of each message it expunged there is a copy, unless another
\* session flagged it.  Of any program it loses only what a sequence set stood for
\* only before or only after its COPY.
THEOREM MoveLosesNothing == Spec => []NothingLost
<1>1. IInv => NothingLost
  BY DEF IInv, MoveTypes, NothingIsAtRisk, CareHelps, Safe, NothingLost
<1> QED
  BY AlwaysIInv, <1>1, PTL

\* When move_or_fallback returns Ok, what was asked for has left the mailbox and is
\* in the target, unless another session interfered with it (with the same exception).
THEOREM MoveOkMeansMoved == Spec => []OkMeansMoved
<1>1. IInv => OkMeansMoved
  BY DEF IInv, MoveTypes, NothingIsAtRisk, WantedGoesOn, CareHelps, Safe, OkMeansMoved
<1> QED
  BY AlwaysIInv, <1>1, PTL

\* move_or_fallback copies nothing that was never asked for, and removes nothing
\* else either, but for what other sessions flagged (with the same exception).
THEOREM MoveOnlyWhatWasAsked == Spec => []OnlyWhatWasAsked
<1>1. IInv => OnlyWhatWasAsked
  BY DEF IInv, NothingElseIsNamed, CareHelps, OnlyWhatWasAsked
<1> QED
  BY AlwaysIInv, <1>1, PTL
=============================================================================
