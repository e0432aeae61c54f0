----------------------------- MODULE SortProofs -----------------------------
(***************************************************************************)
(* Proofs, for any mailbox, criteria, chunk length and server, of what     *)
(* fetch, fetch_first and sort_or_fallback return.                         *)
(***************************************************************************)
EXTENDS SortFallback, FiniteSetTheorems, TLAPS

-----------------------------------------------------------------------------
(* The invariant *)

\* The ids there may be, and the items of the call.
Known == IF uid THEN All ELSE DOMAIN view
Items == IF op = "sort" THEN FetchItems ELSE Asked

\* No message has two numbers, no id is asked for twice.
Once(s) == \A i, j \in DOMAIN s : s[i] = s[j] => i = j

Base ==
    /\ present \subseteq All /\ view \in Seq(All) /\ Once(view)
    /\ uid \in BOOLEAN /\ renumbered \in BOOLEAN /\ (renumbered => uid)
    /\ ids \in Seq(Known) /\ Once(ids)
    /\ round \in Nat /\ volunteered \in [All -> Nat]
    /\ \A m \in All : volunteered[m] <= round
    /\ attr \in Attributes /\ (ext_sort_supported => criteria = <<>>)
    /\ criteria \in Criteria \cup {<<>>}

\* Which calls are at which command, and what they have by then.
Stages ==
    \/ /\ pending = "none" /\ op = "none" /\ round = 0
       /\ fetches = Nothing /\ output = Nothing
    \/ /\ pending = "search" /\ op = "sort" /\ round = 0
       /\ fetches = Nothing /\ output = Nothing
    \/ /\ pending = "fetch" /\ op \in {"fetch", "sort"} /\ round > 0
       /\ (op = "fetch" => fetches = Nothing)
       /\ names = Items \cup (IF uid THEN {"uid"} ELSE {})
    \/ pending = "first" /\ op = "fetch_first" /\ round > 0 /\ Len(ids) = 1
    \/ pending \in {"ok", "error"} /\ op # "none"

\* Nothing is sorted before the call returns.
Unsorted == ~(pending = "ok" /\ op = "sort") => sorted = <<>>

\* The messages that the FETCH under way is about.
CurrentAt(i) == op = "sort" => InChunk(i, round)
IsCurrent(m) == \E i \in DOMAIN ids : CurrentAt(i) /\ m = Message(ids[i])

\* An item that was asked for, or volunteered while the FETCH was under way.
IsItem(item) ==
    /\ item = <<item[1], item[2]>> /\ item[2] \in All
    /\ (IsCurrent(item[2]) \/ volunteered[item[2]] = round)

\* What the server has yet to give was asked for; what it gave was asked for or
\* volunteered, and stands under the number of its message until that changes.
Collected ==
    pending \in {"fetch", "first"} =>
      /\ \A item \in todo : /\ item = <<item[1], item[2]>>
                            /\ item[2] \in All /\ IsCurrent(item[2])
      /\ \A seq \in DOMAIN output :
            /\ output[seq] # {}
            /\ \A item \in output[seq] : IsItem(item)
            /\ ~renumbered => /\ seq \in DOMAIN view
                              /\ \A item \in output[seq] : item[2] = view[seq]

\* Nothing that was asked for is lost.
Complete ==
    pending = "fetch" /\ ~renumbered =>
      \A i \in DOMAIN ids, n \in names :
        CurrentAt(i) /\ Message(ids[i]) \in present =>
          \/ <<n, Message(ids[i])>> \in todo
          \/ \E seq \in DOMAIN output : <<n, Message(ids[i])>> \in output[seq]

\* The entry of id is about its message, and was asked for or volunteered.
IsEntry(id, items) ==
    /\ id \in Known
    /\ renumbered \/ \A item \in items : item[2] = Message(id)
    /\ uid => <<"uid", id>> \in items
    /\ id \in Range(ids) \/ volunteered[Message(id)] > 0

Entries ==
    pending = "fetch" \/ (pending = "ok" /\ op # "fetch_first") =>
      \A id \in DOMAIN fetches : IsEntry(id, fetches[id])

\* All that was asked for in the FETCHes that are behind is in the map.
Served(i) == op = "sort" /\ i <= (round - 1) * ChunkLen
HasAll(id, items) == \A n \in Items : <<n, Message(id)>> \in items

Earlier ==
    pending = "fetch" =>
      \A i \in DOMAIN ids :
        Served(i) /\ Undisturbed(ids[i]) => /\ ids[i] \in DOMAIN fetches
                                            /\ HasAll(ids[i], fetches[ids[i]])

\* Once the call returned this is so of all FETCHes, and the result is in order.
Result ==
    /\ pending = "ok" /\ op # "fetch_first" =>
         /\ \A i \in DOMAIN ids : Undisturbed(ids[i]) => /\ ids[i] \in DOMAIN fetches
                                                         /\ HasAll(ids[i], fetches[ids[i]])
         /\ op = "sort" => sorted \in IF ext_sort_supported THEN InIdsOrder(fetches, ids)
                                                            ELSE InSortOrder(fetches, attr, criteria)
    /\ FetchFirstMatches

SortInv == Base /\ Stages /\ Unsorted /\ Collected /\ Complete /\ Entries /\ Earlier /\ Result

-----------------------------------------------------------------------------
(* Numbers, ids and orders *)

LEMMA AllIsFinite == IsFiniteSet(All)
<1>1. Messages \in Surjection(1..Len(Messages), All)
  BY MessagesAssumption DEF Surjection, All, Range
<1>2. IsFiniteSet(1..Len(Messages))
  BY MessagesAssumption, FS_Interval
<1> QED
  BY <1>1, <1>2, FS_Surjection

\* An order of S has all of it, and each once.
LEMMA OrderProperties ==
    ASSUME NEW S, IsFiniteSet(S), NEW s \in Orders(S)
    PROVE  s \in Seq(S) /\ Range(s) = S /\ Once(s)
<1> DEFINE n == Cardinality(S)
<1>1. n \in Nat
  BY FS_CardinalityType
<1>2. s \in [1..n -> S] /\ Range(s) = S
  BY DEF Orders
<1>3. s \in Surjection(1..n, S)
  BY <1>2 DEF Surjection, Range
<1>4. IsFiniteSet(1..n) /\ Cardinality(1..n) = n
  BY <1>1, FS_Interval
<1>5. s \in Injection(1..n, S)
  BY <1>3, <1>4, FS_Surjection
<1>6. Once(s)
  BY <1>2, <1>5 DEF Injection, IsInjective, Once
<1>7. s \in Seq(S)
  BY <1>1, <1>2
<1> QED
  BY <1>2, <1>6, <1>7

LEMMA InOrderProperties ==
    ASSUME NEW S, IsFiniteSet(S), NEW s \in InOrder(S)
    PROVE  s \in Seq(S) /\ Range(s) = S /\ Once(s)
BY OrderProperties DEF InOrder

LEMMA KnownProperties ==
    ASSUME Base
    PROVE  /\ IsFiniteSet(Known) /\ Ids \subseteq Known
           /\ \A id \in Known : Message(id) \in All
           /\ \A id, jd \in Known : Message(id) = Message(jd) => id = jd
<1>1. IsFiniteSet(DOMAIN view) /\ DOMAIN view = 1..Len(view)
  BY FS_Interval DEF Base
<1>2. Range(view) \subseteq All
  BY DEF Base, Range
<1> QED
  BY <1>1, <1>2, AllIsFinite DEF Known, Ids, Message, Base, Once

LEMMA IdsProperties ==
    ASSUME Base
    PROVE  /\ DOMAIN ids = 1..Len(ids) /\ Len(ids) \in Nat
           /\ \A i \in DOMAIN ids : ids[i] \in Known /\ Message(ids[i]) \in All
           /\ \A i, j \in DOMAIN ids : Message(ids[i]) = Message(ids[j]) => i = j
<1>1. ids \in Seq(Known) /\ Once(ids)
  BY DEF Base
<1>2. /\ DOMAIN ids = 1..Len(ids) /\ Len(ids) \in Nat
      /\ \A i \in DOMAIN ids : ids[i] \in Known
  BY <1>1
<1> QED
  BY <1>1, <1>2, KnownProperties DEF Once

LEMMA Numbers == ChunkLen \in Nat /\ ChunkLen > 0
BY SortAssumption

-----------------------------------------------------------------------------
(* The beginning *)

LEMMA InitSort == Init => SortInv
<1> SUFFICES ASSUME Init PROVE SortInv
  OBVIOUS
<1> USE DEF Init, FetchInit
<1>1. view \in Seq(All) /\ Once(view)
  BY MessagesAssumption DEF All, Range, Once
<1>2. attr \in Attributes
  BY SortAssumption
<1>3. ids \in Seq(Known) /\ Once(ids)
  BY DEF Once
<1>4. volunteered \in [All -> Nat] /\ \A m \in All : volunteered[m] <= round
  OBVIOUS
<1>5. Base
  BY <1>1, <1>2, <1>3, <1>4 DEF Base
<1> QED
  BY <1>5 DEF SortInv, Stages, Unsorted, Collected, Complete, Entries, Earlier, Result,
              FetchFirstMatches

-----------------------------------------------------------------------------
(* The responses of a FETCH *)

\* Of what a FETCH is about nothing changes but with ids, calls and rounds; what had
\* no excuse before it was disturbed has none after.
LEMMA SameCall ==
    ASSUME Base, Base', UNCHANGED <<uid, ids, round, op>>, uid \/ UNCHANGED view,
           present' \subseteq present, renumbered => renumbered',
           \A m \in All : volunteered[m] <= volunteered'[m]
    PROVE  /\ Known' = Known
           /\ \A id \in Known : Message(id)' = Message(id)
           /\ \A i \in DOMAIN ids : CurrentAt(i)' <=> CurrentAt(i)
           /\ \A m : IsCurrent(m)' <=> IsCurrent(m)
           /\ \A i : Served(i)' <=> Served(i)
           /\ \A i \in DOMAIN ids : Undisturbed(ids[i])' => Undisturbed(ids[i])
<1>1. Known' = Known /\ \A id \in Known : Message(id)' = Message(id)
  BY DEF Known, Message
<1>2. \A i : (InChunk(i, round)' <=> InChunk(i, round)) /\ (Served(i)' <=> Served(i))
  BY DEF InChunk, Served
<1>3. \A i \in DOMAIN ids : CurrentAt(i)' <=> CurrentAt(i)
  BY <1>2 DEF CurrentAt
<1>4. \A i \in DOMAIN ids : ids[i] \in Known /\ Message(ids[i]) \in All
  BY IdsProperties
<1>5. \A m : IsCurrent(m)' <=> IsCurrent(m)
  BY <1>1, <1>3, <1>4 DEF IsCurrent
<1>6. ASSUME NEW i \in DOMAIN ids, Undisturbed(ids[i])' PROVE Undisturbed(ids[i])
  <2>1. \A k : IsFetchedIn(ids[i], k)' <=> IsFetchedIn(ids[i], k)
    BY DEF IsFetchedIn, InChunk
  <2>2. Message(ids[i])' = Message(ids[i]) /\ Message(ids[i]) \in All
    BY <1>1, <1>4
  <2>3. /\ Message(ids[i]) \in present' /\ ~renumbered'
        /\ \E k \in 1..Len(ids) :
              IsFetchedIn(ids[i], k) /\ volunteered'[Message(ids[i])] <= k
    BY <1>6, <2>1, <2>2 DEF Undisturbed
  <2>4. /\ volunteered[Message(ids[i])] <= volunteered'[Message(ids[i])]
        /\ volunteered[Message(ids[i])] \in Nat /\ volunteered'[Message(ids[i])] \in Nat
    BY <2>2 DEF Base
  <2>5. \E k \in 1..Len(ids) : IsFetchedIn(ids[i], k) /\ volunteered[Message(ids[i])] <= k
    <3>1. PICK k \in 1..Len(ids) :
              IsFetchedIn(ids[i], k) /\ volunteered'[Message(ids[i])] <= k
      BY <2>3
    <3>2. volunteered[Message(ids[i])] <= k
      BY <2>4, <3>1
    <3> QED
      BY <3>1, <3>2
  <2> QED
    BY <2>3, <2>5 DEF Undisturbed
<1> QED
  BY <1>1, <1>2, <1>3, <1>5, <1>6

\* A FETCH has been sent for the current ids, and nothing was received yet.
AtStart ==
    /\ todo = names \X Named({ids[i] : i \in {i \in DOMAIN ids : CurrentAt(i)}}, uid)
    /\ output = Nothing

LEMMA StartIsRight ==
    ASSUME Base, AtStart
    PROVE  Collected /\ Complete
<1> DEFINE set == {ids[i] : i \in {i \in DOMAIN ids : CurrentAt(i)}}
<1>1. todo = names \X Named(set, uid) /\ DOMAIN output = {}
  BY DEF AtStart, Nothing
<1>2. \A i \in DOMAIN ids : ids[i] \in Known /\ Message(ids[i]) \in All
  BY IdsProperties
<1>3. ASSUME NEW m
      PROVE  m \in Named(set, uid) <=>
               m \in present /\ \E i \in DOMAIN ids : CurrentAt(i) /\ m = Message(ids[i])
  <2>1. CASE uid
    BY <1>2, <2>1 DEF Named, Message
  <2>2. CASE ~uid
    BY <1>2, <2>2 DEF Named, Message, Known
  <2> QED
    BY <2>1, <2>2
<1> HIDE DEF set
<1>4. \A m \in Named(set, uid) : m \in All /\ IsCurrent(m)
  BY <1>2, <1>3 DEF IsCurrent
<1>5. Collected
  BY <1>1, <1>4 DEF Collected
<1>6. Complete
  BY <1>1, <1>3 DEF Complete
<1> QED
  BY <1>5, <1>6

\* What a FETCH response adds to what was collected.
LEMMA ReceivedOutput ==
    ASSUME NEW seq, NEW items, Received(seq, items)
    PROVE  /\ \A q \in DOMAIN output' :
                 q = seq \/ (q \in DOMAIN output /\ output'[q] = output[q])
           /\ seq \in DOMAIN output' /\ items \subseteq output'[seq]
           /\ \A item \in output'[seq] :
                 item \in items \/ (seq \in DOMAIN output /\ item \in output[seq])
           /\ pending # "first" => \A q \in DOMAIN output :
                 q \in DOMAIN output' /\ output[q] \subseteq output'[q]
<1>1. CASE pending = "first"
  <2>1. output' = [x \in {seq} |-> items]
    BY <1>1 DEF Received, process_data_first, Entry
  <2> QED
    BY <1>1, <2>1
<1>2. CASE pending # "first" /\ seq \in DOMAIN output
  <2>1. output' = [output EXCEPT ![seq] = output[seq] \cup items]
    BY <1>2 DEF Received, process_data
  <2> QED
    BY <1>2, <2>1
<1>3. CASE pending # "first" /\ seq \notin DOMAIN output
  <2>1. output' = [x \in {seq} \cup DOMAIN output |-> IF x = seq THEN items ELSE output[x]]
    BY <1>3 DEF Received, process_data, Entry, Extended
  <2> QED
    BY <1>3, <2>1
<1> QED
  BY <1>1, <1>2, <1>3

\* A FETCH response about m, asked for or volunteered.
LEMMA ReceivedKeeps ==
    ASSUME SortInv, pending \in {"fetch", "first"},
           NEW m \in present, NEW seq \in DOMAIN view, view[seq] = m,
           NEW items, items # {}, \A item \in items : item = <<item[1], m>>,
           Received(seq, items), NEW given, todo' = todo \ given, given \subseteq items,
           volunteered' \in [All -> Nat], IsCurrent(m) \/ volunteered'[m] = round,
           \A x \in All : volunteered'[x] = volunteered[x] \/ volunteered'[x] = round,
           UNCHANGED <<present, view, uid, pending, ids, round, names, fetches, renumbered,
                       sortVars>>
    PROVE  SortInv'
<1> USE DEF sortVars
<1>1. /\ Base /\ Stages /\ Unsorted /\ Collected /\ Complete /\ Entries /\ Earlier
      /\ m \in All /\ round \in Nat
  BY DEF SortInv, Base
<1>2. \A x \in All : /\ volunteered[x] \in Nat /\ volunteered'[x] \in Nat
                     /\ volunteered[x] <= volunteered'[x] /\ volunteered'[x] <= round
  <2>1. \A x \in All : volunteered[x] \in Nat /\ volunteered[x] <= round
    BY <1>1 DEF Base
  <2> QED
    BY <1>1, <2>1
<1>3. Base'
  <2>1. Known' = Known
    BY DEF Known
  <2> QED
    BY <1>1, <1>2, <2>1 DEF Base, Once
<1>4. /\ Known' = Known
      /\ \A id \in Known : Message(id)' = Message(id)
      /\ \A i \in DOMAIN ids : CurrentAt(i)' <=> CurrentAt(i)
      /\ \A x : IsCurrent(x)' <=> IsCurrent(x)
      /\ \A i : Served(i)' <=> Served(i)
      /\ \A i \in DOMAIN ids : Undisturbed(ids[i])' => Undisturbed(ids[i])
  BY <1>1, <1>2, <1>3, SameCall
<1>5. Items' = Items
  BY DEF Items, FetchItems, SortItems
<1>6. Stages' /\ Unsorted'
  BY <1>1, <1>5 DEF Stages, Unsorted
<1>7. /\ \A q \in DOMAIN output' : q = seq \/ (q \in DOMAIN output /\ output'[q] = output[q])
      /\ seq \in DOMAIN output' /\ items \subseteq output'[seq]
      /\ \A item \in output'[seq] :
            item \in items \/ (seq \in DOMAIN output /\ item \in output[seq])
      /\ pending # "first" =>
           \A q \in DOMAIN output : q \in DOMAIN output' /\ output[q] \subseteq output'[q]
  BY ReceivedOutput
<1>8. Collected'
  <2>1. \A item : IsItem(item) => IsItem(item)'
    <3>1. \A x \in All : volunteered[x] = round => volunteered'[x] = round
      OBVIOUS
    <3> QED
      BY <1>4, <3>1 DEF IsItem
  <2>2. \A item \in items : IsItem(item)'
    BY <1>1, <1>4 DEF IsItem
  <2>3. \A item \in todo' : /\ item = <<item[1], item[2]>>
                            /\ item[2] \in All /\ IsCurrent(item[2])'
    BY <1>1, <1>4 DEF Collected
  <2>4. \A q \in DOMAIN output : /\ output[q] # {} /\ \A item \in output[q] : IsItem(item)'
                                 /\ ~renumbered => /\ q \in DOMAIN view
                                                   /\ \A item \in output[q] : item[2] = view[q]
    BY <1>1, <2>1 DEF Collected
  <2>5. ASSUME NEW q \in DOMAIN output'
        PROVE  /\ output'[q] # {} /\ \A item \in output'[q] : IsItem(item)'
               /\ ~renumbered => /\ q \in DOMAIN view
                                 /\ \A item \in output'[q] : item[2] = view[q]
    <3>1. CASE q # seq
      BY <1>7, <2>4, <3>1
    <3>2. CASE q = seq
      <4>1. \A item \in items : item[2] = m
        OBVIOUS
      <4> QED
        BY <1>7, <2>2, <2>4, <3>2, <4>1
    <3> QED
      BY <3>1, <3>2
  <2> QED
    BY <2>3, <2>5 DEF Collected
<1>9. Complete'
  <2> SUFFICES ASSUME pending = "fetch", ~renumbered, NEW i \in DOMAIN ids, NEW n \in names,
                      CurrentAt(i), Message(ids[i]) \in present
               PROVE  \/ <<n, Message(ids[i])>> \in todo'
                      \/ \E q \in DOMAIN output' : <<n, Message(ids[i])>> \in output'[q]
    <3>1. \A i \in DOMAIN ids : ids[i] \in Known
      BY <1>1, IdsProperties
    <3> QED
      BY <1>4, <3>1 DEF Complete
  <2>1. CASE <<n, Message(ids[i])>> \in todo
    BY <1>7, <2>1
  <2>2. CASE \E q \in DOMAIN output : <<n, Message(ids[i])>> \in output[q]
    BY <1>7, <2>2
  <2> QED
    BY <1>1, <2>1, <2>2 DEF Complete
<1>10. Entries'
  <2>1. ASSUME NEW id, NEW x, IsEntry(id, x) PROVE IsEntry(id, x)'
    <3>1. id \in Known /\ Message(id) \in All /\ Message(id)' = Message(id)
      BY <1>1, <1>4, <2>1, KnownProperties DEF IsEntry
    <3>2. volunteered[Message(id)] > 0 => volunteered'[Message(id)] > 0
      BY <1>2, <3>1
    <3> QED
      BY <1>4, <2>1, <3>1, <3>2 DEF IsEntry
  <2> QED
    BY <1>1, <2>1 DEF Entries
<1>11. Earlier'
  <2>1. \A i \in DOMAIN ids : \A x : HasAll(ids[i], x) => HasAll(ids[i], x)'
    <3>1. \A i \in DOMAIN ids : ids[i] \in Known
      BY <1>1, IdsProperties
    <3> QED
      BY <1>4, <1>5, <3>1 DEF HasAll
  <2> QED
    BY <1>1, <1>4, <2>1 DEF Earlier
<1>12. Result'
  BY DEF Result, FetchFirstMatches
<1> QED
  BY <1>3, <1>6, <1>8, <1>9, <1>10, <1>11, <1>12 DEF SortInv

LEMMA GiveKeeps ==
    ASSUME SortInv, NEW m \in All, NEW items \in SUBSET (todo \cap names \X {m}),
           Give(m, items), UNCHANGED sortVars
    PROVE  SortInv'
<1> DEFINE all == items \cup (IF uid THEN {<<"uid", m>>} ELSE {})
<1>1. /\ pending \in {"fetch", "first"} /\ m \in present /\ items # {}
      /\ todo' = todo \ items
      /\ UNCHANGED <<present, view, uid, pending, ids, round, names, fetches, volunteered,
                     renumbered>>
  BY DEF Give, mailboxVars, callVars
<1>2. PICK seq \in DOMAIN view : view[seq] = m /\ Received(seq, all)
  BY DEF Give
<1>3. all # {} /\ items \subseteq all /\ \A item \in all : item = <<item[1], m>>
  BY <1>1
<1>4. volunteered \in [All -> Nat] /\ Collected
  BY DEF SortInv, Base
<1>5. IsCurrent(m)
  <2>1. PICK item \in items : item \in todo
    BY <1>1
  <2>2. item[2] = m
    OBVIOUS
  <2> QED
    BY <1>1, <1>4, <2>1, <2>2 DEF Collected
<1> HIDE DEF all
<1> QED
  BY <1>1, <1>2, <1>3, <1>4, <1>5, ReceivedKeeps

LEMMA VolunteerKeeps ==
    ASSUME SortInv, NEW m \in All, Volunteer(m), UNCHANGED sortVars
    PROVE  SortInv'
<1>1. /\ pending \in {"fetch", "first"} /\ m \in present
      /\ volunteered' = [volunteered EXCEPT ![m] = round]
      /\ UNCHANGED <<present, view, uid, pending, ids, round, names, todo, fetches,
                     renumbered>>
  BY DEF Volunteer, mailboxVars, callVars
<1>2. PICK seq \in DOMAIN view, known \in SUBSET {<<"uid", m>>} :
         view[seq] = m /\ Received(seq, {<<"flags", m>>} \cup known)
  BY DEF Volunteer
<1> DEFINE items == {<<"flags", m>>} \cup known
<1>3. items # {} /\ \A item \in items : item = <<item[1], m>>
  <2>1. \A item \in known : item = <<"uid", m>>
    BY <1>2
  <2>2. \A item \in items : item = <<"flags", m>> \/ item = <<"uid", m>>
    BY <2>1
  <2>3. items # {}
    OBVIOUS
  <2>4. ASSUME NEW item \in items PROVE item = <<item[1], m>>
    <3>1. CASE item = <<"flags", m>>
      BY <3>1
    <3>2. CASE item = <<"uid", m>>
      BY <3>2
    <3> QED
      BY <2>2, <2>4, <3>1, <3>2
  <2> QED
    BY <2>3, <2>4
<1>4. volunteered \in [All -> Nat] /\ round \in Nat
  BY DEF SortInv, Base
<1>5. /\ volunteered' \in [All -> Nat] /\ volunteered'[m] = round
      /\ \A x \in All : volunteered'[x] = volunteered[x] \/ volunteered'[x] = round
  BY <1>1, <1>4
<1>6. PICK given \in SUBSET items : todo' = todo \ given
  <2>1. todo' = todo \ {}
    BY <1>1
  <2> QED
    BY <2>1
<1>7. Received(seq, items)
  BY <1>2
<1> HIDE DEF items
<1> QED
  BY <1>1, <1>2, <1>3, <1>5, <1>6, <1>7, ReceivedKeeps

\* Messages go, or are numbered anew, while what was given stays as it is.
LEMMA MailboxKeeps ==
    ASSUME SortInv, Base', uid \/ UNCHANGED view, present' \subseteq present,
           renumbered => renumbered', view' # view /\ output # Nothing => renumbered',
           pending \notin {"ok", "error"},
           UNCHANGED <<uid, pending, ids, round, names, todo, output, fetches, volunteered,
                       sortVars>>
    PROVE  SortInv'
<1> USE DEF sortVars
<1>1. /\ Base /\ Stages /\ Unsorted /\ Collected /\ Complete /\ Entries /\ Earlier
      /\ volunteered \in [All -> Nat]
  BY DEF SortInv, Base
<1>2. /\ Known' = Known
      /\ \A id \in Known : Message(id)' = Message(id)
      /\ \A i \in DOMAIN ids : CurrentAt(i)' <=> CurrentAt(i)
      /\ \A x : IsCurrent(x)' <=> IsCurrent(x)
      /\ \A i : Served(i)' <=> Served(i)
      /\ \A i \in DOMAIN ids : Undisturbed(ids[i])' => Undisturbed(ids[i])
  <2>1. \A m \in All : volunteered[m] <= volunteered'[m]
    BY <1>1
  <2> QED
    BY <1>1, <2>1, SameCall
<1>3. Items' = Items
  BY DEF Items, FetchItems, SortItems
<1>4. Stages' /\ Unsorted'
  BY <1>1, <1>3 DEF Stages, Unsorted
<1>5. \A i \in DOMAIN ids : ids[i] \in Known
  BY <1>1, IdsProperties
<1>6. Collected'
  <2>1. \A item : IsItem(item) => IsItem(item)'
    BY <1>2 DEF IsItem
  <2>2. ~renumbered' => view' = view \/ DOMAIN output = {}
    BY DEF Nothing
  <2>3. renumbered \in BOOLEAN /\ renumbered' \in BOOLEAN
    BY <1>1 DEF Base
  <2> QED
    BY <1>1, <1>2, <2>1, <2>2, <2>3 DEF Collected
<1>7. Complete'
  BY <1>1, <1>2, <1>5 DEF Complete
<1>8. Entries'
  <2>1. ASSUME NEW id, NEW x, IsEntry(id, x) PROVE IsEntry(id, x)'
    <3>1. id \in Known /\ Message(id)' = Message(id)
      BY <1>1, <1>2, <2>1 DEF IsEntry
    <3> QED
      BY <1>2, <2>1, <3>1 DEF IsEntry
  <2> QED
    BY <1>1, <2>1 DEF Entries
<1>9. Earlier'
  <2>1. \A i \in DOMAIN ids : \A x : HasAll(ids[i], x) => HasAll(ids[i], x)'
    BY <1>2, <1>3, <1>5 DEF HasAll
  <2> QED
    BY <1>1, <1>2, <2>1 DEF Earlier
<1>10. Result'
  BY DEF Result, FetchFirstMatches
<1> QED
  BY <1>4, <1>6, <1>7, <1>8, <1>9, <1>10 DEF SortInv

LEMMA OtherExpungesKeeps ==
    ASSUME SortInv, NEW m \in All, OtherExpunges(m), UNCHANGED sortVars
    PROVE  SortInv'
<1>1. /\ pending \notin {"ok", "error"} /\ present' = present \ {m}
      /\ UNCHANGED <<view, uid, pending, ids, round, names, todo, output, fetches,
                     volunteered, renumbered>>
  BY DEF OtherExpunges
<1>2. Base'
  BY <1>1 DEF SortInv, Base, Known, Once, sortVars
<1> QED
  BY <1>1, <1>2, MailboxKeeps

LEMMA ReportExpungedKeeps ==
    ASSUME SortInv, ReportExpunged, UNCHANGED sortVars
    PROVE  SortInv'
<1>1. /\ uid /\ pending \in {"search", "fetch", "first"}
      /\ view' \in InOrder(present) /\ renumbered' = (renumbered \/ output # Nothing)
      /\ UNCHANGED <<present, uid, ids, names, pending, round, todo, output, fetches,
                     volunteered>>
  BY DEF ReportExpunged, callVars
<1>2. view' \in Seq(All) /\ Once(view')
  <2>1. present \subseteq All
    BY DEF SortInv, Base
  <2>2. IsFiniteSet(present)
    BY <2>1, AllIsFinite, FS_Subset
  <2>3. view' \in Seq(present) /\ Once(view')
    BY <1>1, <2>2, InOrderProperties
  <2> QED
    BY <2>1, <2>3
<1>3. Base'
  <2>1. Known' = Known /\ Base
    BY <1>1 DEF SortInv, Known
  <2> QED
    BY <1>1, <1>2, <2>1 DEF Base, sortVars, Once
<1> QED
  BY <1>1, <1>3, MailboxKeeps DEF SortInv, Base

LEMMA TaggedNoKeeps ==
    ASSUME SortInv, TaggedNo, UNCHANGED sortVars
    PROVE  SortInv'
<1> USE DEF sortVars, mailboxVars, callVars
<1>1. /\ pending \in {"search", "fetch", "first"} /\ pending' = "error"
      /\ UNCHANGED <<present, view, uid, ids, names, round, volunteered, renumbered>>
  BY DEF TaggedNo
<1>2. Base'
  BY <1>1 DEF SortInv, Base, Known, Once
<1>3. Stages' /\ Unsorted'
  BY <1>1 DEF SortInv, Stages, Unsorted
<1> QED
  BY <1>1, <1>2, <1>3
     DEF SortInv, Collected, Complete, Entries, Earlier, Result, FetchFirstMatches

-----------------------------------------------------------------------------
(* The calls *)

\* Ids that a program knows, or that the server found.
LEMMA IdsKnown ==
    ASSUME Base, NEW S \in SUBSET Ids, NEW s, s \in Orders(S) \/ s \in InOrder(S)
    PROVE  s \in Seq(Known) /\ Range(s) = S /\ Once(s)
<1>1. S \subseteq Known /\ IsFiniteSet(Known)
  BY KnownProperties
<1>2. IsFiniteSet(S)
  BY <1>1, FS_Subset
<1>3. s \in Seq(S) /\ Range(s) = S /\ Once(s)
  BY <1>2, OrderProperties, InOrderProperties
<1> QED
  BY <1>1, <1>3

LEMMA CallFetchKeeps == SortInv /\ CallFetch => SortInv'
<1> SUFFICES ASSUME SortInv, CallFetch PROVE SortInv'
  OBVIOUS
<1> USE DEF mailboxVars
<1>1. /\ op = "none" /\ op' = "fetch" /\ pending' = "fetch"
      /\ UNCHANGED <<present, view, uid, fetches, volunteered, renumbered,
                     ext_sort_supported, criteria, attr, sorted>>
  BY DEF CallFetch
<1>2. PICK S \in SUBSET Ids : ids' \in InOrder(S) /\ _fetch(S, Asked)
  BY DEF CallFetch
<1>3. /\ names' = Asked \cup (IF uid THEN {"uid"} ELSE {})
      /\ todo' = names' \X Named(S, uid) /\ output' = Nothing /\ round' = round + 1
  BY <1>2 DEF _fetch, SendFetch
<1>4. /\ Base /\ round = 0 /\ fetches = Nothing
      /\ sorted = <<>>
  BY <1>1 DEF SortInv, Stages, Unsorted
<1>5. ids' \in Seq(Known) /\ Range(ids') = S /\ Once(ids')
  BY <1>2, <1>4, IdsKnown
<1>6. Base'
  <2>1. Known' = Known
    BY <1>1 DEF Known
  <2>2. \A m \in All : volunteered'[m] <= round'
    BY <1>1, <1>3, <1>4 DEF Base
  <2> QED
    BY <1>1, <1>3, <1>4, <1>5, <2>1, <2>2 DEF Base, Once
<1>7. Stages' /\ Unsorted'
  BY <1>1, <1>3, <1>4 DEF Stages, Unsorted, Items
<1>8. AtStart'
  <2>1. {ids[i] : i \in {i \in DOMAIN ids : CurrentAt(i)}}' = S
    BY <1>1, <1>5 DEF CurrentAt, Range
  <2> QED
    BY <1>1, <1>3, <2>1 DEF AtStart, Named
<1>9. Collected' /\ Complete'
  BY <1>6, <1>8, StartIsRight, PTL
<1>10. Entries' /\ Earlier'
  BY <1>1, <1>4 DEF Entries, Earlier, Served, Nothing
<1> QED
  BY <1>1, <1>6, <1>7, <1>9, <1>10
     DEF SortInv, Result, FetchFirstMatches

LEMMA CallFetchFirstKeeps == SortInv /\ CallFetchFirst => SortInv'
<1> SUFFICES ASSUME SortInv, CallFetchFirst PROVE SortInv'
  OBVIOUS
<1> USE DEF mailboxVars
<1>1. /\ op = "none" /\ op' = "fetch_first" /\ pending' = "first"
      /\ UNCHANGED <<present, view, uid, fetches, volunteered, renumbered,
                     ext_sort_supported, criteria, attr, sorted>>
  BY DEF CallFetchFirst
<1>2. PICK id \in Ids : ids' = <<id>> /\ _fetch_first(id)
  BY DEF CallFetchFirst
<1>3. /\ names' = Asked /\ todo' = names' \X Named({id}, uid)
      /\ output' = Nothing /\ round' = round + 1
  BY <1>2 DEF _fetch_first, SendFetch
<1>4. Base /\ round = 0 /\ sorted = <<>>
  BY <1>1 DEF SortInv, Stages, Unsorted
<1>5. ids' \in Seq(Known) /\ Once(ids') /\ Len(ids') = 1 /\ DOMAIN ids' = {1} /\ ids'[1] = id
  <2>1. id \in Known
    BY <1>2, <1>4, KnownProperties
  <2> QED
    BY <1>2, <2>1 DEF Once
<1>6. Base'
  <2>1. Known' = Known
    BY <1>1 DEF Known
  <2>2. \A m \in All : volunteered'[m] <= round'
    BY <1>1, <1>3, <1>4 DEF Base
  <2> QED
    BY <1>1, <1>3, <1>4, <1>5, <2>1, <2>2 DEF Base, Once
<1>7. Stages' /\ Unsorted'
  BY <1>1, <1>3, <1>4, <1>5 DEF Stages, Unsorted
<1>8. AtStart'
  <2>1. {ids[i] : i \in {i \in DOMAIN ids : CurrentAt(i)}}' = {id}
    BY <1>1, <1>5 DEF CurrentAt
  <2> QED
    BY <1>1, <1>3, <2>1 DEF AtStart, Named
<1>9. Collected' /\ Complete'
  BY <1>6, <1>8, StartIsRight, PTL
<1>10. Entries' /\ Earlier'
  BY <1>1 DEF Entries, Earlier
<1> QED
  BY <1>1, <1>6, <1>7, <1>9, <1>10
     DEF SortInv, Result, FetchFirstMatches

LEMMA CallSortKeeps == SortInv /\ CallSort => SortInv'
<1> SUFFICES ASSUME SortInv, CallSort PROVE SortInv'
  OBVIOUS
<1>1. /\ op = "none" /\ op' = "sort" /\ pending' = "search"
      /\ criteria' \in IF ext_sort_supported THEN {<<>>} ELSE Criteria
      /\ UNCHANGED <<present, view, uid, ids, round, names, todo, output, fetches,
                     volunteered, renumbered, ext_sort_supported, attr, sorted>>
  BY DEF CallSort, mailboxVars
<1>2. Base'
  <2>1. Known' = Known /\ Base
    BY <1>1 DEF Known, SortInv
  <2> QED
    BY <1>1, <2>1 DEF Base, Once
<1>3. Stages' /\ Unsorted'
  BY <1>1 DEF SortInv, Stages, Unsorted
<1> QED
  BY <1>1, <1>2, <1>3
     DEF SortInv, Collected, Complete, Entries, Earlier, Result, FetchFirstMatches

-----------------------------------------------------------------------------
(* The map *)

\* With numbers that did not change each item collected is under that of its message,
\* and none that was asked for is missing when the server says OK.
LEMMA CollectedAll ==
    ASSUME SortInv, pending = "fetch", TaggedOk, ~renumbered
    PROVE  /\ \A q \in DOMAIN output : /\ q \in DOMAIN view
                                       /\ \A item \in output[q] : item[2] = view[q]
           /\ \A q, r \in DOMAIN output : view[q] = view[r] => q = r
           /\ \A i \in DOMAIN ids, n \in names :
                CurrentAt(i) /\ Message(ids[i]) \in present =>
                  \E q \in DOMAIN output : /\ <<n, Message(ids[i])>> \in output[q]
                                           /\ view[q] = Message(ids[i])
<1>1. Base /\ Collected /\ Complete
  BY DEF SortInv
<1>2. \A q \in DOMAIN output : /\ q \in DOMAIN view
                               /\ \A item \in output[q] : item[2] = view[q]
  BY <1>1 DEF Collected
<1>3. \A q, r \in DOMAIN output : view[q] = view[r] => q = r
  BY <1>1, <1>2 DEF Base, Once
<1>4. ASSUME NEW i \in DOMAIN ids, NEW n \in names, CurrentAt(i), Message(ids[i]) \in present
      PROVE  \E q \in DOMAIN output : /\ <<n, Message(ids[i])>> \in output[q]
                                      /\ view[q] = Message(ids[i])
  <2>1. <<n, Message(ids[i])>> \notin todo
    BY <1>4 DEF TaggedOk
  <2>2. PICK q \in DOMAIN output : <<n, Message(ids[i])>> \in output[q]
    BY <1>1, <1>4, <2>1 DEF Complete
  <2>3. view[q] = Message(ids[i])
    BY <1>2, <2>2
  <2> QED
    BY <2>2, <2>3
<1> QED
  BY <1>2, <1>3, <1>4

\* An entry as collected is about its message, and was asked for or volunteered.
LEMMA CollectedIsEntry ==
    ASSUME SortInv, pending = "fetch", NEW q \in DOMAIN output, NEW id \in Known,
           ~renumbered => view[q] = Message(id),
           uid => <<"uid", id>> \in output[q]
    PROVE  /\ IsEntry(id, output[q])
           /\ IsCurrent(Message(id)) \/ volunteered[Message(id)] = round
<1>1. Base /\ Collected /\ Stages
  BY DEF SortInv
<1>2. round > 0 /\ (~uid => ~renumbered)
  BY <1>1 DEF Base, Stages
<1>3. IsCurrent(Message(id)) \/ volunteered[Message(id)] = round
  <2>1. PICK item \in output[q] : item[2] = Message(id)
    <3>1. CASE uid
      <4>1. <<"uid", id>>[2] = Message(id)
        BY <3>1 DEF Message
      <4> QED
        BY <3>1, <4>1
    <3>2. CASE ~uid
      BY <1>1, <1>2, <3>2 DEF Collected
    <3> QED
      BY <3>1, <3>2
  <2>2. IsItem(item)
    BY <1>1, <2>1 DEF Collected
  <2> QED
    BY <2>1, <2>2 DEF IsItem
<1>4. id \in Range(ids) \/ volunteered[Message(id)] > 0
  <2>1. ASSUME IsCurrent(Message(id)) PROVE id \in Range(ids)
    <3>1. PICK i \in DOMAIN ids : Message(id) = Message(ids[i])
      BY <2>1 DEF IsCurrent
    <3>2. ids[i] \in Known
      BY <1>1, IdsProperties
    <3>3. id = ids[i]
      BY <1>1, <3>1, <3>2, KnownProperties
    <3> QED
      BY <3>3 DEF Range
  <2> QED
    BY <1>2, <1>3, <2>1
<1>5. renumbered \/ \A item \in output[q] : item[2] = Message(id)
  BY <1>1 DEF Collected
<1> QED
  BY <1>3, <1>4, <1>5 DEF IsEntry

LEMMA RekeyedProperties ==
    ASSUME SortInv, pending = "fetch", TaggedOk, NEW map \in Rekeyed
    PROVE  /\ \A id \in DOMAIN map :
                /\ IsEntry(id, map[id])
                /\ IsCurrent(Message(id)) \/ volunteered[Message(id)] = round
           /\ \A i \in DOMAIN ids :
                CurrentAt(i) /\ Message(ids[i]) \in present /\ ~renumbered =>
                  ids[i] \in DOMAIN map /\ HasAll(ids[i], map[ids[i]])
<1>1. /\ Base /\ Collected
      /\ names = Items \cup (IF uid THEN {"uid"} ELSE {}) /\ Items # {}
  BY AskedAssumption DEF SortInv, Stages, Items, FetchItems, SortItems
<1>2. \A i \in DOMAIN ids : ids[i] \in Known
  BY <1>1, IdsProperties
<1>3. CASE ~uid
  <2>1. map = output
    BY <1>3 DEF Rekeyed
  <2>2. ~renumbered /\ Known = DOMAIN view /\ \A id \in Known : Message(id) = view[id]
    BY <1>1, <1>3 DEF Base, Known, Message
  <2>3. /\ \A q \in DOMAIN output : q \in DOMAIN view
        /\ \A i \in DOMAIN ids, n \in names :
             CurrentAt(i) /\ Message(ids[i]) \in present =>
               \E q \in DOMAIN output : /\ <<n, Message(ids[i])>> \in output[q]
                                        /\ view[q] = Message(ids[i])
    BY <2>2, CollectedAll
  <2>4. ASSUME NEW id \in DOMAIN map
        PROVE  /\ IsEntry(id, map[id])
               /\ IsCurrent(Message(id)) \/ volunteered[Message(id)] = round
    <3>1. id \in DOMAIN output /\ id \in Known /\ view[id] = Message(id)
      BY <2>1, <2>2, <2>3
    <3>2. /\ IsEntry(id, output[id])
          /\ IsCurrent(Message(id)) \/ volunteered[Message(id)] = round
      BY <1>3, <3>1, CollectedIsEntry
    <3> QED
      BY <2>1, <3>2
  <2>5. ASSUME NEW i \in DOMAIN ids, CurrentAt(i), Message(ids[i]) \in present
        PROVE  ids[i] \in DOMAIN map /\ HasAll(ids[i], map[ids[i]])
    <3>1. \A n \in names : ids[i] \in DOMAIN output /\ <<n, Message(ids[i])>> \in output[ids[i]]
      <4>1. ASSUME NEW n \in names
            PROVE  ids[i] \in DOMAIN output /\ <<n, Message(ids[i])>> \in output[ids[i]]
        <5>1. PICK q \in DOMAIN output : /\ <<n, Message(ids[i])>> \in output[q]
                                         /\ view[q] = Message(ids[i])
          BY <2>3, <2>5
        <5>2. q = ids[i]
          BY <1>1, <1>2, <2>2, <2>3, <5>1 DEF Base, Once
        <5> QED
          BY <5>1, <5>2
      <4> QED
        BY <4>1
    <3> QED
      BY <1>1, <2>1, <3>1 DEF HasAll
  <2> QED
    BY <2>4, <2>5
<1>4. CASE uid
  <2> DEFINE UidsOf(q) == {m \in All : <<"uid", m>> \in output[q]}
             keyed == {q \in DOMAIN output : UidsOf(q) # {}}
  <2> DEFINE lasts(p) == {l \in [Range(p) -> keyed] : \A m \in Range(p) : p[l[m]] = m}
  <2>1. PICK p \in [keyed -> All] :
          /\ \A q \in keyed : p[q] \in UidsOf(q)
          /\ map \in {[m \in Range(p) |-> output[l[m]]] : l \in lasts(p)}
    BY <1>4 DEF Rekeyed
  <2>2. PICK l \in lasts(p) : map = [m \in Range(p) |-> output[l[m]]]
    BY <2>1
  <2>3. /\ l \in [Range(p) -> keyed]
        /\ \A q \in keyed : p[q] \in UidsOf(q)
        /\ \A m \in Range(p) : p[l[m]] = m
        /\ map = [m \in Range(p) |-> output[l[m]]]
    BY <2>1, <2>2
  <2>4. \A q \in keyed : q \in DOMAIN output /\ p[q] \in All /\ <<"uid", p[q]>> \in output[q]
    BY <2>3
  <2>5. Known = All /\ \A id : Message(id) = id
    BY <1>4 DEF Known, Message
  <2>6. ASSUME NEW id \in DOMAIN map
        PROVE  /\ l[id] \in DOMAIN output /\ <<"uid", id>> \in output[l[id]]
               /\ id \in Known /\ map[id] = output[l[id]]
    <3>1. id \in Range(p) /\ l[id] \in keyed /\ p[l[id]] = id /\ map[id] = output[l[id]]
      BY <2>3, <2>6
    <3> QED
      BY <2>4, <2>5, <3>1
  <2> HIDE DEF UidsOf, keyed
  <2>7. ASSUME NEW id \in DOMAIN map
        PROVE  /\ IsEntry(id, map[id])
               /\ IsCurrent(Message(id)) \/ volunteered[Message(id)] = round
    <3>1. PICK q \in DOMAIN output : q = l[id]
      BY <2>6
    <3>2. <<"uid", id>> \in output[q] /\ id \in Known /\ map[id] = output[q]
      BY <2>6, <3>1
    <3>3. ~renumbered => view[q] = Message(id)
      <4>1. ASSUME ~renumbered PROVE view[q] = id
        <5>1. \A item \in output[q] : item[2] = view[q]
          BY <4>1, CollectedAll
        <5>2. <<"uid", id>>[2] = view[q]
          BY <3>2, <5>1
        <5> QED
          BY <5>2
      <4> QED
        BY <2>5, <4>1
    <3>4. /\ IsEntry(id, output[q])
          /\ IsCurrent(Message(id)) \/ volunteered[Message(id)] = round
      BY <3>2, <3>3, CollectedIsEntry
    <3> QED
      BY <3>2, <3>4
  <2>8. ASSUME NEW i \in DOMAIN ids, CurrentAt(i), Message(ids[i]) \in present, ~renumbered
        PROVE  ids[i] \in DOMAIN map /\ HasAll(ids[i], map[ids[i]])
    <3>1. /\ \A q \in DOMAIN output : \A item \in output[q] : item[2] = view[q]
          /\ \A q, r \in DOMAIN output : view[q] = view[r] => q = r
          /\ \A n \in names : \E q \in DOMAIN output : /\ <<n, ids[i]>> \in output[q]
                                                       /\ view[q] = ids[i]
      BY <2>5, <2>8, CollectedAll
    <3>2. PICK q \in DOMAIN output : <<"uid", ids[i]>> \in output[q] /\ view[q] = ids[i]
      BY <1>1, <1>4, <3>1
    <3>3. ids[i] \in Range(p)
      <4>1. q \in keyed
        BY <1>2, <2>5, <3>2 DEF keyed, UidsOf
      <4>2. <<"uid", p[q]>>[2] = view[q]
        BY <2>4, <3>1, <4>1
      <4> QED
        BY <2>3, <3>2, <4>1, <4>2 DEF Range
    <3>4. ids[i] \in DOMAIN map
      BY <2>3, <3>3
    <3>5. l[ids[i]] = q
      <4>1. l[ids[i]] \in DOMAIN output /\ <<"uid", ids[i]>> \in output[l[ids[i]]]
        BY <2>6, <3>4
      <4>2. <<"uid", ids[i]>>[2] = view[l[ids[i]]]
        BY <3>1, <4>1
      <4> QED
        BY <3>1, <3>2, <4>1, <4>2
    <3>6. ASSUME NEW n \in names PROVE <<n, ids[i]>> \in map[ids[i]]
      <4>1. PICK r \in DOMAIN output : <<n, ids[i]>> \in output[r] /\ view[r] = ids[i]
        BY <3>1
      <4>2. r = q
        BY <3>1, <3>2, <4>1
      <4> QED
        BY <2>6, <3>4, <3>5, <4>1, <4>2
    <3> QED
      BY <1>1, <2>5, <3>4, <3>6 DEF HasAll
  <2> QED
    BY <2>7, <2>8
<1> QED
  BY <1>3, <1>4

LEMMA ProductOrder ==
    ASSUME NEW a \in Int, NEW b \in Int, a * ChunkLen < b * ChunkLen
    PROVE  a < b
<1> SUFFICES ASSUME b <= a PROVE FALSE
  OBVIOUS
<1>1. PICK d \in Nat : a = b + d
  <2>1. a - b \in Nat /\ a = b + (a - b)
    OBVIOUS
  <2> QED
    BY <2>1
<1>2. a * ChunkLen = b * ChunkLen + d * ChunkLen
  BY <1>1, Numbers
<1>3. d * ChunkLen >= 0
  BY <1>1, Numbers
<1>4. a * ChunkLen \in Int /\ b * ChunkLen \in Int /\ d * ChunkLen \in Int
  BY <1>1, Numbers
<1> QED
  BY <1>2, <1>3, <1>4

\* With the answers to a FETCH all that it and those before it are about is there.
LEMMA FetchedProperties ==
    ASSUME SortInv, Fetched
    PROVE  /\ \A id \in DOMAIN fetches' : IsEntry(id, fetches'[id])
           /\ \A i \in DOMAIN ids : (CurrentAt(i) \/ Served(i)) /\ Undisturbed(ids[i]) =>
                ids[i] \in DOMAIN fetches' /\ HasAll(ids[i], fetches'[ids[i]])
<1>1. /\ Base /\ Entries /\ Earlier /\ pending = "fetch" /\ TaggedOk
      /\ round \in Nat /\ volunteered \in [All -> Nat]
  BY DEF SortInv, Base, Fetched
<1>2. PICK map \in Rekeyed : fetches' = Extended(fetches, map)
  BY DEF Fetched
<1>3. /\ DOMAIN fetches' = DOMAIN fetches \cup DOMAIN map
      /\ \A id \in DOMAIN map : fetches'[id] = map[id]
      /\ \A id \in DOMAIN fetches : id \notin DOMAIN map => fetches'[id] = fetches[id]
  BY <1>2 DEF Extended
<1>4. /\ \A id \in DOMAIN map :
           /\ IsEntry(id, map[id])
           /\ IsCurrent(Message(id)) \/ volunteered[Message(id)] = round
      /\ \A i \in DOMAIN ids :
           CurrentAt(i) /\ Message(ids[i]) \in present /\ ~renumbered =>
             ids[i] \in DOMAIN map /\ HasAll(ids[i], map[ids[i]])
  BY <1>1, <1>2, RekeyedProperties
<1>5. \A id \in DOMAIN fetches' : IsEntry(id, fetches'[id])
  BY <1>1, <1>3, <1>4 DEF Entries
<1>6. ASSUME NEW i \in DOMAIN ids, CurrentAt(i), Undisturbed(ids[i])
      PROVE  ids[i] \in DOMAIN fetches' /\ HasAll(ids[i], fetches'[ids[i]])
  BY <1>3, <1>4, <1>6 DEF Undisturbed
<1>7. ASSUME NEW i \in DOMAIN ids, Served(i), Undisturbed(ids[i])
      PROVE  ids[i] \in DOMAIN fetches' /\ HasAll(ids[i], fetches'[ids[i]])
  <2>1. ids[i] \in DOMAIN fetches /\ HasAll(ids[i], fetches[ids[i]])
    BY <1>1, <1>7 DEF Earlier
  <2>2. /\ DOMAIN ids \subseteq Nat /\ Message(ids[i]) \in All
        /\ \A j, k \in DOMAIN ids : Message(ids[j]) = Message(ids[k]) => j = k
    BY <1>1, IdsProperties
  <2>3. ids[i] \notin DOMAIN map
    <3> SUFFICES ASSUME ids[i] \in DOMAIN map PROVE FALSE
      OBVIOUS
    <3>1. CASE IsCurrent(Message(ids[i]))
      <4>1. PICK j \in DOMAIN ids : CurrentAt(j) /\ Message(ids[i]) = Message(ids[j])
        BY <3>1 DEF IsCurrent
      <4>2. InChunk(i, round)
        BY <1>7, <2>2, <4>1 DEF CurrentAt, Served
      <4>3. (round - 1) * ChunkLen \in Int
        BY <1>1, Numbers
      <4> QED
        BY <1>7, <2>2, <4>2, <4>3 DEF InChunk, Served
    <3>2. CASE volunteered[Message(ids[i])] = round
      <4>1. PICK k \in 1..Len(ids) : IsFetchedIn(ids[i], k) /\ round <= k
        BY <1>7, <3>2 DEF Undisturbed
      <4>2. PICK j \in DOMAIN ids : ids[j] = ids[i] /\ InChunk(j, k)
        BY <1>7, <4>1 DEF IsFetchedIn, Served
      <4>3. j = i /\ k \in Nat
        BY <2>2, <4>2, IdsProperties, <1>1
      <4>4. (k - 1) * ChunkLen < i /\ i <= (round - 1) * ChunkLen
        BY <1>7, <4>2, <4>3 DEF InChunk, Served
      <4>5. (k - 1) * ChunkLen \in Int /\ (round - 1) * ChunkLen \in Int
        BY <1>1, <4>3, Numbers
      <4>6. (k - 1) * ChunkLen < (round - 1) * ChunkLen
        BY <2>2, <4>4, <4>5
      <4>7. k - 1 < round - 1
        BY <1>1, <4>3, <4>6, ProductOrder
      <4> QED
        BY <1>1, <4>1, <4>3, <4>7
    <3> QED
      BY <1>4, <3>1, <3>2
  <2> QED
    BY <1>3, <2>1, <2>3
<1> QED
  BY <1>5, <1>6, <1>7

-----------------------------------------------------------------------------
(* The end of a FETCH *)

LEMMA FetchedAllKeeps == SortInv /\ FetchedAll => SortInv'
<1> SUFFICES ASSUME SortInv, FetchedAll PROVE SortInv'
  OBVIOUS
<1>1. /\ op = "fetch" /\ Fetched /\ pending = "fetch" /\ pending' = "ok"
      /\ UNCHANGED <<present, view, uid, ids, names, round, volunteered, renumbered,
                     ext_sort_supported, op, criteria, attr, sorted>>
  BY DEF FetchedAll, Fetched, mailboxVars, callVars, sortVars
<1>2. Base /\ Unsorted
  BY DEF SortInv
<1>3. Base'
  BY <1>1, <1>2 DEF Base, Known, Once
<1>4. Stages' /\ Unsorted'
  BY <1>1, <1>2 DEF Stages, Unsorted
<1>5. /\ Known' = Known /\ Items' = Items
      /\ \A id : Message(id)' = Message(id)
      /\ \A id : Undisturbed(id)' <=> Undisturbed(id)
  BY <1>1 DEF Known, Items, Message, Undisturbed, IsFetchedIn, FetchItems, SortItems
<1>6. /\ \A id \in DOMAIN fetches' : IsEntry(id, fetches'[id])
      /\ \A i \in DOMAIN ids : Undisturbed(ids[i]) =>
            ids[i] \in DOMAIN fetches' /\ HasAll(ids[i], fetches'[ids[i]])
  BY <1>1, FetchedProperties DEF CurrentAt
<1>7. Entries'
  BY <1>1, <1>5, <1>6 DEF Entries, IsEntry
<1>8. Result'
  BY <1>1, <1>5, <1>6 DEF Result, HasAll, FetchFirstMatches
<1> QED
  BY <1>1, <1>3, <1>4, <1>7, <1>8 DEF SortInv, Collected, Complete, Earlier

LEMMA FetchedFirstKeeps == SortInv /\ FetchedFirst /\ UNCHANGED sortVars => SortInv'
<1> SUFFICES ASSUME SortInv, FetchedFirst, UNCHANGED sortVars PROVE SortInv'
  OBVIOUS
<1> USE DEF sortVars
<1>1. /\ pending = "first" /\ pending' \in {"ok", "error"} /\ fetches' = output
      /\ UNCHANGED <<present, view, uid, ids, names, round, volunteered, renumbered>>
  BY DEF FetchedFirst, mailboxVars, callVars
<1>2. /\ Base /\ Unsorted /\ Collected /\ op = "fetch_first" /\ round > 0 /\ Len(ids) = 1
  BY <1>1 DEF SortInv, Stages
<1>3. Base'
  BY <1>1, <1>2 DEF Base, Known, Once
<1>4. Stages' /\ Unsorted'
  BY <1>1, <1>2 DEF Stages, Unsorted
<1>5. ASSUME NEW item \in UNION Range(output)
      PROVE  item[2] = Message(ids[1]) \/ volunteered[item[2]] > 0
  <2>1. PICK q \in DOMAIN output : item \in output[q]
    BY DEF Range
  <2>2. IsItem(item)
    BY <1>1, <1>2, <2>1 DEF Collected
  <2>3. \A i \in DOMAIN ids : i = 1
    BY <1>2, IdsProperties
  <2> QED
    BY <1>2, <2>2, <2>3 DEF IsItem, IsCurrent
<1>6. FetchFirstMatches'
  BY <1>1, <1>5 DEF FetchFirstMatches, Message
<1> QED
  BY <1>1, <1>2, <1>3, <1>4, <1>6
     DEF SortInv, Collected, Complete, Entries, Earlier, Result

\* The next chunk is fetched, or the result made of what was fetched in n rounds.
LEMMA NextChunkKeeps ==
    ASSUME Base, op = "sort", sorted = <<>>, NEW n \in Nat, n = round,
           ids' \in Seq(Known), Once(ids'), NextChunk,
           UNCHANGED <<present, view, uid, volunteered, renumbered, ext_sort_supported, op,
                       criteria>>,
           (\A id \in DOMAIN fetches : IsEntry(id, fetches[id]))',
           (\A i \in DOMAIN ids : i <= n * ChunkLen /\ Undisturbed(ids[i]) =>
                ids[i] \in DOMAIN fetches /\ HasAll(ids[i], fetches[ids[i]]))'
    PROVE  SortInv'
<1>1. Known' = Known /\ Items' = FetchItems /\ FetchItems' = FetchItems
  BY DEF Known, Items, FetchItems, SortItems
<1>2. DOMAIN ids' = 1..Len(ids') /\ Len(ids') \in Nat
  OBVIOUS
<1>3. CASE MoreChunks
  <2>1. /\ names' = FetchItems \cup (IF uid THEN {"uid"} ELSE {})
        /\ todo' = names' \X Named(Chunk(n + 1), uid) /\ output' = Nothing
        /\ round' = n + 1 /\ pending' = "fetch" /\ UNCHANGED <<attr, sorted>>
    BY <1>3 DEF NextChunk, _fetch, SendFetch
  <2>2. Base'
    <3>1. \A m \in All : volunteered'[m] <= round'
      BY <2>1 DEF Base
    <3> QED
      BY <1>1, <2>1, <3>1 DEF Base, Once
  <2>3. Stages' /\ Unsorted'
    BY <1>1, <2>1 DEF Stages, Unsorted
  <2>4. AtStart'
    <3>1. {ids[i] : i \in {i \in DOMAIN ids : CurrentAt(i)}}' = Chunk(n + 1)
      BY <2>1 DEF CurrentAt, Chunk, InChunk
    <3> QED
      BY <2>1, <3>1 DEF AtStart, Named
  <2>5. Collected' /\ Complete'
    BY <2>2, <2>4, StartIsRight, PTL
  <2>6. Entries'
    BY DEF Entries
  <2>7. Earlier'
    <3>1. \A i : Served(i)' => i <= n * ChunkLen
      BY <2>1 DEF Served
    <3> QED
      BY <3>1 DEF Earlier
  <2>8. Result'
    BY <2>1 DEF Result, FetchFirstMatches
  <2> QED
    BY <2>2, <2>3, <2>5, <2>6, <2>7, <2>8 DEF SortInv
<1>4. CASE ~MoreChunks
  <2>1. /\ pending' = "ok" /\ UNCHANGED <<names, round>>
        /\ attr' \in IF ext_sort_supported THEN {attr} ELSE Attributes
        /\ sorted' \in IF ext_sort_supported THEN InIdsOrder(fetches', ids')
                                             ELSE InSortOrder(fetches', attr', criteria)
    BY <1>4 DEF NextChunk
  <2>2. Base'
    BY <1>1, <2>1 DEF Base, Once
  <2>3. Stages' /\ Unsorted'
    BY <2>1 DEF Stages, Unsorted
  <2>4. \A i \in DOMAIN ids' : i <= n * ChunkLen
    BY <1>2, <1>4, Numbers DEF MoreChunks
  <2>5. Result'
    <3>1. (\A i \in DOMAIN ids : Undisturbed(ids[i]) =>
             ids[i] \in DOMAIN fetches /\ HasAll(ids[i], fetches[ids[i]]))'
      BY <2>4
    <3> QED
      BY <2>1, <3>1 DEF Result, FetchFirstMatches
  <2>6. Entries'
    BY DEF Entries
  <2> QED
    BY <2>1, <2>2, <2>3, <2>5, <2>6 DEF SortInv, Collected, Complete, Earlier
<1> QED
  BY <1>3, <1>4

LEMMA FoundKeeps == SortInv /\ Found => SortInv'
<1> SUFFICES ASSUME SortInv, Found PROVE SortInv'
  OBVIOUS
<1>1. /\ op = "sort" /\ pending = "search" /\ NextChunk /\ fetches' = fetches
      /\ UNCHANGED <<present, view, uid, volunteered, renumbered, ext_sort_supported, op,
                     criteria>>
  BY DEF Found, mailboxVars
<1>2. /\ Base /\ sorted = <<>> /\ round = 0 /\ fetches = Nothing
  BY <1>1 DEF SortInv, Stages, Unsorted
<1>3. PICK S \in SUBSET Ids : ids' \in Orders(S) \/ ids' \in InOrder(S)
  BY DEF Found
<1>4. ids' \in Seq(Known) /\ Once(ids')
  BY <1>2, <1>3, IdsKnown
<1>5. (\A id \in DOMAIN fetches : IsEntry(id, fetches[id]))'
  BY <1>1, <1>2 DEF Nothing
<1>6. (\A i \in DOMAIN ids : i <= 0 * ChunkLen /\ Undisturbed(ids[i]) =>
         ids[i] \in DOMAIN fetches /\ HasAll(ids[i], fetches[ids[i]]))'
  <2>1. \A i \in DOMAIN ids' : ~(i <= 0 * ChunkLen)
    BY <1>4, Numbers
  <2> QED
    BY <2>1
<1> QED
  BY <1>1, <1>2, <1>4, <1>5, <1>6, NextChunkKeeps

LEMMA FetchedChunkKeeps == SortInv /\ FetchedChunk => SortInv'
<1> SUFFICES ASSUME SortInv, FetchedChunk PROVE SortInv'
  OBVIOUS
<1>1. /\ op = "sort" /\ Fetched /\ pending = "fetch" /\ NextChunk /\ ids' = ids
      /\ UNCHANGED <<present, view, uid, volunteered, renumbered, ext_sort_supported, op,
                     criteria>>
  BY DEF FetchedChunk, Fetched, mailboxVars
<1>2. /\ Base /\ sorted = <<>>
  BY <1>1 DEF SortInv, Unsorted
<1>3. PICK n \in Nat : n = round
  BY <1>2 DEF Base
<1>4. ids' \in Seq(Known) /\ Once(ids')
  BY <1>1, <1>2 DEF Base, Once
<1>5. /\ Known' = Known /\ Items' = Items
      /\ \A id : Message(id)' = Message(id)
      /\ \A id : Undisturbed(id)' <=> Undisturbed(id)
  BY <1>1 DEF Known, Items, Message, Undisturbed, IsFetchedIn, FetchItems, SortItems
<1>6. /\ \A id \in DOMAIN fetches' : IsEntry(id, fetches'[id])
      /\ \A i \in DOMAIN ids : (CurrentAt(i) \/ Served(i)) /\ Undisturbed(ids[i]) =>
            ids[i] \in DOMAIN fetches' /\ HasAll(ids[i], fetches'[ids[i]])
  BY <1>1, FetchedProperties
<1>7. (\A id \in DOMAIN fetches : IsEntry(id, fetches[id]))'
  BY <1>1, <1>5, <1>6 DEF IsEntry
<1>8. (\A i \in DOMAIN ids : i <= n * ChunkLen /\ Undisturbed(ids[i]) =>
         ids[i] \in DOMAIN fetches /\ HasAll(ids[i], fetches[ids[i]]))'
  <2>1. ASSUME NEW i \in DOMAIN ids, i <= n * ChunkLen PROVE CurrentAt(i) \/ Served(i)
    <3>1. i \in Nat /\ (round - 1) * ChunkLen \in Int
      BY <1>2, <1>3, Numbers, IdsProperties
    <3> QED
      BY <1>1, <1>3, <2>1, <3>1 DEF CurrentAt, Served, InChunk
  <2> QED
    BY <1>1, <1>5, <1>6, <2>1 DEF HasAll
<1> QED
  BY <1>1, <1>2, <1>3, <1>4, <1>7, <1>8, NextChunkKeeps

-----------------------------------------------------------------------------
(* The theorems *)

LEMMA StutterSort == SortInv /\ UNCHANGED vars => SortInv'
<1> SUFFICES ASSUME SortInv, UNCHANGED vars PROVE SortInv'
  OBVIOUS
<1> USE DEF vars
<1>1. /\ Known' = Known /\ Items' = Items
      /\ \A id : Message(id)' = Message(id)
      /\ \A i : CurrentAt(i)' <=> CurrentAt(i)
      /\ \A i : Served(i)' <=> Served(i)
      /\ \A id : Undisturbed(id)' <=> Undisturbed(id)
  BY DEF Known, Items, FetchItems, SortItems, Message, CurrentAt, InChunk, Served, Undisturbed,
         IsFetchedIn
<1>2. /\ \A m : IsCurrent(m)' <=> IsCurrent(m)
      /\ \A id, x : HasAll(id, x)' <=> HasAll(id, x)
      /\ \A id, x : IsEntry(id, x)' <=> IsEntry(id, x)
  BY <1>1 DEF IsCurrent, HasAll, IsEntry
<1>3. Base' /\ Stages' /\ Unsorted'
  BY <1>1 DEF SortInv, Base, Once, Stages, Unsorted
<1>4. Collected'
  BY <1>2 DEF SortInv, Collected, IsItem
<1>5. Complete'
  BY <1>1 DEF SortInv, Complete
<1>6. Entries' /\ Earlier'
  BY <1>1, <1>2 DEF SortInv, Entries, Earlier
<1>7. Result'
  BY <1>1, <1>2 DEF SortInv, Result, FetchFirstMatches
<1> QED
  BY <1>3, <1>4, <1>5, <1>6, <1>7 DEF SortInv

LEMMA NextSort == SortInv /\ [Next]_vars => SortInv'
<1> SUFFICES ASSUME SortInv, [Next]_vars PROVE SortInv'
  OBVIOUS
<1>1. CASE Server /\ UNCHANGED sortVars
  BY <1>1, GiveKeeps, VolunteerKeeps, OtherExpungesKeeps, ReportExpungedKeeps, TaggedNoKeeps
     DEF Server
<1> QED
  BY <1>1, CallFetchKeeps, CallFetchFirstKeeps, CallSortKeeps, FoundKeeps, FetchedChunkKeeps,
     FetchedAllKeeps, FetchedFirstKeeps, StutterSort DEF Next

THEOREM SortInvariance == Spec => []SortInv
BY InitSort, NextSort, PTL DEF Spec

\* An entry of what fetch or sort_or_fallback makes is about the message it stands
\* under, for any mailbox, however the server cuts up and mixes its answers.
THEOREM EntriesAreTheirsHolds == Spec => []EntriesAreTheirs
<1>1. SortInv => EntriesAreTheirs
  BY DEF SortInv, Entries, IsEntry, EntriesAreTheirs
<1> QED
  BY <1>1, SortInvariance, PTL

\* What a call to fetch_first returns is about the message asked for, or volunteered.
THEOREM FetchFirstMatchesHolds == Spec => []FetchFirstMatches
<1>1. SortInv => FetchFirstMatches
  BY DEF SortInv, Result
<1> QED
  BY <1>1, SortInvariance, PTL

\* Nothing that was asked for or found is lost over any number of chunks of any length.
THEOREM NothingForgottenHolds == Spec => []NothingForgotten
<1>1. SortInv => NothingForgotten
  <2> SUFFICES ASSUME SortInv, pending = "ok", op # "fetch_first", NEW id \in Range(ids),
                      Undisturbed(id)
               PROVE  id \in Returned /\ Asked \X {Message(id)} \subseteq fetches[id]
    BY DEF NothingForgotten
  <2>1. PICK i \in DOMAIN ids : ids[i] = id
    BY DEF Range
  <2>2. id \in DOMAIN fetches /\ HasAll(id, fetches[id])
    BY <2>1 DEF SortInv, Result
  <2>3. Asked \subseteq Items
    BY DEF Items, FetchItems, SortItems
  <2>4. id \in Returned
    <3>1. ASSUME op = "sort" PROVE Range(sorted) \in {DOMAIN fetches, DOMAIN fetches \cap Range(ids)}
      <4>1. sorted \in IF ext_sort_supported THEN InIdsOrder(fetches, ids)
                                             ELSE InSortOrder(fetches, attr, criteria)
        BY <3>1 DEF SortInv, Result
      <4> QED
        BY <4>1 DEF InIdsOrder, InSortOrder, Orders
    <3> QED
      BY <2>2, <3>1 DEF Returned
  <2> QED
    BY <2>2, <2>3, <2>4 DEF HasAll
<1> QED
  BY <1>1, SortInvariance, PTL

\* Nothing is made up, and on the way of SORT its order is kept.
THEOREM NothingInventedHolds == Spec => []NothingInvented
<1>1. SortInv => NothingInvented
  <2> SUFFICES ASSUME SortInv, pending = "ok", op # "fetch_first"
               PROVE  NothingInvented
    BY DEF NothingInvented
  <2>1. op = "sort" => sorted \in IF ext_sort_supported THEN InIdsOrder(fetches, ids)
                                  ELSE InSortOrder(fetches, attr, criteria)
    BY DEF SortInv, Result
  <2>2. Returned \subseteq DOMAIN fetches
    BY <2>1 DEF Returned, InIdsOrder, InSortOrder, Orders
  <2>3. \A id \in Returned : id \in Range(ids) \/ volunteered[Message(id)] > 0
    BY <2>2 DEF SortInv, Entries, IsEntry
  <2>4. op = "sort" /\ ext_sort_supported =>
          \A i, j \in DOMAIN sorted : i < j => Precedes(ids, sorted[i], sorted[j])
    BY <2>1 DEF InIdsOrder
  <2> QED
    BY <2>3, <2>4 DEF NothingInvented
<1> QED
  BY <1>1, SortInvariance, PTL

\* A key that both ways compare is read from the item of the message itself.
LEMMA ReadsItsOwn ==
    ASSUME SortInv, pending = "ok", op = "sort", ~ext_sort_supported,
           NEW id \in DOMAIN fetches, Undisturbed(id),
           NEW w \in Values(fetches[id], attr), NEW k \in DOMAIN criteria,
           criteria[k].key \in {"size", "arrival"} \cap Varying
    PROVE  w[criteria[k].key] = attr[Message(id)][criteria[k].key]
<1> DEFINE key == criteria[k].key
           m == Message(id)
<1>1. PICK i \in DOMAIN ids : ids[i] = id
  BY DEF Undisturbed, IsFetchedIn
<1>2. HasAll(id, fetches[id]) /\ m \in All
  BY <1>1, IdsProperties DEF SortInv, Result
<1>3. ItemOf[key] \in Items
  <2>1. key \in DOMAIN ItemOf
    BY DEF ItemOf, Keys
  <2> QED
    BY <2>1 DEF Items, FetchItems, SortItems
<1>4. \A item \in fetches[id] : item[2] = m
  BY DEF SortInv, Entries, IsEntry, Undisturbed
<1> DEFINE of == {n \in All : <<ItemOf[key], n>> \in fetches[id]}
<1>5. of = {m}
  <2>1. m \in of
    BY <1>2, <1>3 DEF HasAll
  <2>2. ASSUME NEW n \in of PROVE n = m
    <3>1. <<ItemOf[key], n>>[2] = m
      BY <1>4, <2>2
    <3> QED
      BY <3>1
  <2> QED
    BY <2>1, <2>2
<1>6. w[key] \in {attr[n][key] : n \in of}
  <2>1. key \in Compared
    BY DEF Compared, Addresses
  <2> QED
    BY <1>5, <2>1 DEF Values
<1> HIDE DEF of, key, m
<1>7. PICK n \in of : w[key] = attr[n][key]
  BY <1>6
<1>8. w[key] = attr[m][key]
  BY <1>5, <1>7
<1> QED
  BY <1>8 DEF key, m

\* The fallback orders messages as SORT does, by the keys both compare, for any
\* criteria, any values and any number of chunks.
THEOREM AgreesWithSortHolds == Spec => []AgreesWithSort
<1>1. SortInv => AgreesWithSort
  <2> SUFFICES ASSUME SortInv, pending = "ok",
                      NEW i \in DOMAIN sorted, NEW j \in DOMAIN sorted, i < j,
                      Undisturbed(sorted[i]), Undisturbed(sorted[j]),
                      SortPutsAfter(Message(sorted[i]), Message(sorted[j]))
               PROVE  FALSE
    BY DEF AgreesWithSort
  <2>1. PICK k \in DOMAIN criteria :
          /\ \A l \in 1..k : criteria[l].key \in {"size", "arrival"} \cap Varying
          /\ \A l \in 1..(k - 1) : attr[Message(sorted[i])][criteria[l].key] =
                                   attr[Message(sorted[j])][criteria[l].key]
          /\ IF criteria[k].reverse
             THEN attr[Message(sorted[i])][criteria[k].key] <
                  attr[Message(sorted[j])][criteria[k].key]
             ELSE attr[Message(sorted[j])][criteria[k].key] <
                  attr[Message(sorted[i])][criteria[k].key]
    BY DEF SortPutsAfter
  <2>2. op = "sort" /\ ~ext_sort_supported
    BY <2>1 DEF SortInv, Unsorted, Base
  <2>3. PICK v :
          /\ \A id \in DOMAIN fetches : v[id] \in Values(fetches[id], attr)
          /\ sorted \in Orders(DOMAIN fetches)
          /\ \A a, b \in DOMAIN sorted :
                a < b => ~Before(criteria, v[sorted[b]], v[sorted[a]])
    <3>1. sorted \in InSortOrder(fetches, attr, criteria)
      BY <2>2 DEF SortInv, Result
    <3> QED
      BY <3>1 DEF InSortOrder
  <2>4. sorted[i] \in DOMAIN fetches /\ sorted[j] \in DOMAIN fetches
    BY <2>3 DEF Orders
  <2>5. /\ criteria \in Seq([key : Keys, reverse : BOOLEAN]) /\ k \in 1..Len(criteria)
        /\ 1..k \subseteq DOMAIN criteria /\ k \in 1..k
        /\ 1..(k - 1) \subseteq 1..k
        /\ attr \in [All -> [Varying -> {1, 2}]]
    <3>1. criteria \in Seq([key : Keys, reverse : BOOLEAN])
      <4>1. <<>> \in Seq([key : Keys, reverse : BOOLEAN])
        OBVIOUS
      <4>2. criteria \in Criteria \/ criteria = <<>>
        BY DEF SortInv, Base
      <4> QED
        BY <4>1, <4>2, SortAssumption
    <3> QED
      BY <3>1, SortAssumption DEF SortInv, Base, All
  <2>6. \A l \in 1..k : v[sorted[i]][criteria[l].key] = attr[Message(sorted[i])][criteria[l].key]
    BY <2>1, <2>2, <2>3, <2>4, <2>5, ReadsItsOwn
  <2>7. \A l \in 1..k : v[sorted[j]][criteria[l].key] = attr[Message(sorted[j])][criteria[l].key]
    BY <2>1, <2>2, <2>3, <2>4, <2>5, ReadsItsOwn
  <2>8. Before(criteria, v[sorted[j]], v[sorted[i]])
    <3>1. \A l \in 1..(k - 1) : v[sorted[j]][criteria[l].key] = v[sorted[i]][criteria[l].key]
      BY <2>1, <2>5, <2>6, <2>7
    <3>2. Less(criteria[k], v[sorted[j]], v[sorted[i]])
      BY <2>1, <2>5, <2>6, <2>7 DEF Less
    <3>3. criteria[k].key \in Varying /\ criteria[k].key \in Compared
      BY <2>1, <2>5 DEF Compared, Addresses
    <3>4. v[sorted[j]][criteria[k].key] # v[sorted[i]][criteria[k].key]
      <4>1. \A l \in {i, j} : Message(sorted[l]) \in All
        BY DEF Undisturbed, SortInv, Base
      <4>2. /\ attr[Message(sorted[i])][criteria[k].key] \in {1, 2}
            /\ attr[Message(sorted[j])][criteria[k].key] \in {1, 2}
        BY <2>5, <3>3, <4>1
      <4> QED
        BY <2>1, <2>5, <2>6, <2>7, <4>2
    <3> QED
      BY <3>1, <3>2, <3>3, <3>4 DEF Before
  <2> QED
    BY <2>3, <2>8
<1> QED
  BY <1>1, SortInvariance, PTL
=============================================================================
