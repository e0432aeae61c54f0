---------------------------- MODULE SortFallback ----------------------------
(***************************************************************************)
(* One call of fetch, fetch_first or sort_or_fallback, or of its uid_      *)
(* variant (src/src/client/tokio.rs).  sort_or_fallback makes the server   *)
(* sort where it can; elsewhere it searches, fetches what it has to        *)
(* compare in chunks, and sorts by itself.                                 *)
(***************************************************************************)
EXTENDS Fetch

CONSTANTS
    Criteria,   \* the sort criteria that programs pass: sequences of [key, reverse]
    Varying,    \* the sort keys that messages differ in
    Attributes, \* how they may differ: for each message, the value of each key
    ChunkLen    \* MAX_SEQUENCE_SIZE, 255

Keys == {"arrival", "cc", "date", "from", "size", "subject", "to", "displayfrom", "displayto"}

ASSUME SortAssumption ==
    /\ Criteria \subseteq Seq([key : Keys, reverse : BOOLEAN])
    /\ Varying \subseteq Keys /\ Attributes # {}
    /\ Attributes \subseteq [Range(Messages) -> [Varying -> {1, 2}]] /\ ChunkLen \in Nat \ {0}

VARIABLES
    ext_sort_supported,
    op,         \* the call: fetch, fetch_first or sort
    criteria,   \* its sort criteria
    attr,       \* what the messages are like, chosen when it first matters
    sorted      \* the ids of what sort returns, in order

sortVars == <<ext_sort_supported, op, criteria, attr, sorted>>
vars == <<present, view, uid, pending, ids, round, names, todo, output, fetches, volunteered,
          renumbered, ext_sort_supported, op, criteria, attr, sorted>>

Init ==
    /\ FetchInit /\ ext_sort_supported \in BOOLEAN
    /\ op = "none" /\ criteria = <<>> /\ sorted = <<>>
    /\ attr = CHOOSE a \in Attributes : TRUE

-----------------------------------------------------------------------------
(* Calls *)

\* The ids a program may know: those of the messages in its view.
Ids == IF uid THEN Range(view) ELSE DOMAIN view

CallFetch ==
    /\ op = "none" /\ op' = "fetch" /\ pending' = "fetch"
    /\ \E S \in SUBSET Ids \ {{}} :
          /\ ids' \in InOrder(S) /\ _fetch(S, Asked)
    /\ UNCHANGED <<mailboxVars, uid, fetches, volunteered, renumbered, ext_sort_supported,
                   criteria, attr, sorted>>

CallFetchFirst ==
    /\ op = "none" /\ op' = "fetch_first" /\ pending' = "first"
    /\ \E id \in Ids : ids' = <<id>> /\ _fetch_first(id)
    /\ UNCHANGED <<mailboxVars, uid, fetches, volunteered, renumbered, ext_sort_supported,
                   criteria, attr, sorted>>

\* SORT or SEARCH is sent.  (The server does the rest with the criteria of a SORT.)
CallSort ==
    /\ op = "none" /\ op' = "sort" /\ pending' = "search"
    /\ criteria' \in IF ext_sort_supported THEN {<<>>} ELSE Criteria
    /\ UNCHANGED <<mailboxVars, uid, ids, round, names, todo, output, fetches, volunteered,
                   renumbered, ext_sort_supported, attr, sorted>>

-----------------------------------------------------------------------------
(* _sort_or_fallback *)

\* A slip: the items are compared without having been asked for.
SortItems_None == Asked

\* The item a key is read from; the display names are not compared.
ItemOf == [key \in Keys \ {"displayfrom", "displayto"} |->
             CASE key = "arrival" -> "internaldate"
               [] key = "size" -> "size"
               [] OTHER -> "envelope"]

SortItems == Asked \cup {ItemOf[criteria[i].key] :
                           i \in {i \in DOMAIN criteria : criteria[i].key \in DOMAIN ItemOf}}

FetchItems == IF ext_sort_supported THEN Asked ELSE SortItems

InChunk(i, k) == (k - 1) * ChunkLen < i /\ i <= k * ChunkLen
Chunk(k) == {ids'[i] : i \in {i \in DOMAIN ids' : InChunk(i, k)}}
MoreChunks == round * ChunkLen < Len(ids')

\* To cmp_fetch_items addresses are all equal.
Addresses == {"cc", "from", "to", "displayfrom", "displayto"}
Compared == Varying \ Addresses

\* What cmp_fetch_items reads of an entry: the first item of the kind, which may
\* be that of any message where the entry has items of several.  No item comes
\* before all.
Values(items, likes) ==
    LET of(key) == {m \in All : <<ItemOf[key], m>> \in items}
    IN  {v \in [Compared -> 0..2] :
           \A key \in Compared : v[key] \in IF of(key) = {} THEN {0}
                                           ELSE {likes[m][key] : m \in of(key)}}

Less(c, a, b) == IF c.reverse THEN b[c.key] < a[c.key] ELSE a[c.key] < b[c.key]

\* An entry with the values a goes before one with b: the first criterion of by that
\* tells them apart decides, or else the date.
Before(by, a, b) ==
    LET differs(k) == by[k].key \in Compared /\ a[by[k].key] # b[by[k].key]
    IN  IF \E k \in DOMAIN by : differs(k)
        THEN \E k \in DOMAIN by : /\ differs(k) /\ Less(by[k], a, b)
                                  /\ \A j \in 1..(k - 1) : ~differs(j)
        ELSE "date" \in Compared /\ a["date"] < b["date"]

\* A slip: the entries of the map are returned in the order they happen to have.
InIdsOrder_Not(map, list) == Orders(DOMAIN map \cap Range(list))

Precedes(list, x, y) == \E k, l \in DOMAIN list : k < l /\ list[k] = x /\ list[l] = y

\* What the server sorted stays in its order.
InIdsOrder(map, list) ==
    {s \in Orders(DOMAIN map \cap Range(list)) :
       \A i, j \in DOMAIN s : i < j => Precedes(list, s[i], s[j])}

\* The values of the map, sorted.
InSortOrder(map, likes, by) ==
    LET may == [id \in DOMAIN map |-> Values(map[id], likes)]
        reads == {v \in [DOMAIN map -> UNION Range(may)] :
                    \A id \in DOMAIN map : v[id] \in may[id]}
    IN  UNION {{s \in Orders(DOMAIN map) :
                  \A i, j \in DOMAIN s : i < j => ~Before(by, v[s[j]], v[s[i]])} : v \in reads}

\* The next chunk is fetched, or, when there is none, the result made.
NextChunk ==
    IF MoreChunks
    THEN /\ _fetch(Chunk(round + 1), FetchItems) /\ pending' = "fetch"
         /\ UNCHANGED <<attr, sorted>>
    ELSE /\ pending' = "ok" /\ todo' = {} /\ output' = Nothing /\ UNCHANGED <<names, round>>
         /\ attr' \in IF ext_sort_supported THEN {attr} ELSE Attributes
         /\ sorted' \in IF ext_sort_supported THEN InIdsOrder(fetches', ids')
                                           ELSE InSortOrder(fetches', attr', criteria)

\* SORT or SEARCH is answered: with any messages, in any order after SORT.  (Of the
\* order of a SEARCH only the chunks depend: it is that of the mailbox.)
Found ==
    /\ op = "sort" /\ pending = "search"
    /\ \E S \in SUBSET {id \in Ids : Message(id) \in present} :
          ids' \in IF ext_sort_supported THEN Orders(S) ELSE InOrder(S)
    /\ UNCHANGED fetches
    /\ NextChunk
    /\ UNCHANGED <<mailboxVars, uid, volunteered, renumbered, ext_sort_supported, op, criteria>>

FetchedChunk ==
    /\ op = "sort" /\ Fetched /\ UNCHANGED ids
    /\ NextChunk
    /\ UNCHANGED <<mailboxVars, uid, volunteered, renumbered, ext_sort_supported, op, criteria>>

FetchedAll ==
    /\ op = "fetch" /\ Fetched /\ pending' = "ok" /\ todo' = {} /\ output' = Nothing
    /\ UNCHANGED <<mailboxVars, callVars, round, volunteered, renumbered, sortVars>>

Next ==
    \/ CallFetch
    \/ CallFetchFirst
    \/ CallSort
    \/ Found
    \/ FetchedChunk
    \/ FetchedAll
    \/ FetchedFirst /\ UNCHANGED sortVars
    \/ Server /\ UNCHANGED sortVars

Spec == Init /\ [][Next]_vars

-----------------------------------------------------------------------------
(* Properties *)

Returned == IF op = "sort" THEN Range(sorted) ELSE DOMAIN fetches

\* The k-th FETCH of the call is, among others, about id.
IsFetchedIn(id, k) == \E i \in DOMAIN ids : ids[i] = id /\ IF op = "sort" THEN InChunk(i, k)
                                                                        ELSE k = 1

\* What came of id has no excuse: its message is still there, no EXPUNGE came
\* between the FETCH responses, no FETCH of a later chunk was volunteered for it.
Undisturbed(id) ==
    /\ Message(id) \in present /\ ~renumbered
    /\ \E k \in 1..Len(ids) : IsFetchedIn(id, k) /\ volunteered[Message(id)] <= k

\* An entry of the map is about the message of its key: all the items in it are,
\* unless the server renumbered while it answered, and even then the UID is.
EntriesAreTheirs ==
    pending = "ok" /\ op # "fetch_first" =>
      \A id \in DOMAIN fetches :
        /\ renumbered \/ \A item \in fetches[id] : item[2] = Message(id)
        /\ uid => <<"uid", id>> \in fetches[id]

\* Of every message asked for or found there are all the items asked for, however
\* the server cuts up and mixes its answers, unless it was disturbed.
NothingForgotten ==
    pending = "ok" /\ op # "fetch_first" =>
      \A id \in Range(ids) :
        Undisturbed(id) => /\ id \in Returned
                           /\ Asked \X {Message(id)} \subseteq fetches[id]

\* Nothing else is returned, but for messages the server volunteered; and on the
\* way of SORT not even those, nor any message twice or out of the server's order.
NothingInvented ==
    /\ pending = "ok" /\ op # "fetch_first" =>
         \A id \in Returned : id \in Range(ids) \/ volunteered[Message(id)] > 0
    /\ pending = "ok" /\ op = "sort" /\ ext_sort_supported =>
         \A i, j \in DOMAIN sorted : i < j => Precedes(ids, sorted[i], sorted[j])

\* SORT (RFC 5256) puts message m after n by a criterion that both ways compare by
\* the same values, and no criterion before it tells them apart.
SortPutsAfter(m, n) ==
    \E k \in DOMAIN criteria :
      /\ \A j \in 1..k : criteria[j].key \in {"size", "arrival"} \cap Varying
      /\ \A j \in 1..(k - 1) : attr[m][criteria[j].key] = attr[n][criteria[j].key]
      /\ IF criteria[k].reverse THEN attr[m][criteria[k].key] < attr[n][criteria[k].key]
                                ELSE attr[n][criteria[k].key] < attr[m][criteria[k].key]

\* The fallback agrees with SORT: of two messages that SORT would order by size or
\* arrival, the same one comes first, unless one of them was disturbed.
AgreesWithSort ==
    pending = "ok" =>
      \A i, j \in DOMAIN sorted :
        i < j /\ Undisturbed(sorted[i]) /\ Undisturbed(sorted[j]) =>
          ~SortPutsAfter(Message(sorted[i]), Message(sorted[j]))

\* fetch_first returns items of the message asked for, unless the server
\* volunteered a FETCH of another one while it ran.
FetchFirstMatches ==
    pending = "ok" /\ op = "fetch_first" =>
      \A seq \in DOMAIN fetches, item \in UNION Range(fetches) :
        item[2] = Message(ids[1]) \/ volunteered[item[2]] > 0
=============================================================================
