-------------------------------- MODULE Fetch --------------------------------
(***************************************************************************)
(* FETCH as the client collects it: FetchTask and FetchFirstTask           *)
(* (src/src/tasks/tasks/fetch.rs) response by response, and Client::_fetch *)
(* (src/src/client/tokio.rs), which re-keys what FetchTask collected.      *)
(*                                                                         *)
(* A message is its UID.  An item is its name and the message it is about, *)
(* which the client sees of the UID item only.  The server and the other   *)
(* sessions are external: it answers in any order, cuts an answer into     *)
(* several responses, volunteers flags; they expunge.                      *)
(***************************************************************************)
EXTENDS Naturals, Sequences, FiniteSets, Functions

CONSTANTS
    Messages,      \* the messages of the mailbox, in order
    Asked,         \* the names of the items the program asks for
    MaxExpunged,   \* bound on the messages other sessions expunge
    MaxVolunteered \* bound on the FETCH responses nobody asked for

ASSUME MessagesAssumption == /\ Messages \in Seq(Nat \ {0})
                             /\ \A i, j \in DOMAIN Messages : i < j => Messages[i] < Messages[j]
ASSUME AskedAssumption == Asked # {}   \* IMAP has no FETCH of nothing
ASSUME FetchBoundsAssumption == MaxExpunged \in Nat /\ MaxVolunteered \in Nat

VARIABLES
    present,      \* the messages in the mailbox
    view,         \* the messages as this session numbers them
    uid,          \* is the call of the uid_ variant?
    pending,      \* the command awaited, or how the call ended
    ids,          \* the sequence numbers or UIDs the call is about
    round,        \* how many FETCH commands the call has made
    names,        \* the items it asks for
    todo,         \* the items the server has yet to give
    output,       \* the task's output: by sequence number, the items collected
    fetches,      \* the map of the call
    volunteered,  \* ghost: for each message, the last round that flags were volunteered in
    renumbered    \* ghost: was an EXPUNGE reported between two FETCH responses of a round?

mailboxVars == <<present, view>>
callVars == <<uid, ids, names>>
fetchVars == <<present, view, uid, pending, ids, round, names, todo, output, fetches,
               volunteered, renumbered>>

All == Range(Messages)

\* Maps: the empty one, one entry, f with the entries of g put in.
Nothing == <<>>
Entry(x, y) == [k \in {x} |-> y]
Extended(f, g) == [k \in DOMAIN f \cup DOMAIN g |-> IF k \in DOMAIN g THEN g[k] ELSE f[k]]

Orders(S) == {s \in [1..Cardinality(S) -> S] : Range(s) = S}

\* The one order of S that is ascending, as a set.
InOrder(S) == {s \in Orders(S) : \A i, j \in DOMAIN s : i < j => s[i] < s[j]}

FetchInit ==
    /\ present = All /\ view = Messages /\ uid \in BOOLEAN /\ pending = "none" /\ ids = <<>>
    /\ round = 0 /\ names = {} /\ todo = {} /\ output = Nothing /\ fetches = Nothing
    /\ volunteered = [m \in All |-> 0] /\ renumbered = FALSE

\* The message that an id of the call stands for.
Message(id) == IF uid THEN id ELSE view[id]

\* The messages a sequence set stands for on the server.
Named(set, byUid) == IF byUid THEN set \cap present
                     ELSE {view[i] : i \in set \cap DOMAIN view} \cap present

-----------------------------------------------------------------------------
(* The commands *)

\* A FETCH is sent, with a task of its own.
SendFetch(set, byUid, items) ==
    /\ todo' = items \X Named(set, byUid)
    /\ output' = Nothing /\ round' = round + 1

\* _fetch adds the UID item that it keys the answers by.
_fetch(set, items) ==
    /\ names' = items \cup (IF uid THEN {"uid"} ELSE {})
    /\ SendFetch(set, uid, names')

\* A slip: the task is left with its default, uid.
_fetch_first_Default(id) == names' = Asked /\ SendFetch({id}, TRUE, Asked)

_fetch_first(id) == names' = Asked /\ SendFetch({id}, uid, Asked)

-----------------------------------------------------------------------------
(* The tasks *)

\* A slip: a later FETCH takes the place of an earlier one.
process_data_Replace(seq, items) == output' = Extended(output, Entry(seq, items))

\* FetchTask merges the items that come under one sequence number.
process_data(seq, items) ==
    output' = IF seq \in DOMAIN output THEN [output EXCEPT ![seq] = @ \cup items]
                                       ELSE Extended(output, Entry(seq, items))

\* FetchFirstTask keeps the items of the last FETCH, whatever it is about.
process_data_first(seq, items) == output' = Entry(seq, items)

Received(seq, items) == IF pending = "first" THEN process_data_first(seq, items)
                                             ELSE process_data(seq, items)

\* A slip: what is collected by sequence number is returned as it is.
Rekeyed_Never == {output}

\* What _fetch may return: as collected, or keyed by the first UID item of each
\* entry.  Items are in no order, so any UID of an entry may come first; entries
\* are in no order, so any of those with one UID may come last.  An entry without
\* a UID is left out.
Rekeyed ==
    LET UidsOf(seq) == {m \in All : <<"uid", m>> \in output[seq]}
        known == {seq \in DOMAIN output : UidsOf(seq) # {}}
        picks == {p \in [known -> All] : \A seq \in known : p[seq] \in UidsOf(seq)}
        lasts(p) == {l \in [Range(p) -> known] : \A m \in Range(p) : p[l[m]] = m}
    IN  IF ~uid THEN {output}
        ELSE UNION {{[m \in Range(p) |-> output[l[m]]] : l \in lasts(p)} : p \in picks}

\* OK: all was given, but for what was expunged meanwhile.
TaggedOk == \A item \in todo : item[2] \notin present

\* The map of the call is extended with that of this FETCH.
Fetched ==
    /\ pending = "fetch" /\ TaggedOk
    /\ \E map \in Rekeyed : fetches' = Extended(fetches, map)

\* FetchFirstTask: without any FETCH the data are missing.
FetchedFirst ==
    /\ pending = "first" /\ TaggedOk
    /\ pending' = IF output = Nothing THEN "error" ELSE "ok"
    /\ fetches' = output
    /\ todo' = {} /\ output' = Nothing
    /\ UNCHANGED <<mailboxVars, callVars, round, volunteered, renumbered>>

-----------------------------------------------------------------------------
(* The server and the other sessions *)

\* A UID FETCH is answered with UIDs, whatever was asked for.
Give(m, items) ==
    /\ pending \in {"fetch", "first"}
    /\ m \in present /\ items # {}
    /\ \E seq \in DOMAIN view :
          /\ view[seq] = m
          /\ Received(seq, items \cup (IF uid THEN {<<"uid", m>>} ELSE {}))
    /\ todo' = todo \ items
    /\ UNCHANGED <<mailboxVars, callVars, pending, round, fetches, volunteered, renumbered>>

\* Another session changed the flags of m: the server may add the UID, or not.
Volunteer(m) ==
    /\ pending \in {"fetch", "first"}
    /\ m \in present /\ Cardinality({n \in All : volunteered[n] > 0}) < MaxVolunteered
    /\ \E seq \in DOMAIN view, known \in SUBSET {<<"uid", m>>} :
          /\ view[seq] = m
          /\ Received(seq, {<<"flags", m>>} \cup known)
    /\ volunteered' = [volunteered EXCEPT ![m] = round]
    /\ UNCHANGED <<mailboxVars, callVars, pending, round, todo, fetches, renumbered>>

OtherExpunges(m) ==
    /\ pending \in {"none", "search", "fetch", "first"}
    /\ m \in present /\ Cardinality(All \ present) < MaxExpunged
    /\ present' = present \ {m}
    /\ UNCHANGED <<view, uid, pending, ids, round, names, todo, output, fetches, volunteered,
                   renumbered>>

\* It is reported, and the messages renumbered, during UID commands only.
ReportExpunged ==
    /\ uid /\ pending \in {"search", "fetch", "first"}
    /\ Range(view) # present
    /\ view' \in InOrder(present)
    /\ renumbered' = (renumbered \/ output # Nothing)
    /\ UNCHANGED <<present, callVars, pending, round, todo, output, fetches, volunteered>>

\* NO or BAD: the call ends with the error, what was collected is dropped.
TaggedNo ==
    /\ pending \in {"search", "fetch", "first"} /\ pending' = "error"
    /\ todo' = {} /\ output' = Nothing /\ fetches' = Nothing
    /\ UNCHANGED <<mailboxVars, callVars, round, volunteered, renumbered>>

Server ==
    \/ \E m \in All : \/ \E items \in SUBSET (todo \cap names \X {m}) : Give(m, items)
                      \/ Volunteer(m)
                      \/ OtherExpunges(m)
    \/ ReportExpunged
    \/ TaggedNo
=============================================================================
