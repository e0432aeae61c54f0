--------------------------- MODULE AppendFallback ---------------------------
(***************************************************************************)
(* Client::appenduid_or_fallback (src/src/client/tokio.rs): APPEND with    *)
(* the UID in the answer where the server has UIDPLUS; otherwise SELECT,   *)
(* APPEND and, until the server says EXISTS, NOOP and CHECK, then SEARCH   *)
(* for the number it said.                                                 *)
(*                                                                         *)
(* A command is one step, as in MoveFallback.  Other sessions deliver and  *)
(* expunge messages between them.  The tasks take an EXISTS as the answer  *)
(* to their own command whatever it is about, the last one if several      *)
(* (AppendTask, PostAppendNoOpTask and PostAppendCheckTask in Tasks).      *)
(*                                                                         *)
(* A mailbox and a session's view of it are in ascending order of UID, so  *)
(* a set of UIDs stands for either: Number is the sequence number.         *)
(***************************************************************************)
EXTENDS Naturals, FiniteSets

CONSTANTS
    Mailbox,     \* the UIDs in the mailbox at first
    MaxUid       \* bound on the UIDs given out

ASSUME MailboxAssumption == MaxUid \in Nat /\ Mailbox \subseteq 1..MaxUid

VARIABLES
    ext_uidplus_supported,
    box,        \* the UIDs in the mailbox
    uidnext,    \* the next UID to be given out
    view,       \* the UIDs this session numbers
    old,        \* ghost: the UIDs there were at SELECT
    mine,       \* ghost: the UID of the appended message, 0 if there is none
    theirs,     \* ghost: the UIDs other sessions delivered
    pending,    \* the step the call is at, or how it ended: ok, missing (the
                \* MissingData of the last ok_or), error or panic
    seq,        \* the number the last EXISTS gave, as a set: empty if there was none
    result      \* what the call returned, 0 for None

boxVars == <<box, uidnext, view, old, mine, theirs>>
vars == <<ext_uidplus_supported, box, uidnext, view, old, mine, theirs, pending, seq, result>>

Init ==
    /\ ext_uidplus_supported \in BOOLEAN
    /\ box = Mailbox
    /\ uidnext \in {n \in 1..(MaxUid + 1) : \A m \in Mailbox : m < n}
    /\ view = {} /\ old = {} /\ mine = 0 /\ theirs = {}
    /\ pending = IF ext_uidplus_supported THEN "appenduid" ELSE "select"
    /\ seq = {} /\ result = 0

-----------------------------------------------------------------------------
(* What a server says along with an answer: EXISTS for messages that came,  *)
(* EXPUNGE for those that went, either one first, or nothing yet.           *)

Number(m) == Cardinality({k \in view : k <= m})

\* <<the numbering, the number in the last EXISTS>> after it spoke of box b: after
\* EXPUNGE it may say how many are left, even if there are none.
New(v, b) == {m \in b : \A k \in v : k < m}
Said(v, b) ==
    LET all == v \cup New(v, b)
        left == all \cap b
        n == IF New(v, b) = {} THEN {} ELSE {Cardinality(all)}
    IN  {<<v, {}>>, <<v \cap b, {}>>, <<all, n>>, <<left, n>>,
         <<left, IF left = v THEN {} ELSE {Cardinality(left)}>>}

Fails(step) ==
    /\ pending = step /\ pending' = "error"
    /\ UNCHANGED <<ext_uidplus_supported, boxVars, seq, result>>

-----------------------------------------------------------------------------
(* The call *)

select ==
    \/ Fails("select")
    \/ /\ pending = "select" /\ pending' = "append"
       /\ view' = box /\ old' = box
       /\ UNCHANGED <<ext_uidplus_supported, box, uidnext, mine, theirs, seq, result>>

Appended ==
    /\ uidnext <= MaxUid
    /\ box' = box \cup {uidnext} /\ mine' = uidnext /\ uidnext' = uidnext + 1

\* A slip: the number of the EXISTS that SELECT got is taken.
append_Selected ==
    \/ Fails("append")
    \/ /\ pending = "append" /\ Appended
       /\ \E s \in Said(view, box') : view' = s[1]
       /\ seq' = {Cardinality(view)} /\ pending' = "search"
       /\ UNCHANGED <<ext_uidplus_supported, old, theirs, result>>

\* EXISTS may come before the message is in, for others, or after, or both.
append ==
    \/ Fails("append")
    \/ /\ pending = "append" /\ Appended
       /\ \E s \in Said(view, box) : \E t \in Said(s[1], box') :
             /\ view' = t[1]
             /\ seq' = IF t[2] # {} THEN t[2] ELSE s[2]
       /\ pending' = IF seq' # {} THEN "search" ELSE "noop"
       /\ UNCHANGED <<ext_uidplus_supported, old, theirs, result>>

\* NOOP or CHECK, and the step if it brought no EXISTS.
PostAppend(step, next) ==
    \/ Fails(step)
    \/ /\ pending = step
       /\ \E s \in Said(view, box) : view' = s[1] /\ seq' = s[2]
       /\ pending' = IF seq' # {} THEN "search" ELSE next
       /\ UNCHANGED <<ext_uidplus_supported, box, uidnext, old, mine, theirs, result>>

\* A slip: a NOOP of the plain kind, that lets EXISTS go.
post_append_noop_Plain ==
    \/ Fails("noop")
    \/ /\ pending = "noop" /\ pending' = "check"
       /\ \E s \in Said(view, box) : view' = s[1]
       /\ UNCHANGED <<ext_uidplus_supported, box, uidnext, old, mine, theirs, seq, result>>

post_append_noop == PostAppend("noop", "check")

\* ok_or: nothing said three times is an error.
post_append_check == PostAppend("check", "missing")

\* A slip: messages are numbered from zero.
number_FromZero == {n - 1 : n \in seq}

number == seq

\* search, not uid_search: what comes back are sequence numbers, here the one
\* asked for if there is such a message.  (A number too large may also fail.)
\* seq.try_into().unwrap() panics on 0, which is no sequence number.
search ==
    \/ 0 \notin number /\ Fails("search")
    \/ /\ pending = "search"
       /\ \E n \in number :
            IF n = 0 THEN pending' = "panic" /\ UNCHANGED result
            ELSE pending' = "ok" /\ result' = IF n \in 1..Cardinality(view) THEN n ELSE 0
       /\ UNCHANGED <<ext_uidplus_supported, boxVars, seq>>

\* With UIDPLUS: the UID is in the answer, unless the server keeps it back.
appenduid ==
    \/ Fails("appenduid")
    \/ /\ pending = "appenduid" /\ pending' = "ok" /\ Appended
       /\ result' \in {0, uidnext}
       /\ UNCHANGED <<ext_uidplus_supported, view, old, theirs, seq>>

-----------------------------------------------------------------------------
(* Other sessions *)

OtherDelivers ==
    /\ uidnext < MaxUid
    /\ box' = box \cup {uidnext} /\ uidnext' = uidnext + 1
    /\ theirs' = theirs \cup {uidnext}
    /\ UNCHANGED <<ext_uidplus_supported, view, old, mine, pending, seq, result>>

OtherExpunges(m) ==
    /\ box' = box \ {m}
    /\ UNCHANGED <<ext_uidplus_supported, uidnext, view, old, mine, theirs, pending, seq, result>>

Next ==
    \/ select
    \/ append
    \/ post_append_noop
    \/ post_append_check
    \/ search
    \/ appenduid
    \/ OtherDelivers
    \/ \E m \in box : OtherExpunges(m)

Spec == Init /\ [][Next]_vars

-----------------------------------------------------------------------------
(* Properties *)

Found == ~ext_uidplus_supported /\ pending = "ok" /\ result # 0

\* If nobody else delivered since the SELECT and nothing was expunged, the
\* number that the chain of fallbacks ends with is that of the appended message,
\* whichever command brought EXISTS.
FoundIsMine ==
    Found /\ theirs \subseteq old /\ old \cup {mine} \subseteq box
       => mine \in view /\ Number(mine) = result

\* If others deliver as well it may be one of theirs, but while nothing is
\* expunged never a message that was there before: EXISTS of the SELECT is not
\* taken for an answer.
FoundIsNew ==
    Found /\ old \cup theirs \subseteq box => \E m \in view \ old : Number(m) = result

\* The program panics on EXISTS 0 (it converts the number with unwrap), but only
\* if other sessions expunged all there was in the mailbox before.
PanicsOnlyIfEmptied == pending = "panic" => old \cap box = {}

\* The call gives up (MissingData "APPENDUID: seq") only if the server never
\* told of the message: nothing it said between APPEND and CHECK is let go.
MissingOnlyIfUntold == pending = "missing" => mine \notin view

\* What comes back is the UID of the appended message, as with UIDPLUS: "This
\* function returns sequence numbers, if you need UID see Client::uid_search"
\* (tokio.rs:455) is the doc of the search whose result is bound to `uid` here.
ReturnsTheUid == pending = "ok" /\ result # 0 => result = mine
=============================================================================
