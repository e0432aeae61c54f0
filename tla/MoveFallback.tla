---------------------------- MODULE MoveFallback ----------------------------
(***************************************************************************)
(* Client::move_or_fallback and uid_move_or_fallback                       *)
(* (src/src/client/tokio.rs) on a selected mailbox that other sessions use *)
(* too: MOVE where the server has it, otherwise COPY, STORE +FLAGS.SILENT  *)
(* (\Deleted) and EXPUNGE, three commands with the rest of the world in    *)
(* between.                                                                *)
(*                                                                         *)
(* Each command is resolved before the next is made (module Session says   *)
(* what resolving is), so a command is one step here: what the server does *)
(* with it, and how the call goes on.  The call may fail or be dropped at  *)
(* any of them, and the program may make it again.                         *)
(*                                                                         *)
(* COPY and STORE get the same sequence set, and each of them makes of it  *)
(* what it means by then.  As in AppendFallback, a set of UIDs stands for  *)
(* a mailbox or a view of it: Number is the sequence number.               *)
(***************************************************************************)
EXTENDS Naturals, FiniteSets

CONSTANTS
    Messages,        \* the UIDs in the mailbox at first
    MaxUid,          \* bound on the UIDs given out
    Uids,            \* the variants called: TRUE is the uid_ one
    ReportsInCopy,   \* may the server report expunged messages during COPY?
    MaxCalls         \* bound on the calls made

ASSUME MessagesAssumption == MaxUid \in Nat /\ Messages \subseteq 1..MaxUid
ASSUME MoveAssumption == /\ Uids \subseteq BOOLEAN /\ ReportsInCopy \in BOOLEAN
                         /\ MaxCalls \in Nat

VARIABLES
    ext_move_supported,
    present,    \* the messages in the mailbox
    view,       \* the messages this session numbers: it has to be told of those that
                \* other sessions delivered, and of those they expunged
    flagged,    \* the messages flagged \Deleted
    copied,     \* the messages of which there is a copy in the target
    arrived,    \* ghost: the messages that ever were in the mailbox
    foreign,    \* ghost: those another session flagged (and did not unflag again)
    unflagged,  \* ghost: those another session took \Deleted from during the call
    expunged,   \* ghost: those this session's EXPUNGE or MOVE removed
    shifted,    \* ghost: those that the sequence set of a call stood for before its COPY
                \* only, or after it only
    careful,    \* ghost: has the program only ever named messages it had been told of, one
                \* by one, and by UID if the server may renumber them during COPY?
    uid,        \* is the call of the uid_ variant?
    pending,    \* the step the call is at (move, copy, store, expunge), or how the
                \* last one ended
    numbers,    \* the sequence set it passed: these UIDs, or numbers,
    star,       \* and, unless this is 0, star:*, those from star on and the last
    wanted,     \* ghost: the messages that the set stands for
    asked,      \* ghost: those that any did
    calls

setVars == <<uid, numbers, star, careful>>
boxVars == <<present, view, flagged, copied, arrived, foreign, unflagged, expunged, shifted>>
vars == <<ext_move_supported, present, view, flagged, copied, arrived, foreign, unflagged,
          expunged, shifted, careful, uid, pending, numbers, star, wanted, asked, calls>>

Ends == {"none", "ok", "error", "dropped"}

Init ==
    /\ ext_move_supported \in BOOLEAN
    /\ present = Messages /\ view = Messages /\ arrived = Messages
    /\ flagged = {} /\ foreign = {} /\ unflagged = {} /\ expunged = {}
    /\ shifted = {} /\ careful = TRUE
    /\ copied = {}
    /\ uid \in Uids /\ numbers = {} /\ star = 0
    /\ pending = "none" /\ wanted = {} /\ asked = {} /\ calls = 0

-----------------------------------------------------------------------------
(* The mailbox *)

Number(v, m) == Cardinality({k \in v : k <= m})
Id(v, m) == IF uid THEN m ELSE Number(v, m)

\* The messages of v that the sequence set stands for.  (star:* has the last one in
\* it even if that comes before star.)
Meant(v) == {m \in v : \/ Id(v, m) \in numbers
                       \/ star # 0 /\ (Id(v, m) >= star \/ \A k \in v : k <= m)}

\* Those of them that a command finds.
NamedIn(v) == Meant(v) \cap present
Named == NamedIn(view)

\* EXPUNGE responses renumber: the UID commands and NOOP-like ones may carry
\* them, the commands that name messages by number may not (COPY may).
Report(allowed) == view' = view \/ (allowed /\ view' = view \cap present)

\* Bookkeeping: between COPY and STORE the sequence set comes to mean others.
Shift == shifted' = shifted \cup (Named \ NamedIn(view')) \cup (NamedIn(view') \ Named)

CopyNamed ==
    /\ copied' = copied \cup Named
    /\ Report(uid \/ ReportsInCopy)
    /\ Shift
    /\ UNCHANGED <<present, flagged, arrived, foreign, unflagged, expunged>>

StoreDeleted(S) ==
    /\ flagged' = flagged \cup S
    /\ Report(uid)
    /\ UNCHANGED <<present, copied, arrived, foreign, unflagged, expunged, shifted>>

ExpungeFlagged ==
    /\ expunged' = expunged \cup flagged
    /\ present' = present \ flagged /\ flagged' = {}
    /\ view' = view \cap present'
    /\ UNCHANGED <<copied, arrived, foreign, unflagged, shifted>>

MoveNamed ==
    /\ copied' = copied \cup Named
    /\ expunged' = expunged \cup Named
    /\ present' = present \ Named /\ flagged' = flagged \ Named
    /\ view' = view \cap present'
    /\ UNCHANGED <<arrived, foreign, unflagged, shifted>>

-----------------------------------------------------------------------------
(* The call *)

\* Any sequence set may be passed: messages seen, ranges that have room for others,
\* and `*`; the same one again after a call that failed, or another one.
Call ==
    /\ pending \in Ends /\ calls < MaxCalls
    /\ uid' \in Uids
    /\ numbers' \in SUBSET (1..MaxUid) /\ star' \in 0..MaxUid
    /\ IF star' = 0 THEN numbers' # {} ELSE \A n \in numbers' : n < star'
    /\ careful' = /\ careful /\ star' = 0
                  /\ numbers' \subseteq (IF uid' THEN view ELSE 1..Cardinality(view))
                  /\ uid' \/ ~ReportsInCopy
    /\ unflagged' = {}
    /\ UNCHANGED <<present, view, flagged, copied, arrived, foreign, expunged, shifted>>
    /\ wanted' = Meant(view)' /\ asked' = asked \cup wanted'
    /\ pending' = IF ext_move_supported THEN "move" ELSE "copy"
    /\ calls' = calls + 1
    /\ UNCHANGED ext_move_supported

\* `?` on the result of resolve: NO or BAD (the server did nothing) ends the
\* call, OK goes on with the next step.  A dropped call may have been executed.
Resolve(step, next, effect) ==
    /\ pending = step
    /\ \/ effect /\ pending' = next
       \/ effect /\ pending' = "dropped"
       \/ UNCHANGED boxVars /\ pending' \in {"error", "dropped"}
    /\ UNCHANGED <<ext_move_supported, setVars, wanted, asked, calls>>

_move == Resolve("move", "ok", MoveNamed)

\* A slip: a COPY that failed does not end the call.
_copy_Unchecked ==
    /\ pending = "copy" /\ pending' = "store"
    /\ CopyNamed \/ UNCHANGED boxVars
    /\ UNCHANGED <<ext_move_supported, setVars, wanted, asked, calls>>

_copy == Resolve("copy", "store", CopyNamed)

\* A slip: a STORE that failed does not end the call.
_silent_store_Unchecked ==
    /\ pending = "store" /\ pending' = "expunge"
    /\ StoreDeleted(Named) \/ UNCHANGED boxVars
    /\ UNCHANGED <<ext_move_supported, setVars, wanted, asked, calls>>

\* A slip: the sequence set is not passed on, all messages are flagged.
_silent_store_All == Resolve("store", "expunge", StoreDeleted(present))

\* A STORE that fails may have flagged some.
_silent_store ==
    \/ Resolve("store", "expunge", StoreDeleted(Named))
    \/ /\ pending = "store" /\ pending' = "error"
       /\ \E S \in SUBSET Named : StoreDeleted(S)
       /\ UNCHANGED <<ext_move_supported, setVars, wanted, asked, calls>>

expunge == Resolve("expunge", "ok", ExpungeFlagged)

-----------------------------------------------------------------------------
(* Other sessions, and what this one is told of them *)

OtherFlags(m) ==
    /\ m \in present \ flagged
    /\ flagged' = flagged \cup {m} /\ foreign' = foreign \cup {m}
    /\ UNCHANGED <<present, view, copied, arrived, unflagged, expunged, shifted>>

OtherUnflags(m) ==
    /\ m \in flagged
    /\ flagged' = flagged \ {m} /\ foreign' = foreign \ {m}
    /\ unflagged' = unflagged \cup {m}
    /\ UNCHANGED <<present, view, copied, arrived, expunged, shifted>>

OtherExpunges ==
    /\ flagged # {}
    /\ present' = present \ flagged /\ flagged' = {}
    /\ UNCHANGED <<view, copied, arrived, foreign, unflagged, expunged, shifted>>

OtherDelivers(m) ==
    /\ \A k \in arrived : k < m
    /\ present' = present \cup {m} /\ arrived' = arrived \cup {m}
    /\ UNCHANGED <<view, flagged, copied, foreign, unflagged, expunged, shifted>>

\* EXISTS, which a server may say at any time.  The set of a call that has not been
\* executed stands for other messages now; that of one between COPY and STORE should
\* still stand for the same.
Exists(m) ==
    /\ m \in present \ view /\ \A k \in present \ view : m <= k
    /\ view' = view \cup {m}
    /\ IF pending = "store"
       THEN Shift
       ELSE UNCHANGED shifted
    /\ IF pending \in {"move", "copy"}
       THEN wanted' = (wanted \ Meant(view)) \cup Meant(view') /\ asked' = asked \cup wanted'
       ELSE UNCHANGED <<wanted, asked>>
    /\ UNCHANGED <<ext_move_supported, present, flagged, copied, arrived, foreign, unflagged,
                   expunged, setVars, pending, calls>>

Other ==
    /\ \/ \E m \in 1..MaxUid : OtherFlags(m) \/ OtherUnflags(m) \/ OtherDelivers(m)
       \/ OtherExpunges
    /\ UNCHANGED <<ext_move_supported, setVars, pending, wanted, asked, calls>>

Next ==
    \/ Call
    \/ _move
    \/ _copy
    \/ _silent_store
    \/ expunge
    \/ Other
    \/ \E m \in 1..MaxUid : Exists(m)

Spec == Init /\ [][Next]_vars

-----------------------------------------------------------------------------
(* Properties *)

\* A careful program loses no message: what this session removes from the mailbox is
\* in the target, unless another session flagged it (EXPUNGE takes that along); over
\* failures, drops and repeated calls, and whatever happens between the commands.
\* One that is not careful loses what STORE flags and COPY did not copy: because the
\* numbers, or the last message, have changed since, or because a message came that
\* the sequence set has room for (a range, or `*`).
NothingLost ==
    \A m \in expunged :
      m \in copied \/ m \in foreign \/ (~careful /\ m \in shifted)

\* Ok means moved: no message asked for is left behind, unless another session
\* took the flag away, and each of them that another session did not take away is
\* in the target (with the same exceptions).
OkMeansMoved ==
    pending = "ok" =>
      \A m \in wanted : \/ ~careful /\ m \in shifted
                        \/ /\ m \in present => m \in unflagged
                           /\ m \in copied \/ m \in foreign

\* Only what was asked for moves: of a message nobody asked to move there is no
\* copy, and EXPUNGE removes it only if another session had flagged it (with the
\* same exceptions).
OnlyWhatWasAsked ==
    \A m \in arrived \ asked :
      /\ m \notin copied
      /\ m \in expunged => m \in foreign \/ (~careful /\ m \in shifted)
=============================================================================
