# imap-client in TLA+

Models, model checks and proofs of the core of `imap-client`, a Rust IMAP client
built on the sans-I/O engine `imap-next`. Paths below are those of the
repository, which lies under `src/`.

1. [The system](#1-the-system) – components, state, interactions, hazards
2. [Modules](#2-modules) – which module models what
3. [Runs](#3-runs) – what each model check asks, its bounds, the fairness
4. [Proofs](#4-proofs) – what holds for every value of the constants, and why
5. [Divergences](#5-divergences) – where the code and what is said of it part
6. [What is not modelled](#6-what-is-not-modelled)
7. [Plan](#7-plan)

## 1. The system

A `Client` (`src/client/tokio.rs`) owns a `Stream` (bytes) and a `Client` state
(`src/client/mod.rs`: a `Resolver`, the cached capabilities, `condstore_enabled`,
the IDLE timeout). Everything it does is a *task*: a command and what to make of
the responses.

    program -> Client (tokio.rs) -> Resolver -> Scheduler -> ClientNext (imap-next)
                      |                                          |   events up,
                      +-- Stream::next: drives the state, -------+   bytes down
                          writes its output, reads its input

| component | state | operations | correct when |
|---|---|---|---|
| Tasks (`src/tasks/tasks/*.rs`) | the fields a task fills | `command_body`, `process_data`, `process_untagged`, `process_bye`, `process_continuation_request*`, `process_tagged` | what is returned is the last the server said (or all of it), and the verdict is the server's |
| Scheduler (`src/tasks/mod.rs`) | `waiting_tasks`, `active_tasks`, tag generator, the engine | `enqueue_task`, `enqueue_input`, `progress` | each command has its task in one of the maps until it is answered; responses go to the task they are for; none of the `unwrap`s fails |
| Resolver (`src/tasks/resolver.rs`) | a scheduler; per call the handle awaited | `resolve`, `ResolvingTask::next` | each call returns the output of its own task; dropped calls disturb no later one |
| IDLE (`tokio.rs:1178-1271`) | none of its own: it drives the engine past the scheduler | `enqueue_idle`, `idle`, `idle_done` | when it returns Ok, IDLE is over on both sides |
| Stream (`src/stream.rs`) | a transport, a read buffer | `next` | what the engine hands out arrives, in order, before the call waits for an answer; what the peer sends reaches the engine, once |
| Connection and capabilities (`client/mod.rs`, `tokio.rs:165-368, 752-858`) | `capabilities`, `condstore_enabled` | constructors, STARTTLS, `refresh_capabilities`, `login`, `authenticate`, `enable*`, `ext_*_supported` | after Ok the cache says what the server offers now; after a failure it is what it was |
| AUTHENTICATE data (`authenticate.rs`) | the SASL line, taken once | `process_continuation_request_authenticate` | the line is sent once, every challenge is answered |
| Fetch (`tokio.rs:647-674, 902-985`, `fetch.rs`) | items by sequence number, then by UID | `fetch`, `uid_fetch`, `fetch_first`, `uid_fetch_first` | items are returned under the message they belong to, all of them |
| Sort fallback (`tokio.rs:987-1095, 1274-1363`) | the ids found, the map of what was fetched | SORT, or SEARCH, FETCH in chunks and a local sort | the same result either way |
| Move fallback (`tokio.rs:1144-1176`) | none but its progress | MOVE, or COPY, STORE, EXPUNGE | no message is lost, Ok means moved, nothing else moves |
| Append fallback (`tokio.rs:1097-1142`) | the number EXISTS gave | APPEND with UIDPLUS, or SELECT, APPEND, NOOP, CHECK, SEARCH | the message found is the one appended |
| Verifier, examples | – | TLS fingerprint check; sample programs | – |

What makes it hard:

* **Pipelining without tags.** Untagged responses carry no tag. `trickle_down`
  offers them to the active tasks in turn, the first that does not hand one back
  keeps it: right only as long as `active_tasks` is in the order of the commands.
* **Two queues that must agree.** The engine has a queue of unsent commands, the
  scheduler one of waiting tasks; four different events move their heads, and
  `unwrap` relies on their agreement.
* **Futures may be dropped.** `&mut self` lets one call be awaited at a time, but
  a dropped call leaves its command running: the next call meets its events, its
  data and its token. A call of several commands may be dropped between them, and
  `Stream::next` in the middle of a write.
* **Writing and reading take turns.** `Stream::next` reads after every write, so
  a write nobody answers blocks the call, and events about what was written come
  late.
* **IDLE goes round the scheduler**, both for its command and for its events.
* **Refusals come early.** A server may refuse a literal, an IDLE, an
  AUTHENTICATE before the client is done sending it.
* **A cache of what another party offers**, which changes with TLS, with the
  login, and with what was enabled.
* **Numbers that move.** Sequence numbers are reused when messages go, between
  two commands and, for UID commands, between two responses of one.
* **Fallbacks are several commands long**: failures and other sessions come in
  between.

`PROJECT.json` lists the hazards one by one, each with its line and the
properties that watch it; those without a property say why.

## 2. Modules

    Tasks <- ClientNext <- Scheduler <- Session <- MCSession
                            |  \   \         \--------------.
                    TaskService \   MCScheduler              |
                     (INSTANCE)  \                           |
                        SchedulerProofs <- AnswerProofs <- SessionProofs

    Stream <- StreamProofs                   MoveFallback <- MoveProofs
        \---- MCStream                              \------- MCMove
    Connection <- ConnectionProofs           AppendFallback <- AppendProofs
          \------ MCConnection                       \------- MCAppend
    Fetch <- SortFallback <- SortProofs
                    \------- MCSort

Two levels: *Tasks* to *Session* say what resolving one command is, event by
event; *Stream* says what Session assumes of the bytes below; the others are about
calls made of several commands, each of which is one step there.

**Tasks** – all 26 tasks as data: the shape of the command on the wire (plain,
with a literal, AUTHENTICATE, IDLE), the responses each consumes, what it keeps
of them, the codes it takes from the command completion result; with the
operators `Consumes` (the `process_*` methods), `Kept` and `process_tagged`. A
response is a record; its kind stands for its payload. `id` and `n` are ghosts:
the command a response answers (responses but tagged ones do not say so in
reality; no operator but the tag match reads it) and its place among the answers.

**ClientNext** – the environment (external): the engine as `src/` uses it
(`enqueue_command`, `set_authenticate_data`, `set_idle_done`, one action per
event), and an IMAP server at the other end of a FIFO `wire`. Handle and tag of
a command are one number, because `enqueue_task` and `enqueue_idle` always draw
them together. The constants say what a server may do: volunteer responses
(`Volunteered`), answer out of order (`Reorders`), refuse literals
(`RejectsLiterals`). The server obeys the protocol: it answers what it received,
each command once, and sends continuation requests only when asked for one, or
when no command could take it for the one it waits for.

**Scheduler** – `TaskMap`, `enqueue_task`, and one action per arm of the `match`
in `progress` (`CommandSent`, `CommandRejected`, `AuthenticateStarted`, …,
`MalformedMessage` for the engine's error, FETCH lines skipped as in
`mod.rs:141`). An `unwrap` on `None` is the outcome `panic`, after which nothing
happens. `waiting` and `active` are the maps, `consumed[c]` what task `c` took
in, `output[c]` its output, `event` how the last iteration of `progress` ended.

**TaskService** – the abstract specification of the scheduler: tasks queue,
start in order, are decided once, finish once with the verdict decided for them.
`Scheduler!Service` is the refinement mapping.

**Session** – one client on one connection: `resolve` and `ResolvingTask::next`
on top of `Scheduler`'s actions, `enqueue_idle`/`idle`/`idle_done` on top of
`ClientNext`'s, `Stream::next` that drives the engine for them, the timeout,
dropped futures, the end of the connection. `Stream::next` reads after each
write before it asks the engine again (`reading`), and the engine takes in what
it was given (the first `buffered` responses of `wire`), so that a command is
only ever reported as sent when the server has spoken after it.
`caller` is the call being awaited, `returned` how each call ended. The program
may do with IDLE whatever the API allows; the ghost `tidy` says whether it has so
far used IDLE as it is meant: started with nothing of an earlier call under way,
`idle` dropped only once the server accepted, then `idle_done` with the same tag
(called again if its future was dropped), and no further call after one of them
failed. (A continuation request out of the
blue, which a client cannot tell from the acceptance of IDLE, ends it, too.)
Properties that hold only then say so.

**Stream** – `Stream::next` byte by byte: `write_all` in as many fragments as the
transport likes, `flush` for what it held back, `read` into the buffer that
still has the bytes of earlier reads, the engine's turn, and a drop or a lost
connection at each await. The ghosts `cut` and `unflushed` say whether a drop
left a gap in, or bytes behind, what the peer receives.

**Connection** – the constructors, and what a `Client` remembers of its server:
`capabilities` and `condstore_enabled`, over every call that stores or consults
them. What the server offers depends on the stage the connection is at (before or
after TLS, before or after the login) and is arbitrary otherwise; it may say so in
the greeting, in the answer to a login, or only when asked. Each step of a call may
fail or be dropped; a dropped command may or may not have been executed. The
dialogue of AUTHENTICATE is there challenge by challenge, with the task's `line`
and `ir`. `source` (where the cache comes from), `settled` and `before` are
ghosts.

**Fetch** – FETCH response by response. A message is its UID, an item is a name
and the message it is about, which the client sees of the UID item only. The
server gives the items in any portions and order, volunteers flags of any message
with or without the UID, and reports EXPUNGE during UID commands, so that one
number stands for several messages in turn. `Rekeyed` is the set of maps `_fetch`
may return: the entries of a hash map and the items of a hash set come in any
order.

**SortFallback** – one call of `fetch`, `fetch_first` or `sort_or_fallback`, or of
its `uid_` variant, on top of Fetch: SORT or SEARCH, the chunks, the extension of
one map by each, and the sort by `cmp_fetch_items` where the server has no SORT.
The sort keys that differ between messages are read from the entries, as the code
does; what a key of several candidates (an entry with items of two messages)
yields is any of them.

**MoveFallback** – `_move_or_fallback` for both variants on a mailbox that other
sessions deliver to, flag, unflag and expunge. `view` is the messages this session
numbers; it lags behind until the server reports an EXPUNGE or EXISTS. A call
passes any sequence set, which COPY and STORE get one after the other: explicit
ids and ranges (`numbers`, which may be ids nobody has yet) and `n:*` (`star`).
What it stands for (`Meant`) depends on the view each of them is executed in. A
command is one step (what resolving means is Session's subject) and may succeed,
fail, or lose its answer with the call. The ghost `shifted` has the messages that a
sequence set stood for only before, or only after, its COPY: those renumbered
meanwhile, those that are the last now or were it before, and those that came
meanwhile and that it has room for. The ghost `careful` says that the program has
so far passed only ids of messages it had been told of, no `*`, and UIDs if the
server may renumber during COPY.

**AppendFallback** – `appenduid_or_fallback` the same way: `Said` enumerates what
a server may say of a mailbox along with an answer (EXISTS, EXPUNGE, both,
either order, or nothing yet), down to EXISTS 0. A mailbox is a set of UIDs, given
out in ascending order, and the number of a message counts those up to it.

Each module defines, next to an action or helper, *slips*: variants with a
plausible mistake, used by no specification. Replacing the definition by its
slip must break the property `PROJECT.json` pairs it with ("mutants").

## 3. Runs

Invariants and properties are stated, with what they mean for the code, at the
end of each module. The two modules whose proofs need the types of all variables,
Scheduler and Connection, have a type invariant; in the others the types are in
the comments on the variables.

| run | configuration | asks |
|---|---|---|
| `scheduler` | `MCScheduler` | two pipelined commands of every shape on the wire, with unsolicited and malformed responses: `TypeOK`, `EveryCommandHasItsTask`, `WaitingIsUnsent`, `UnwrapsHold`, and under fairness `TasksFinish`, `ImplementsFairService` |
| `kinds` | `MCSchedulerKinds` | two pipelined commands after the same data, of tasks that keep one, one of each kind, all, or take it from the verdict, up to two answers to each and an unsolicited response: `AnswersReachTheirTask`, `LatestAnswerWins` |
| `drops` | `MCSessionDrops` | three calls, each may be dropped, the server answers out of order: `ActiveHoldsInProgress`, `AwaitedTaskIsPending`, `NoUnexpectedTagged` |
| `idle` | `MCSessionIdle` | calls, drops and IDLE in any order the API allows, literals refused, data, BYE, a lost connection: `VerdictIsTheServers`, `FinishedIsFinal` always; `IdleIsOver`, `IdleKeepsUnwraps` and, under fairness, `CallsReturn` while IDLE is used as it is meant |
| `connection` | `MCConnection` | every sequence of constructors and calls over five extensions and three offers per stage: `TypeOK`, `CacheIsCurrent`, `CacheIsOfThisTransport`, `UsesWhatIsOffered`, `FlagMeansOn`, `FailureKeepsTheCache`, `LineIsSentOnce`, under fairness `CallsEnd` |
| `stream` | `MCStream` | three requests of 2, 1 and 3 bytes, answers of 2 bytes, a buffer of 3: `OutIsInOrder`, `ReadsAfterFlush`, `InIsInOrder`, under fairness `NextReturns` |
| `sort` | `MCSort` | three messages, chunks of two, one EXPUNGE and one volunteered FETCH, four lists of criteria, every assignment of sizes: `EntriesAreTheirs`, `NothingForgotten`, `NothingInvented`, `AgreesWithSort`, `FetchFirstMatches` |
| `move` | `MCMove` | two calls of either variant with every sequence set over two messages and a third that is delivered, a server that renumbers during COPY: `NothingLost`, `OkMeansMoved`, `OnlyWhatWasAsked` |
| `append` | `MCAppend` | one call, two messages before it, up to four from others, any of them expunged: `FoundIsMine`, `FoundIsNew`, `MissingOnlyIfUntold`, `PanicsOnlyIfEmptied` |
| `rejected`, `idle_unwrap`, `append_uid` | `MCSchedulerRejected`, `MCSessionIdleUnwrap`, `MCAppendUid` | the divergences of section 5: each finds its property violated |

**Bounds.** `MaxCommands` bounds the commands of a behaviour. Two suffice for
the scheduler, because the engine sends one command at a time and two tasks can
compete for a response; what holds of the maps for any number is proved (section
4). `kinds` takes one task for each way of keeping what comes (the other tasks
differ from them in the data they are after; the theorems are about all 26). In `drops` a second and a third call meet what a first one left. `MaxGiven`
bounds the responses that answer one command (two let a later one displace an
earlier one), `MaxExtra` the responses a server volunteers and the challenges it
makes, `MaxCalls` the calls to move (a repeated call is what meets the flags a
failed one left). `MaxUid` bounds the deliveries; in `move` one message
that comes late is enough, and UIDs and numbers differ as soon as one is gone. `MaxExpunged` and
`MaxVolunteered` bound what disturbs a FETCH: one of each is what makes two
messages share a number, and an entry lack its UID or be overwritten by a later
chunk; `ChunkLen = 2` stands for 255 and makes three ids two chunks. In Stream the
lengths make fragments of every kind: requests longer and shorter than one write,
answers shorter than the buffer, two answers in one read. Connection has no bound
but the sets of extensions, of which one is consulted by each kind of call. TLC
visits between about 10 000 and 9 million states a run. No symmetry is declared:
commands are ordered, and so are messages.

**Deadlock** is checked in `scheduler`, `drops`, `connection` and `stream`, with a
stuttering step only where all is done, the server is gone, or bytes of a dropped
call are missing (`Rest`, `AllCalled`). It is not in `kinds` and `idle`, where the
code can hang by design of the API (a task of the program's own that answers no
challenge; `idle_done` before IDLE was accepted), nor in `move`, `append` and
`sort`, where the call ends.

**Fairness.** `FairSpec` of Scheduler and `SessionFairSpec` assume that the program
keeps polling the call it awaits (`progress`, `WriteOutput`, in Session
`StreamWrite`, `StreamRead` and `StreamClosed`: that is what awaiting
`Stream::next` does), that the timer of `idle` fires (`tokio::time::timeout`),
that a program with an IDLE task of its own ends it, and that the server
answers each command it received: weak fairness per command of what the server
owes it at the moment (`Owed`: the invitation to go on, the acceptance of IDLE, or
a verdict, whichever it likes). `FairSpec` of Stream is weak fairness of the engine's
turn, of each await and of the peer's reply: the runtime polls the call whenever
the transport is ready. `FairSpec` of Connection says that a command is answered or
refused in the end (strong fairness, because a server may challenge again and
again before it does), that a connection the server closed is noticed, and that
a challenge is answered by the task. Nothing is assumed about dropping,
volunteering, about the server providing data or about its keeping the
connection.

**Refinement.** `ImplementsFairService`: with the mapping `Service`, the scheduler
implements TaskService, its fairness included (nothing stays queued, nothing
decided stays unfinished).

## 4. Proofs

Checked by TLAPS, for every value of the constants that satisfies the assumptions
stated where they are declared: `ClientNext`: bounds are natural numbers, kinds are
task kinds, what is volunteered is a response; `MoveFallback`: a
mailbox of UIDs up to `MaxUid`, the number of UIDs that may be given out; `Connection`: offers are sets of extensions; `Stream`: a buffer of
at least one byte, requests and answers of at least one; `AppendFallback`: the
mailbox at the start is a set of UIDs up to `MaxUid`; `Fetch` and `SortFallback`: a
finite mailbox of positive UIDs, at least one item asked for, criteria made of sort
keys, chunks of at least one id. Where a theorem needs more of
the server or the program than that, the hypothesis is part of its statement.

**SchedulerProofs** proves about `Scheduler`'s `Spec`

* `TypeCorrect`: `TypeOK` always holds;
* `WaitingIsUnsentHolds`: `waiting_tasks` is always exactly the engine's queue of
  unsent commands, headed by the one being sent;
* `EveryCommandHasItsTaskHolds`: every command enqueued has its task in exactly
  one map, once, in order, or has its output;
* `FinishedIsFinalHolds`: no step changes an output or feeds a finished task.

The inductive invariant is `IInv == TypeOK /\ WaitingIsUnsent /\
EveryCommandHasItsTask`. The three need each other: that a started task keeps the
order of `active` needs every waiting command to be younger than every active
one, which holds because the one that starts is the head of `waiting`, which is
what `WaitingIsUnsent` says of the command the engine reports; that a removal by
position removes all there is of a task needs the maps to be strictly
increasing. Lemmas on sequences (`WithoutProperties`, `RemoveProperties`,
`PushBackProperties`, …) carry the facts about the maps; then there is one lemma
per action. The server's and the engine's policies (`Reorders`,
`RejectsLiterals`, `Volunteered`) are arbitrary: the theorems cover the runs in
which an `unwrap` fails, too, up to the panic.

**AnswerProofs** goes on to what becomes of what the server says, first of its
verdicts:

* `VerdictIsTheServersHolds`: a task ends with the verdict on its own command;
* `NoUnexpectedTaggedHolds`: every tagged response finds its task among the active
  ones, in whatever order the server answers;
* `PanicMeansRefused`: an `unwrap` on the maps fails only if a command was refused
  whose task is still waiting, so that with a server that invites every literal
  (`~RejectsLiterals`) none ever fails (`UnwrapsHoldIfInvited`). The hypothesis is
  needed: run `rejected` of section 5 is the counterexample without it;
* `ImplementsService`: `Spec => Service!Spec`, every step of the scheduler is a step
  of TaskService or a stutter, action by action (its fairness stays with TLC).

The invariant `VInv` follows a verdict from the server to the output: nothing is
decided about a command that is not written (`Sent`), a verdict under way is
what the server decided, the only one, and not yet met (`Decided`), and the
command that holds the connection was written and has not finished (`Held`). It
says nothing of the maps, and so holds of IDLE, too; that a verdict meets an
active task follows from it together with `IInv`.

Then of its answers: `AnswersReachTheirTaskHolds` and `LatestAnswerWinsHolds`, for a
server that works on pipelined commands in order (`~Reorders`): any number of
commands, of answers to each, of unsolicited responses. That an answer is missing
from what a task returns has one excuse (`Displaces`): the task keeps one of what
it gets and returns another that came later; if it keeps one of each kind (SELECT,
STORE) only another of that kind counts. Without tags this is all
that can be had: a server that answers a later command first gives its data to the
earlier task. The invariant `AInv` relates three places of an answer – given,
on the wire, consumed – by number: each is in exactly one of the last two
(`GivenIsThere`, `WireIsGiven`, `ConsumedIsGiven`), before its verdict
(`VerdictIsLast`), and after the verdicts on all earlier commands
(`VerdictsComeFirst`). When an answer arrives, all earlier tasks have therefore
finished, and its own is the first of `active`.

**SessionProofs** takes this to a `Client` whose calls are dropped, and which may use
IDLE. In every session the types, the verdicts and the finality of outputs hold
(`SessionTypeCorrect`, `SessionVerdicts`, `SessionFinal`): they do not depend on the
agreement of the two queues, which IDLE breaks. Without IDLE (`NoIdle`: neither
`enqueue_idle` nor an IDLE task) a session is a run of the scheduler
(`SessionImplementsScheduler`), from which `SessionNoUnexpectedTagged` and
`SessionAnswers` follow, and `ActiveHoldsInProgressHolds` and
`AwaitedTaskIsPendingHolds` are proved: after any number of dropped calls, each
command in progress has its task, and nobody else takes the token of the call
awaited.

With IDLE, and no task of the program's own that issues one (`NoIdleTask`: the
crate has none, only `enqueue_idle`), `IdleIsOverHolds` and `IdleKeepsUnwrapsHolds`
are proved: as long as IDLE is used as it is meant (`tidy`), what `idle_done`
returned from is over for server, engine and wire, and no `unwrap` fails but
for a command that is refused while it waits. `TidySessions` adds that then the
active tasks are those in progress and no tagged response is unexpected, as
without IDLE. The inductive invariant `IdleInv` has, whatever the program does,

* `EngineIdles` – the engine is in a phase of IDLE exactly while an IDLE holds the
  connection, and as long as it asks the server has at most accepted or refused it;
* `CallsHaveTheirKind` – `resolve` awaits a task, `idle` and `idle_done` an IDLE;

and in a tidy session

* `Handshake` – server and engine agree on whether an IDLE was accepted, but for
  the one continuation request under way: without it one left there could meet
  a later IDLE, which the engine would end before the server has begun it;
* `IdleIsAlone` – while an IDLE is not over, the maps are empty and the engine has
  nothing but the IDLE: without it the scheduler would be told of a command it
  has no task for;
* `ReturnedIsOver` – so the next command starts from an engine that is free, and
  the two queues agree again;
* `TasksAreThere` – every command that is not an IDLE has its task in `waiting`
  while it is unsent or being sent, and in `active` from then on;
* `OnlyRefusalPanics` and `NoUnexpectedTagged` – what it is all for; that a step
  keeps them needs all of the above.

**StreamProofs** proves `OutIsInOrderHolds`, `InIsInOrderHolds` and
`ReadsAfterFlushHolds` for requests, answers and buffers of every length and any
transport. What is added to make them inductive: only a call in `write_all` has
something left to write (`LeftIsWritten`), what the transport holds is flushed
before the engine is asked again unless a call was dropped before its flush
(`HeldIsFlushed`), and no byte is written that was not handed out
(`OutIsHanded`).

**AppendProofs** proves `FoundIsMineHolds`, `FoundIsNewHolds`,
`PanicsOnlyIfEmptiedHolds` and `MissingOnlyIfUntoldHolds`, for any mailbox and any
number of deliveries and expunges by others. UIDs ascend (`Ascending`); what is in
the mailbox or seen by the session was there, is theirs or mine, what was there
first (`Origin`); until EXISTS the session sees nothing new (`NothingNew`), and
after it the number searched for is that of the last message it sees, which is
new unless something was expunged (`LastIsNew`). The lemmas are about counting:
the number of a message is its rank.

**MoveProofs** proves `MoveLosesNothing`, `MoveOkMeansMoved` and
`MoveOnlyWhatWasAsked`, for any mailbox, any sequence sets, any number of calls,
failing and dropped ones, and whatever other sessions do, deliveries included. The
inductive invariant says why:

* `NothingIsAtRisk`: what left the mailbox or is flagged to leave it has a copy,
  and so has, once COPY succeeded, all that STORE is going to flag;
* `NothingElseIsNamed`: a call names only what was asked for;
* `WantedGoesOn`: what is wanted and still there is named, then flagged, then
  gone.

Each has the exception of the messages in `shifted`, which is needed: without it TLC
finds the losses of section 5. The properties allow it to careless programs only,
so that the invariant also has

* `CareHelps`: for a careful program `shifted` is empty, since its sequence sets
  name by UID what it had in view, or by number nothing beyond the view while
  nothing is renumbered; a message it is told of meanwhile is out of their reach
  (`CarefulIsUnmoved`), because it comes after all the others (`ToldInOrder`) and
  gets the next number (`NextNumber`).

**ConnectionProofs** proves the seven invariants of Connection for every set of
extensions and everything a server may offer at each stage. None of them is
inductive. What they share (`IInv`):

* `StepOfCall`, `ClientOfCall`, `StoringRuns` – which steps belong to which call,
  who holds a `Client`, and that a call that stores is not settled while it runs;
* `CacheIsKept` – nothing is stored before the step in which the call returns Ok,
  so that a failure at any earlier one leaves the cache as it was;
* `FlagIsOffered` – CONDSTORE was turned on after the login, after which the stage
  does not change any more under a `Client`;
* `LineIsSomewhere` – the SASL line is in the task or was sent, never both;
* `UsesTheCache` – what the cache says allows what the command under way uses,
  which `CacheIsOfThisTransport` carries over to what the server offers.

The connection only ever goes ahead (`Advances`): to TLS while no `Client` is
handed out, to the login once. Lemmas for the beginning, the going on and the end
of a call (`BeginsKeeps`, `GoesOnKeeps`, …) are shared by the lemmas of the
actions.

**SortProofs** proves the five invariants of SortFallback (`EntriesAreTheirsHolds`,
`NothingForgottenHolds`, `NothingInventedHolds`, `AgreesWithSortHolds`,
`FetchFirstMatchesHolds`), for any mailbox, criteria, values, chunk length and
number of chunks, and any server and other sessions. The invariant `SortInv` follows
the items:

* `Collected` – what a FETCH has collected was asked for or volunteered, and stands
  under the number of its message as long as the numbers did not change;
* `Complete` – what was asked for of a message still there is to come or collected;
* `Entries` – what has been put in the map stands under its own id;
* `Earlier` – the chunks that are behind are in the map, whole: a later FETCH is
  about other ids (`InChunk`) and replaces an entry only where the server volunteered
  something about it;
* `Result` – of the call that returned this holds for all ids, and what it returns
  is ordered by values read from entries, which are the message's own
  (`ReadsItsOwn`).

That no id is asked for twice (`Once`) comes from `OrderProperties`: a list as long
as the set it lists has no repetition.

Only model-checked: all liveness (`TasksFinish`, `CallsReturn`, `CallsEnd`,
`NextReturns`, the fairness of `ImplementsFairService`), which is out of the reach of
the prover: it has no rules for ENABLED.

## 5. Divergences

* `rejected`: the comment at `src/tasks/mod.rs:173` ("This `unwrap` can't fail
  because `active_tasks` contains all in-progress `Commands`.") overlooks that a
  task becomes active only with `CommandSent`; when the server refuses a literal,
  `CommandRejected` comes instead of it and the `unwrap` panics.
* `idle_unwrap`: the comment at `src/tasks/mod.rs:277` ("This `unwrap` can't fail
  because `waiting_tasks` contains all unsent `Commands`.") does not hold for the
  IDLE of `enqueue_idle` (`src/client/tokio.rs:1178`), which has no task: a call
  that meets `IdleCommandSent`, because `idle` was not called or ended early,
  panics.
* `append_uid`: the fallback of `appenduid_or_fallback` returns what `search`
  returns, and `search` "returns sequence numbers, if you need UID see
  [`Client::uid_search`]" (`src/client/tokio.rs:455`).
A fourth text is contradicted too, and has no run of its own, because the exception
that `FetchFirstMatches` makes is what it denies: the doc of `FetchFirstTask` says
that it "only collects message data items for the first message matching the given
id" (`fetch.rs:108-109`). It keeps the last FETCH there is, be it one the server
volunteered about another message (`fetch.rs:150-157`): stated without the
exception, the run `sort` finds the property violated. With it, what holds is that
nothing but a volunteered FETCH can take the place of the message asked for.

Seen while modelling; no text of the repository is plainly contradicted, so they
are described here and not checked as violations:

* A call is dropped before its command is reported as sent and `idle` follows:
  `idle` swallows its `CommandSent`, so its command is in progress while its task
  waits (`ActiveHoldsInProgress` does not hold where IDLE is not used as meant).
* `idle_done` after dropping `idle` before the server accepted IDLE waits for
  ever: `set_idle_done` has no effect then and is not called again.
* `IdleRejected` ends `idle` whatever command it is for (`tokio.rs:1215`).
* A call dropped inside `write_all` (every turn of `idle` is under a timeout)
  leaves a gap in what the peer receives: the engine does not hand bytes out
  twice (`stream.rs:47`). A call dropped before `flush` leaves bytes behind until
  the next write. In both cases a later call may wait for ever.
* `fetch` in chunks loses items: the flags volunteered during a later chunk replace
  the entry of an earlier one (`NothingForgotten` has this exception).
* What the server volunteers is in the result of the fallback for SORT, too, and
  not in that of SORT (`NothingInvented`).
* The fallback compares no addresses and no display names, compares dates as the
  text of the header (`tokio.rs:1301-1362`), and takes no criteria for date
  ascending where `_sort` sends REVERSE DATE (`tokio.rs:484`). `AgreesWithSort` is
  about the keys both ways compare by the same values.
* The doc of `condstore_enabled` says "Returns `true` if the `CONDSTORE` extension
  is enabled" (`client/mod.rs:175`): `true` means that it is (`FlagMeansOn`), but
  it stays on for the server when a repeated ENABLE that lists nothing sets the
  flag back (`tokio.rs:366`), and when an `enable` by the program turned it on.
* `capabilities()` "just returns capabilities saved during the creation of this
  client" (`client/mod.rs:59`): also those saved by a login or a refresh.
* The kind of the greeting is not looked at (`tokio.rs:309`): after BYE the
  constructor asks for capabilities, or hands out a client with those in the
  greeting, and after PREAUTH a program is not told that it is logged in.
* The fallback for MOVE gives one sequence set to COPY and then to STORE
  (`tokio.rs:1154-1155`), which may stand for other messages by then; what STORE
  flags and COPY did not copy is expunged, and lost (`shifted` in MoveFallback). A
  range with room for ids not given out yet, or `*`, takes in a message that another
  session delivers between the two, by UID as well; `*` no longer stands for the
  message that was the last; and by number any set may shift if the server
  renumbers during COPY. `NothingLost` shows that these are all the losses, and
  that there are none for a program that passes UIDs it has seen one by one.
* EXISTS 0 during APPEND makes `seq.try_into().unwrap()` panic
  (`tokio.rs:1135`); it takes a mailbox that others emptied of all that was in it
  when it was selected (`PanicsOnlyIfEmptied`).

## 6. What is not modelled

* Text: tags, quoting, literals as bytes, the parser, the SASL lines. A line the
  engine gives up on is a `malformed` response.
* The arguments of commands, and their conversions (`TryInto`), but for those the
  fallbacks depend on: the sequence set to move, the criteria and items of a sort,
  the items and ids of a fetch. Of the criteria of SEARCH only what they find, of
  the sequence set of `fetch` only that it stands for the messages it named at first.
* TLS itself, the certificate verifier (`verifier.rs`, a comparison of
  certificates without state), the examples.
* The low-level wrappers of `tokio.rs:326-743` one by one: each is one `resolve`
  of one task, and both are modelled.
* A server that breaks the protocol (answers twice, answers what it never got).
* In Session, drops inside `write_all` and lost bytes: they are in Stream, where
  commands are bytes; Session takes from it that a call waits at the read.

## 7. Plan

Done: Tasks, ClientNext, Scheduler, TaskService, Session, Stream, Connection,
Fetch, SortFallback, MoveFallback, AppendFallback, with SchedulerProofs,
AnswerProofs, SessionProofs, StreamProofs, MoveProofs, ConnectionProofs, SortProofs
and AppendProofs.
